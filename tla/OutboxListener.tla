--------------------------- MODULE OutboxListener ---------------------------
(***************************************************************************)
(* internal/poller/outbox.go: the outbox poller, composed with the events  *)
(* table, its LISTEN connection and the broker, inside one server process  *)
(* that boots, crashes and shuts down (cmd/server, internal/server).       *)
(*                                                                         *)
(* One action per call the run goroutine makes to the database, the broker *)
(* or the listener, so the RPC handlers, the broker, the loss of the       *)
(* connection, a crash and the cancellation of the context can fall        *)
(* between any two of them.                                                *)
(***************************************************************************)
EXTENDS EventTable, PGListener, RedpandaPublisher

CONSTANTS
  PollLimit,    \* pollLimit of NewOutboxListener (100 in cmd/server)
  Disruptions,  \* what may go wrong: a subset of the kinds below
  MaxBoots,     \* bound: how often the process is started
  MaxDrops      \* bound: how often the LISTEN connection is lost

ASSUME ListenerAssumption ==
  /\ PollLimit \in Nat \ {0}
  /\ Disruptions \subseteq
       {"query", "connect", "listen", "publish", "crash", "shutdown"}
  /\ MaxBoots \in Nat
  /\ MaxDrops \in Nat

VARIABLES
  pc,        \* the next call of the run goroutine, or why it does not run
  batch,     \* events handed to ProcessEvent and still to process
  ctxDone,   \* runCtx is cancelled
  stopped,   \* stopCh is closed
  boots,     \* process starts so far
  drops,     \* connection losses so far
  stranded   \* history: events the poller gave up on until its next scan

runVars == <<pc, batch, ctxDone, stopped, boots, drops>>
vars == <<tableVars, listenerVars, topics, runVars, stranded>>

Down == {"down", "panicked"}            \* no process
Ended == Down \cup {"noPoller", "returned"}  \* no run goroutine
Working == {"get", "publish", "ack", "complete", "fail"}  \* on an event
Loop == Working \cup {"select", "wait"}
Reconnecting == {"close", "connect", "relisten", "backoff"}

TypeOK ==
  /\ TableTypeOK
  /\ ListenerTypeOK
  /\ TopicsTypeOK
  /\ pc \in Ended \cup {"start", "scan"} \cup Loop \cup Reconnecting
  /\ batch \in Seq(Event)
  /\ pc \in Working <=> batch # <<>>
  /\ ctxDone \in BOOLEAN /\ stopped \in BOOLEAN
  /\ boots \in Nat /\ drops \in Nat
  /\ stranded \in SUBSET Event

Init ==
  /\ TableInit /\ TopicsInit
  /\ conn = "nil" /\ queue = <<>>
  /\ pc = "down" /\ batch = <<>>
  /\ ctxDone = FALSE /\ stopped = FALSE
  /\ boots = 0 /\ drops = 0
  /\ stranded = {}

-----------------------------------------------------------------------------
(* Helpers.                                                                *)

Current == Head(batch)

(* A call made with runCtx may fail: the dependency fails, or the context  *)
(* is cancelled.  A call that succeeds was made before the cancellation.   *)
MayFail(kind) == kind \in Disruptions \/ ctxDone
MaySucceed == ~ctxDone

Goto(label) ==
  /\ pc' = label
  /\ UNCHANGED <<batch, ctxDone, stopped, boots, drops>>

(* Mutant: publishes on with nothing left to publish.                      *)
ProcessAllUnguarded(b, label) ==
  /\ batch' = b
  /\ pc' = label
  /\ UNCHANGED <<ctxDone, stopped, boots, drops>>

(* Hand a batch to ProcessEvent, one event after the other.                *)
ProcessAll(b, label) ==
  /\ batch' = b
  /\ pc' = IF b = <<>> THEN "select" ELSE label
  /\ UNCHANGED <<ctxDone, stopped, boots, drops>>

Strand(events) == stranded' = stranded \cup (events \ ToSet(queue))

-----------------------------------------------------------------------------
(* Start: LISTEN first, then the goroutine scans the backlog.  If LISTEN   *)
(* fails the server logs it, cancels the context and runs without poller.  *)

(* Mutant: the goroutine enters the loop without a first scan.             *)
StartWithoutScan ==
  /\ pc = "start"
  /\ Listen
  /\ Goto("select")
  /\ UNCHANGED <<tableVars, topics, stranded>>

StartListening ==
  /\ pc = "start"
  /\ Listen
  /\ Goto("scan")
  /\ UNCHANGED <<tableVars, topics, stranded>>

StartFails ==
  /\ pc = "start" /\ (conn = "broken" \/ "listen" \in Disruptions)
  /\ ListenFails
  /\ pc' = "noPoller" /\ ctxDone' = TRUE
  /\ UNCHANGED <<batch, stopped, boots, drops, tableVars, topics, stranded>>

(* scanBacklog: one PollPendingEvents; what it returns is processed, what  *)
(* it leaves out (LIMIT, locked rows) waits for the next scan.             *)
ScanBacklog(b) ==
  /\ pc = "scan" /\ MaySucceed
  /\ ProcessAll(b, "publish")
  /\ stranded' = Pending \ (ToSet(b) \cup ToSet(queue))
  /\ UNCHANGED <<tableVars, listenerVars, topics>>

ScanFails ==
  /\ pc = "scan" /\ MayFail("query")
  /\ Goto("select")
  /\ Strand(Pending)
  /\ UNCHANGED <<tableVars, listenerVars, topics>>

(* The top of the loop.                                                    *)
SelectContinue ==
  /\ pc = "select" /\ ~ctxDone /\ ~stopped
  /\ Goto("wait")
  /\ UNCHANGED <<tableVars, listenerVars, topics, stranded>>

SelectStop ==
  /\ pc = "select" /\ (ctxDone \/ stopped)
  /\ Close
  /\ Goto("returned")
  /\ UNCHANGED <<tableVars, topics, stranded>>

(* WaitForNotification.  On a nil connection the call itself panics, and   *)
(* nothing recovers: the process dies.                                     *)
WaitNotified(e) ==
  /\ pc = "wait"
  /\ Take(e)
  /\ ProcessAll(<<e>>, "get")
  /\ UNCHANGED <<tableVars, topics, stranded>>

(* Mutant: waits on the lost connection again.                             *)
WaitErrorIgnored ==
  /\ pc = "wait"
  /\ WaitFails /\ ~ctxDone
  /\ Goto("select")
  /\ UNCHANGED <<tableVars, topics, stranded>>

WaitError ==
  /\ pc = "wait"
  /\ WaitFails /\ ~ctxDone
  /\ Goto("close")
  /\ UNCHANGED <<tableVars, topics, stranded>>

WaitCancelled ==
  /\ pc = "wait" /\ ctxDone
  /\ Goto("returned")
  /\ UNCHANGED <<tableVars, listenerVars, topics, stranded>>

WaitPanics ==
  /\ pc = "wait" /\ conn = "nil" /\ ~ctxDone
  /\ pc' = "panicked"
  /\ batch' = <<>> /\ queue' = <<>> /\ stopped' = FALSE
  /\ locked' = {}
  /\ UNCHANGED <<conn, ctxDone, boots, drops, topics, stranded>>
  /\ UNCHANGED <<status, createdAt, clock>>

-----------------------------------------------------------------------------
(* handleNotification: look the event up, whatever its status is by now.   *)

GetEvent ==
  /\ pc = "get" /\ MaySucceed
  /\ Goto("publish")
  /\ UNCHANGED <<tableVars, listenerVars, topics, stranded>>

GetFails ==
  /\ pc = "get" /\ MayFail("query")
  /\ ProcessAll(Tail(batch), "publish")
  /\ Strand({Current})
  /\ UNCHANGED <<tableVars, listenerVars, topics>>

(* ProcessEvent: Publish, in which the broker appends the record and then  *)
(* acknowledges it; either half can fail or be overtaken by the context.   *)
PublishSent ==
  /\ pc = "publish" /\ MaySucceed
  /\ Produce(Current)
  /\ Goto("ack")
  /\ UNCHANGED <<tableVars, listenerVars, stranded>>

(* Mutant: the publish error is dropped.                                   *)
PublishErrorIgnored ==
  /\ pc = "publish" /\ MayFail("publish")
  /\ Goto("complete")
  /\ UNCHANGED <<tableVars, listenerVars, topics, stranded>>

PublishNotSent ==
  /\ pc = "publish" /\ MayFail("publish")
  /\ Goto("fail")
  /\ UNCHANGED <<tableVars, listenerVars, topics, stranded>>

PublishAcked ==
  /\ pc = "ack"
  /\ Goto("complete")
  /\ UNCHANGED <<tableVars, listenerVars, topics, stranded>>

PublishUnacked ==
  /\ pc = "ack" /\ MayFail("publish")
  /\ Goto("fail")
  /\ UNCHANGED <<tableVars, listenerVars, topics, stranded>>

(* The status update of ProcessEvent.  Its error is only logged, so an     *)
(* update that commits and whose reply is lost looks like one that returns.*)
MarkCompleted ==
  /\ pc = "complete" /\ MaySucceed
  /\ SetStatus(Current, "completed")
  /\ ProcessAll(Tail(batch), "publish")
  /\ UNCHANGED <<listenerVars, topics, stranded>>

(* Mutant: marks with a context that a shutdown does not cancel.           *)
MarkFailedRegardless ==
  /\ pc = "fail"
  /\ SetStatus(Current, "failed")
  /\ ProcessAll(Tail(batch), "publish")
  /\ UNCHANGED <<listenerVars, topics, stranded>>

MarkEventFailed ==
  /\ pc = "fail" /\ MaySucceed
  /\ SetStatus(Current, "failed")
  /\ ProcessAll(Tail(batch), "publish")
  /\ UNCHANGED <<listenerVars, topics, stranded>>

(* Mutant: retries the update for ever.                                    *)
MarkRetried ==
  /\ pc \in {"complete", "fail"} /\ MayFail("query")
  /\ UNCHANGED vars

(* Mutant: publishes the event again when its update failed.               *)
MarkFailsAgain ==
  /\ pc \in {"complete", "fail"} /\ MayFail("query")
  /\ Goto("publish")
  /\ UNCHANGED <<tableVars, listenerVars, topics, stranded>>

MarkFails ==
  /\ pc \in {"complete", "fail"} /\ MayFail("query")
  /\ ProcessAll(Tail(batch), "publish")
  /\ Strand({Current})
  /\ UNCHANGED <<tableVars, listenerVars, topics>>

-----------------------------------------------------------------------------
(* reconnectAndScan, and the back-off when it fails.                       *)

ReconnectClose ==
  /\ pc = "close"
  /\ Close
  /\ Goto("connect")
  /\ UNCHANGED <<tableVars, topics, stranded>>

ReconnectConnect ==
  /\ pc = "connect" /\ MaySucceed
  /\ Connect
  /\ Goto("relisten")
  /\ UNCHANGED <<tableVars, topics, stranded>>

ReconnectConnectFails ==
  /\ pc = "connect" /\ MayFail("connect")
  /\ ConnectFails
  /\ Goto("backoff")
  /\ UNCHANGED <<tableVars, topics, stranded>>

(* Mutant: reconnects without scanning for what was missed.                *)
ReconnectWithoutScan ==
  /\ pc = "relisten" /\ MaySucceed
  /\ Listen
  /\ Goto("select")
  /\ UNCHANGED <<tableVars, topics, stranded>>

ReconnectListen ==
  /\ pc = "relisten" /\ MaySucceed
  /\ Listen
  /\ Goto("scan")
  /\ UNCHANGED <<tableVars, topics, stranded>>

ReconnectListenFails ==
  /\ pc = "relisten" /\ (MayFail("listen") \/ conn = "broken")
  /\ ListenFails
  /\ Goto("backoff")
  /\ UNCHANGED <<tableVars, topics, stranded>>

BackoffElapsed ==
  /\ pc = "backoff"
  /\ Goto("select")
  /\ UNCHANGED <<tableVars, listenerVars, topics, stranded>>

BackoffStopped ==
  /\ pc = "backoff" /\ (ctxDone \/ stopped)
  /\ Goto("returned")
  /\ UNCHANGED <<tableVars, listenerVars, topics, stranded>>

RunStep ==
  \/ StartListening \/ StartFails
  \/ \E b \in PollResults(PollLimit) : ScanBacklog(b)
  \/ ScanFails
  \/ SelectContinue \/ SelectStop
  \/ \E e \in Event : WaitNotified(e)
  \/ WaitError \/ WaitCancelled \/ WaitPanics
  \/ GetEvent \/ GetFails
  \/ PublishSent \/ PublishNotSent \/ PublishAcked \/ PublishUnacked
  \/ MarkCompleted \/ MarkEventFailed \/ MarkFails
  \/ ReconnectClose \/ ReconnectConnect \/ ReconnectConnectFails
  \/ ReconnectListen \/ ReconnectListenFails
  \/ BackoffElapsed \/ BackoffStopped

-----------------------------------------------------------------------------
(* The RPC handlers, in the same process.                                  *)

Serving == pc \notin Down

BeginCreateEvent(e) ==
  /\ Serving
  /\ CreateEventBegin(e)
  /\ UNCHANGED <<listenerVars, topics, runVars, stranded>>

(* The commit of an insert already sent does not need the process.         *)
CommitCreateEvent(e) ==
  /\ CreateEventCommit(e)
  /\ Notify(e)
  /\ UNCHANGED <<topics, runVars, stranded>>

(* Only inserts notify: an event put back to pending waits for a scan.     *)
UpdateEventStatus(e, s) ==
  /\ Serving
  /\ UpdateEventStatusRPC(e, s)
  /\ stranded' = stranded \cup
       (IF s = "pending" THEN {e} \ (ToSet(queue) \cup ToSet(batch)) ELSE {})
  /\ UNCHANGED <<listenerVars, topics, runVars>>

BeginPollPendingEvents(b) ==
  /\ Serving
  /\ PollRPCBegin(b)
  /\ UNCHANGED <<listenerVars, topics, runVars, stranded>>

EndPollPendingEvents ==
  /\ PollRPCEnd
  /\ UNCHANGED <<listenerVars, topics, runVars, stranded>>

RPC ==
  \/ \E e \in Event : BeginCreateEvent(e)
  \/ \E e \in Event : CommitCreateEvent(e)
  \/ \E e \in Event, s \in ClientStatuses : UpdateEventStatus(e, s)
  \/ \E n \in RpcLimits : \E b \in PollResults(n) : BeginPollPendingEvents(b)
  \/ EndPollPendingEvents

-----------------------------------------------------------------------------
(* The process and its surroundings.                                       *)

(* main connects, builds the listener and calls Start; a boot that cannot  *)
(* connect exits and leaves nothing behind.                                *)
Boot ==
  /\ pc \in Down /\ boots < MaxBoots
  /\ boots' = boots + 1
  /\ pc' = "start" /\ batch' = <<>>
  /\ ctxDone' = FALSE /\ stopped' = FALSE
  /\ Connect
  /\ UNCHANGED <<tableVars, topics, drops, stranded>>

(* The process is gone: its memory, its connections, its row locks.        *)
ProcessGone ==
  /\ pc' = "down" /\ batch' = <<>>
  /\ Close
  /\ locked' = {}
  /\ UNCHANGED <<status, createdAt, clock, topics, stranded>>
  /\ UNCHANGED <<ctxDone, stopped, boots, drops>>

Crash ==
  /\ Serving /\ "crash" \in Disruptions
  /\ ProcessGone

ConnectionDrops ==
  /\ Serving /\ drops < MaxDrops
  /\ drops' = drops + 1
  /\ Drop
  /\ UNCHANGED <<pc, batch, ctxDone, stopped, boots>>
  /\ UNCHANGED <<tableVars, topics, stranded>>

(* GracefulStop and Stop: cancel the context, then OutboxListener.Stop     *)
(* closes stopCh and waits for run; then the process exits.                *)
CancelContext ==
  /\ Serving /\ pc # "start" /\ "shutdown" \in Disruptions
  /\ ctxDone' = TRUE
  /\ UNCHANGED <<pc, batch, stopped, boots, drops>>
  /\ UNCHANGED <<tableVars, listenerVars, topics, stranded>>

CloseStopCh ==
  /\ Serving /\ "shutdown" \in Disruptions
  /\ ctxDone /\ ~stopped
  /\ stopped' = TRUE
  /\ UNCHANGED <<pc, batch, ctxDone, boots, drops>>
  /\ UNCHANGED <<tableVars, listenerVars, topics, stranded>>

Exit ==
  /\ pc \in {"noPoller", "returned"} /\ stopped
  /\ ProcessGone

Process == Boot \/ Crash \/ ConnectionDrops \/ CancelContext \/ CloseStopCh \/ Exit

Next == RunStep \/ RPC \/ Process

Spec == Init /\ [][Next]_vars

(* The scheduler runs the goroutine, its calls return (Publish after at    *)
(* most 30 s, a lost connection is noticed by keep-alive), a client's      *)
(* SELECT ends, an UPDATE waiting for a row lock gets it if the lock is    *)
(* freed again and again, and a shutdown once begun goes on.  Nothing      *)
(* makes a client call, a process restart or a fault happen.               *)
Fairness ==
  /\ WF_vars(RunStep)
  /\ SF_vars(MarkCompleted \/ MarkEventFailed)
  /\ WF_vars(EndPollPendingEvents)
  /\ WF_vars(CloseStopCh)
  /\ WF_vars(Exit)

FairSpec == Spec /\ Fairness

=============================================================================
