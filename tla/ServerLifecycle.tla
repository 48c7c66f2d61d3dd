-------------------------- MODULE ServerLifecycle --------------------------
(***************************************************************************)
(* How the server goes down: main (cmd/server) with its 30 s timer, the    *)
(* goroutine that stops gracefully, the poller's run goroutine and the RPC *)
(* handlers, sharing the poller's context, the LISTEN connection with its  *)
(* mutex, the publisher and the pool.                                      *)
(*                                                                         *)
(* The poller is reduced to what a shutdown can meet: which call it is in, *)
(* whether that call uses the publisher and the pool, holds the mutex, and *)
(* returns when the context is cancelled.  OutboxListener has the rest.    *)
(***************************************************************************)
EXTENDS Naturals

CONSTANTS
  RPCs,   \* the client calls that may be in flight
  Stuck,  \* those whose query waits for ever (a row lock, a slow reader)
  Hangs   \* {"close"}: PostgreSQL has stopped answering UNLISTEN and Close

ASSUME LifecycleAssumption == Stuck \subseteq RPCs /\ Hangs \subseteq {"close"}

VARIABLES
  at,        \* where main and the graceful goroutine are
  run,       \* where the poller's run goroutine is
  ctxDone,   \* runCtx is cancelled
  stopped,   \* OutboxListener.stopCh is closed
  holder,    \* who holds PGListener.mu
  conn,      \* PGListener.conn: nil, open, or dead and known to pgx as such
  grpc,      \* the gRPC server
  rpc,       \* the client calls
  timedOut,  \* main's select took the timer
  closed     \* which of the publisher and the pool are closed

shared == <<ctxDone, stopped, holder, conn>>
resources == <<grpc, rpc, timedOut, closed>>
vars == <<at, run, shared, resources>>

Stoppers == {"main", "graceful"}
Gone == {"none", "ended"}           \* no run goroutine (any more)
Dead == {"exited", "panicked"}      \* no process (any more)
Stopping == {"cancel", "stop", "wait", "grpc", "drained", "close", "closing"}

TypeOK ==
  /\ at \in [Stoppers -> {"serving", "select", "idle", "done", "publisher",
                          "pool", "released"} \cup Dead \cup Stopping]
  /\ run \in Gone \cup {"top", "waiting", "working", "reconnect", "dropping",
                        "connecting", "backoff", "close", "closing"}
  /\ ctxDone \in BOOLEAN /\ stopped \in BOOLEAN
  /\ holder \in Stoppers \cup {"run", "nobody"}
  /\ conn \in {"nil", "open", "dead"}
  /\ grpc \in {"serving", "draining", "stopped"}
  /\ rpc \in [RPCs -> {"idle", "running", "querying", "answered", "cut", "failed"}]
  /\ timedOut \in BOOLEAN
  /\ closed \in SUBSET {"publisher", "pool"}
  /\ holder = "run" <=> run \in {"dropping", "connecting", "closing"}
  /\ \A s \in Stoppers : at[s] = "closing" => holder = s

(* Serving.  If LISTEN failed at start there is no run goroutine, and      *)
(* Server.Start has cancelled the context.                                 *)
Init ==
  /\ at = [s \in Stoppers |-> IF s = "main" THEN "serving" ELSE "idle"]
  /\ run \in {"none", "working"}
  /\ ctxDone = (run = "none") /\ stopped = FALSE
  /\ holder = "nobody"
  /\ conn \in {"open"} \cup IF run = "none" THEN {"dead"} ELSE {}
  /\ grpc = "serving" /\ rpc = [r \in RPCs |-> "idle"]
  /\ timedOut = FALSE /\ closed = {}

Moves(s, from, to) ==
  /\ at[s] = from
  /\ at' = [at EXCEPT ![s] = to]

RunGoes(from, to) ==
  /\ run = from
  /\ run' = to

Lock(who) == holder = "nobody" /\ holder' = who

(* l.conn.Close and Exec take context.Background(): no deadline.  On a nil *)
(* or dead connection nothing is sent.                                     *)
CloseReturns == conn # "open" \/ "close" \notin Hangs

-----------------------------------------------------------------------------
(* The run goroutine.                                                      *)

(* Back at the top of the loop, from a scan, a notification or a back-off. *)
RunWorked ==
  /\ RunGoes("working", "top")
  /\ UNCHANGED <<at, shared, resources>>

RunWaits ==
  /\ RunGoes("top", "waiting") /\ ~ctxDone /\ ~stopped
  /\ UNCHANGED <<at, shared, resources>>

RunStops ==
  /\ RunGoes("top", "close") /\ (ctxDone \/ stopped)
  /\ UNCHANGED <<at, shared, resources>>

RunLocksToClose ==
  /\ RunGoes("close", "closing")
  /\ Lock("run")
  /\ UNCHANGED <<at, ctxDone, stopped, conn, resources>>

RunCloses ==
  /\ RunGoes("closing", "ended") /\ CloseReturns
  /\ conn' = "nil" /\ holder' = "nobody"
  /\ UNCHANGED <<at, ctxDone, stopped, resources>>

RunNotified ==
  /\ RunGoes("waiting", "working") /\ conn = "open"
  /\ UNCHANGED <<at, shared, resources>>

RunWaitCancelled ==
  /\ RunGoes("waiting", "ended") /\ ctxDone
  /\ conn' \in {conn, "dead"}
  /\ UNCHANGED <<at, ctxDone, stopped, holder, resources>>

RunWaitFails ==
  /\ RunGoes("waiting", "reconnect") /\ conn # "nil" /\ ~ctxDone /\ ~stopped
  /\ conn' = "dead"
  /\ UNCHANGED <<at, ctxDone, stopped, holder, resources>>

(* After a failed Reconnect the connection is nil, and waiting on it       *)
(* panics: the process is gone.                                            *)
RunPanics ==
  /\ run = "waiting" /\ conn = "nil" /\ ~ctxDone
  /\ at' = [s \in Stoppers |-> "panicked"]
  /\ UNCHANGED <<run, shared, resources>>

RunLocksToReconnect ==
  /\ RunGoes("reconnect", "dropping")
  /\ Lock("run")
  /\ UNCHANGED <<at, ctxDone, stopped, conn, resources>>

RunDropsConnection ==
  /\ RunGoes("dropping", "connecting") /\ CloseReturns
  /\ UNCHANGED <<at, shared, resources>>

(* Connect and LISTEN, with the run context.                               *)
RunReconnects ==
  /\ RunGoes("connecting", "working") /\ ~ctxDone
  /\ conn' = "open" /\ holder' = "nobody"
  /\ UNCHANGED <<at, ctxDone, stopped, resources>>

(* Mutant: the error path returns without unlocking.                       *)
ReturnLocked ==
  /\ RunGoes("connecting", "backoff")
  /\ conn' \in {"nil", "open", "dead"}
  /\ UNCHANGED <<at, holder, ctxDone, stopped, resources>>

(* Connect fails and leaves nil, or LISTEN fails and leaves a connection,  *)
(* dead when it was the cancelled context that interrupted it.             *)
RunReconnectFails ==
  /\ RunGoes("connecting", "backoff")
  /\ conn' \in {"nil", "open", "dead"} /\ holder' = "nobody"
  /\ UNCHANGED <<at, ctxDone, stopped, resources>>

RunBackoffElapsed ==
  /\ RunGoes("backoff", "top")
  /\ UNCHANGED <<at, shared, resources>>

RunBackoffStopped ==
  /\ RunGoes("backoff", "ended") /\ (ctxDone \/ stopped)
  /\ UNCHANGED <<at, shared, resources>>

RunStep ==
  \/ RunWorked \/ RunWaits \/ RunStops \/ RunLocksToClose \/ RunCloses
  \/ RunWaitCancelled
  \/ RunLocksToReconnect \/ RunDropsConnection
  \/ RunReconnects \/ RunReconnectFails
  \/ RunBackoffElapsed \/ RunBackoffStopped

RunDisturbed == RunNotified \/ RunWaitFails \/ RunPanics

-----------------------------------------------------------------------------
(* RPC handlers.  A handler holds a connection of the pool while it is in  *)
(* a query, and gives it back at once when its call is cancelled.          *)

RPCArrives(r) ==
  /\ grpc = "serving" /\ rpc[r] = "idle"
  /\ rpc' = [rpc EXCEPT ![r] = "running"]
  /\ UNCHANGED <<at, run, shared, grpc, timedOut, closed>>

RPCQueries(r) ==
  /\ rpc[r] = "running" /\ "pool" \notin closed
  /\ rpc' = [rpc EXCEPT ![r] = "querying"]
  /\ UNCHANGED <<at, run, shared, grpc, timedOut, closed>>

(* Also a handler that answers without a query (an invalid argument).      *)
RPCReturns(r) ==
  /\ \/ rpc[r] = "running"
     \/ rpc[r] = "querying" /\ r \notin Stuck
  /\ rpc' = [rpc EXCEPT ![r] = "answered"]
  /\ UNCHANGED <<at, run, shared, grpc, timedOut, closed>>

RPCUnwinds(r) ==
  /\ rpc[r] = "cut"
  /\ rpc' = [rpc EXCEPT ![r] = "failed"]
  /\ UNCHANGED <<at, run, shared, grpc, timedOut, closed>>

RPCStep(r) == RPCQueries(r) \/ RPCReturns(r) \/ RPCUnwinds(r)

-----------------------------------------------------------------------------
(* The signal and main's select.  Further signals change nothing: they     *)
(* stay in the channel's buffer.                                           *)

Signal ==
  /\ at["main"] = "serving"
  /\ at' = [s \in Stoppers |-> IF s = "main" THEN "select" ELSE "cancel"]
  /\ UNCHANGED <<run, shared, resources>>

SelectDone ==
  /\ at["graceful"] = "done" /\ Moves("main", "select", "publisher")
  /\ UNCHANGED <<run, shared, resources>>

SelectTimeout ==
  /\ Moves("main", "select", "cancel")
  /\ timedOut' = TRUE
  /\ UNCHANGED <<run, shared, grpc, rpc, closed>>

-----------------------------------------------------------------------------
(* Server.GracefulStop, by the graceful goroutine, and Server.Stop, by     *)
(* main when the timer has fired: the same steps up to the gRPC server.    *)

CancelOutbox(s) ==
  /\ Moves(s, "cancel", "stop")
  /\ ctxDone' = TRUE
  /\ UNCHANGED <<run, stopped, holder, conn, resources>>

(* Mutant: the second caller finds the Once used and does not wait.        *)
StopPollerOnce(s) ==
  /\ Moves(s, "stop", IF stopped THEN "grpc" ELSE "wait")
  /\ ctxDone' = TRUE /\ stopped' = TRUE
  /\ UNCHANGED <<run, holder, conn, resources>>

(* OutboxListener.Stop: the Once, then the wait for run.                   *)
StopPoller(s) ==
  /\ Moves(s, "stop", "wait")
  /\ ctxDone' = TRUE /\ stopped' = TRUE
  /\ UNCHANGED <<run, holder, conn, resources>>

PollerStopped(s) ==
  /\ run \in Gone /\ Moves(s, "wait", "grpc")
  /\ UNCHANGED <<run, shared, resources>>

(* grpc.Server.Stop: every call in flight is cancelled.                    *)
CutCalls ==
  rpc' = [r \in RPCs |-> CASE rpc[r] = "running" -> "failed"
                           [] rpc[r] = "querying" -> "cut"
                           [] OTHER -> rpc[r]]

(* Mutant: GracefulStop stops the gRPC server the hard way.                *)
StopInsteadOfDrain ==
  /\ Moves("graceful", "grpc", "drained")
  /\ grpc' = "stopped" /\ CutCalls
  /\ UNCHANGED <<run, shared, timedOut, closed>>

(* grpc.Server.GracefulStop: no new calls, wait for those in flight.       *)
DrainGRPC ==
  /\ Moves("graceful", "grpc", "drained")
  /\ grpc' = IF grpc = "serving" THEN "draining" ELSE grpc
  /\ UNCHANGED <<run, shared, rpc, timedOut, closed>>

Drained ==
  /\ Moves("graceful", "drained", "close")
  /\ \A r \in RPCs : rpc[r] \notin {"running", "querying", "cut"}
  /\ UNCHANGED <<run, shared, resources>>

(* Mutant: the forced path leaves the gRPC server alone.                   *)
LeaveGRPC ==
  /\ Moves("main", "grpc", "close")
  /\ UNCHANGED <<run, shared, resources>>

StopGRPC ==
  /\ Moves("main", "grpc", "close")
  /\ grpc' = "stopped" /\ CutCalls
  /\ UNCHANGED <<run, shared, timedOut, closed>>

(* PGListener.Close by both, under the mutex; then close(done), or main    *)
(* goes on to its deferred calls.                                          *)
LockListener(s) ==
  /\ Moves(s, "close", "closing")
  /\ Lock(s)
  /\ UNCHANGED <<run, ctxDone, stopped, conn, resources>>

CloseListener(s) ==
  /\ CloseReturns
  /\ Moves(s, "closing", IF s = "main" THEN "publisher" ELSE "done")
  /\ conn' = "nil" /\ holder' = "nobody"
  /\ UNCHANGED <<run, ctxDone, stopped, resources>>

ClosePublisher ==
  /\ Moves("main", "publisher", "pool")
  /\ closed' = closed \cup {"publisher"}
  /\ UNCHANGED <<run, shared, grpc, rpc, timedOut>>

(* Pool.Close refuses new acquisitions, then waits for its connections.    *)
ClosePool ==
  /\ Moves("main", "pool", "released")
  /\ closed' = closed \cup {"pool"}
  /\ UNCHANGED <<run, shared, grpc, rpc, timedOut>>

Exit ==
  /\ Moves("main", "released", "exited")
  /\ \A r \in RPCs : rpc[r] \notin {"querying", "cut"}
  /\ UNCHANGED <<run, shared, resources>>

StopperStep(s) ==
  \/ CancelOutbox(s) \/ StopPoller(s) \/ PollerStopped(s)
  \/ LockListener(s) \/ CloseListener(s)

MainStep ==
  \/ SelectDone \/ SelectTimeout \/ StopperStep("main") \/ StopGRPC
  \/ ClosePublisher \/ ClosePool \/ Exit

GracefulStep == StopperStep("graceful") \/ DrainGRPC \/ Drained

Alive == at["main"] \notin Dead

Next ==
  /\ Alive
  /\ \/ Signal \/ MainStep \/ GracefulStep
     \/ RunStep \/ RunDisturbed
     \/ \E r \in RPCs : RPCArrives(r) \/ RPCStep(r)

Spec == Init /\ [][Next]_vars

(* Goroutines are scheduled and their calls return, those of Stuck and     *)
(* Hangs excepted; the timer fires.  No signal, client call, notification  *)
(* or connection loss is assumed.                                          *)
Fairness ==
  /\ WF_vars(Alive /\ MainStep)
  /\ WF_vars(Alive /\ GracefulStep)
  /\ WF_vars(Alive /\ RunStep)
  /\ \A r \in RPCs : WF_vars(Alive /\ RPCStep(r))

FairSpec == Spec /\ Fairness

-----------------------------------------------------------------------------
(* What the poller uses outlives it: the publisher and the pool are closed,*)
(* and a stopper touches the LISTEN connection, which the poller reads     *)
(* without the mutex, only when the run goroutine has ended, on both paths *)
(* and whichever of the two runs ahead (main.go defers, outbox.go:100).    *)
PollerGoneFirst ==
  (closed # {} \/ \E s \in Stoppers : at[s] \in {"close", "closing"})
     => run \in Gone \/ ~Alive

(* A shutdown whose timer has not fired cuts no client call off: when main *)
(* exits, every call that was accepted has been answered (server.go:100).  *)
GracefulCutsNothing ==
  ~timedOut =>
     /\ \A r \in RPCs : rpc[r] \notin {"cut", "failed"}
     /\ at["main"] = "exited" =>
          \A r \in RPCs : rpc[r] \in {"idle", "answered"}

(* A stuck client call delays the exit, by the timer, and does not prevent *)
(* it (main.go:112-116).                                                   *)
ShutdownCompletes == at["main"] # "serving" ~> ~Alive

=============================================================================
