-------------------------------- MODULE Boot --------------------------------
(***************************************************************************)
(* The server comes up: main (cmd/server) loads its configuration, waits   *)
(* for the database (db.WaitForDB, NewPool), creates publisher and LISTEN  *)
(* connection, serves, and starts the outbox poller, which subscribes and  *)
(* scans.  Meanwhile the database comes and goes, migrations run or do not,*)
(* and events are inserted through other servers and then through this one.*)
(*                                                                         *)
(* Time is in seconds and passes only when nothing that takes no time is   *)
(* left to do.  It matters until the pool is there.                        *)
(***************************************************************************)
EXTENDS Migrations, FiniteSets

CONSTANTS
  Event,
  PollLimit,    \* pollLimit of NewOutboxListener: 100
  MAX_RETRIES,  \* of main.go: 10
  Timeout,      \* of main's base context: 30
  Pause,        \* between attempts: 2
  MaxChanges    \* bound: changes of the database's state

ASSUME BootAssumption ==
  /\ MAX_RETRIES \in Nat \ {0} /\ Timeout \in Nat /\ Pause \in Nat \ {0}
  /\ Pause * (MAX_RETRIES - 1) <= Timeout
  /\ PollLimit \in Nat \ {0} /\ MaxChanges \in Nat

VARIABLES
  now,        \* seconds since main began
  db,         \* how the database answers: "accepts", "refuses" or "hangs"
  changed,    \* history: when db last changed
  changes,    \* how often it has
  main,       \* where main is
  dsn,        \* the database section: "good", "bad" or "escaped"
  attempt,    \* the i of WaitForDB
  until,      \* when its pause ends
  hung,       \* the last attempt has met a database that hangs
  pools,      \* pools open
  poller,     \* "none", "off" (failed to start), "scan" or "listen"
  committed,  \* events inserted
  pending,    \* those whose status is pending
  locked,     \* rows locked by a SELECT FOR UPDATE of a client or another server
  noticed,    \* events the poller has been given
  queue,      \* events notified to it and not yet taken
  stranded    \* history: events a scan left out, or that nobody announced after it

timeVars == <<now, db, changed, changes>>
waitVars == <<dsn, attempt, until, hung, pools>>
rowVars == <<committed, pending, locked>>
eventVars == <<poller, rowVars, noticed, queue, stranded>>
vars == <<timeVars, main, waitVars, eventVars, migrationVars>>

Waiting == {"attempt", "pause"}
Connected == {"publisher", "listener", "serve", "subscribe", "running"}

TypeOK ==
  /\ now \in Nat /\ changed \in Nat /\ changes \in 0..MaxChanges
  /\ db \in {"accepts", "refuses", "hangs"}
  /\ main \in {"config", "exit1"} \cup Waiting \cup Connected
  /\ dsn \in {"good", "bad", "escaped"}
  /\ attempt \in 0..(MAX_RETRIES - 1) /\ until \in Nat
  /\ hung \in BOOLEAN /\ pools \in Nat
  /\ poller \in {"none", "off", "scan", "listen"}
  /\ committed \subseteq Event
  /\ noticed \subseteq committed /\ queue \subseteq committed
  /\ locked \subseteq pending /\ pending \subseteq committed
  /\ stranded \subseteq committed
  /\ poller # "none" <=> main = "running"
  /\ MigrationsTypeOK

Init ==
  /\ now = 0 /\ db \in {"accepts", "refuses", "hangs"} /\ changed = 0 /\ changes = 0
  /\ main = "config" /\ dsn = "good" /\ attempt = 0 /\ until = 0 /\ hung = FALSE
  /\ pools = 0
  /\ poller = "none" /\ committed = {} /\ pending = {} /\ locked = {}
  /\ noticed = {} /\ queue = {} /\ stranded = {}
  /\ MigrationsInit

-----------------------------------------------------------------------------
(* Configuration.  Load checks the brokers and the prefix; what the        *)
(* database section says is not looked at before it is used.  A password   *)
(* with characters that have a meaning in a URL ("escaped") is encoded by  *)
(* NewPool and not by main, for the listener.                              *)
Load ==
  /\ main = "config"
  /\ \/ main' = "exit1" /\ UNCHANGED <<dsn, pools>>
     \/ main' = "attempt" /\ dsn' = "bad" /\ UNCHANGED pools
     \/ main' = "attempt" /\ dsn' \in {"good", "escaped"} /\ pools' = pools + 1
  /\ UNCHANGED <<timeVars, attempt, until, hung, eventVars, migrationVars>>

-----------------------------------------------------------------------------
(* NewPool: a pool is created, without a connection, and pinged.           *)

Parsable == dsn # "bad"
Expired == now >= Timeout

AttemptHangs ==
  /\ main = "attempt" /\ Parsable /\ db = "hangs" /\ ~hung
  /\ hung' = TRUE
  /\ UNCHANGED <<timeVars, main, dsn, attempt, until, pools, eventVars, migrationVars>>

AttemptSucceeds ==
  /\ main = "attempt" /\ Parsable /\ db = "accepts" /\ ~Expired
  /\ main' = "publisher" /\ hung' = FALSE
  /\ UNCHANGED <<timeVars, dsn, attempt, until, pools, eventVars, migrationVars>>

(* The error path of NewPool; a string it cannot parse made no pool.       *)
PoolClosed == pools' = IF Parsable THEN pools - 1 ELSE pools

(* Mutant: gives up one attempt early.                                     *)
OneAttemptLess == attempt < MAX_RETRIES - 2

(* Mutant: i <= maxRetries - 1.                                            *)
OneAttemptMore == attempt <= MAX_RETRIES - 1

AttemptsLeft == attempt < MAX_RETRIES - 1

AttemptFails ==
  /\ main = "attempt"
  /\ ~Parsable \/ db = "refuses" \/ Expired
  /\ PoolClosed
  /\ IF AttemptsLeft THEN main' = "pause" /\ until' = now + Pause
                     ELSE main' = "exit1" /\ UNCHANGED until
  /\ UNCHANGED <<timeVars, dsn, attempt, hung, eventVars, migrationVars>>

(* The select of WaitForDB: the pause or the context, whichever is over,   *)
(* and either of them if both are.                                         *)
PauseOver ==
  /\ main = "pause" /\ now >= until
  /\ main' = "attempt" /\ attempt' = attempt + 1 /\ hung' = FALSE
  /\ pools' = IF Parsable THEN pools + 1 ELSE pools
  /\ UNCHANGED <<timeVars, dsn, until, eventVars, migrationVars>>

(* Mutant: time.Sleep in place of the select.                              *)
CutAfterSleep == Expired /\ now >= until

(* case <-ctx.Done().                                                      *)
Cut == Expired

ContextDone ==
  /\ main = "pause" /\ Cut
  /\ main' = "exit1"
  /\ UNCHANGED <<timeVars, waitVars, eventVars, migrationVars>>

-----------------------------------------------------------------------------
(* The rest of main, up to the wait for a signal.                          *)

Goto(from, to) == main = from /\ main' = to

(* A broker that is blank is refused here.                                 *)
NewRedpandaPublisher ==
  /\ Goto("publisher", "listener") \/ Goto("publisher", "exit1")
  /\ UNCHANGED <<timeVars, waitVars, eventVars, migrationVars>>

(* pgx.Connect under context.Background(): a database that hangs holds     *)
(* main here for as long as it does, one that refuses is not tried again.  *)
NewPGListener ==
  /\ \/ db = "accepts" /\ dsn = "good" /\ Goto("listener", "serve")
     \/ (db = "refuses" \/ dsn = "escaped") /\ Goto("listener", "exit1")
  /\ UNCHANGED <<timeVars, waitVars, eventVars, migrationVars>>

Serve ==
  /\ Goto("serve", "subscribe") \/ Goto("serve", "exit1")
  /\ UNCHANGED <<timeVars, waitVars, eventVars, migrationVars>>

(* Mutant: subscribes, and leaves scanning to reconnections.               *)
StartWithoutScan ==
  /\ db # "hangs" /\ Goto("subscribe", "running")
  /\ poller' = IF db = "accepts" THEN "listen" ELSE "off"
  /\ UNCHANGED <<timeVars, waitVars, rowVars, noticed, queue, stranded, migrationVars>>

(* LISTEN.  If it fails the server runs without a poller.                  *)
StartOutbox ==
  /\ db # "hangs" /\ Goto("subscribe", "running")
  /\ poller' = IF db = "accepts" THEN "scan" ELSE "off"
  /\ UNCHANGED <<timeVars, waitVars, rowVars, noticed, queue, stranded, migrationVars>>

-----------------------------------------------------------------------------
(* The poller's first scan and its notifications.                          *)

(* PollPendingEvents: pending rows that nobody has locked, as many as the  *)
(* limit lets; or none, if the table is not there or the query fails.      *)
Polled(b) ==
  \/ /\ "events" \in schema /\ Cardinality(b) <= PollLimit
     /\ b = pending \ locked \/ Cardinality(b) = PollLimit
  \/ b = {}

(* What the scan does not return waits for a notification, or for nothing. *)
Scan ==
  /\ poller = "scan" /\ poller' = "listen"
  /\ \E b \in SUBSET (pending \ locked) :
       /\ Polled(b)
       /\ noticed' = noticed \cup b
       /\ stranded' = stranded \cup (pending \ (b \cup queue))
  /\ UNCHANGED <<timeVars, main, waitVars, rowVars, queue, migrationVars>>

HandleNotification(e) ==
  /\ poller = "listen" /\ e \in queue
  /\ noticed' = noticed \cup {e} /\ queue' = queue \ {e}
  /\ UNCHANGED <<timeVars, main, waitVars, poller, rowVars, stranded, migrationVars>>

-----------------------------------------------------------------------------
(* Other servers and clients work on the table, while the database lets    *)
(* them.                                                                   *)

Subscribed == poller \in {"scan", "listen"}
Triggered == "event_insert_notification" \in schema

(* Nothing announces that e is pending: only a scan to come can find it.   *)
Unannounced(e) ==
  stranded' = IF poller = "listen" THEN stranded \cup {e} ELSE stranded

CreateEvent(e) ==
  /\ e \notin committed /\ "events" \in schema /\ db = "accepts"
  /\ committed' = committed \cup {e} /\ pending' = pending \cup {e}
  /\ IF Triggered
       THEN /\ queue' = IF Subscribed THEN queue \cup {e} ELSE queue
            /\ UNCHANGED stranded
       ELSE Unannounced(e) /\ UNCHANGED queue
  /\ UNCHANGED <<timeVars, main, waitVars, poller, locked, noticed, migrationVars>>

(* UPDATE of a status, once no SELECT FOR UPDATE has the row: away from    *)
(* pending, or back to it.                                                 *)
UpdateEventStatus(e) ==
  /\ e \in committed \ locked /\ db = "accepts"
  /\ \/ pending' = pending \ {e} /\ UNCHANGED stranded
     \/ pending' = pending \cup {e} /\ e \notin pending /\ Unannounced(e)
  /\ UNCHANGED <<timeVars, main, waitVars, poller, committed, locked, noticed, queue,
                 migrationVars>>

(* PollPendingEvents for a client or another server begins, or ends.       *)
LockRows ==
  /\ \/ db = "accepts" /\ locked = {} /\ locked' \in SUBSET pending \ {{}}
     \/ locked # {} /\ locked' = {}
  /\ UNCHANGED <<timeVars, main, waitVars, poller, committed, pending, noticed, queue,
                 stranded, migrationVars>>

-----------------------------------------------------------------------------
(* The database goes down or stops answering, and comes back, until the    *)
(* poller has subscribed: what happens when the LISTEN connection is lost  *)
(* is OutboxListener's.                                                    *)
DatabaseChanges ==
  /\ changes < MaxChanges /\ ~Subscribed
  /\ db' \in {"accepts", "refuses", "hangs"} \ {db}
  /\ changed' = now /\ changes' = changes + 1
  /\ UNCHANGED <<now, main, waitVars, eventVars, migrationVars>>

MigrationStep ==
  /\ MigrationsNext
  /\ UNCHANGED <<timeVars, main, waitVars, eventVars>>

(* Only a database that hangs keeps an attempt waiting, and only until the *)
(* context is over; a pause waits for its end or the context's.            *)
Due ==
  \/ main = "attempt" /\ ~(Parsable /\ hung /\ ~Expired)
  \/ main = "pause" /\ (Cut \/ now >= until)

Tick ==
  /\ main \in Waiting /\ ~Due
  /\ now' = now + 1
  /\ UNCHANGED <<db, changed, changes, main, waitVars, eventVars, migrationVars>>

Next ==
  \/ Load
  \/ AttemptHangs \/ AttemptSucceeds \/ AttemptFails \/ PauseOver \/ ContextDone
  \/ NewRedpandaPublisher \/ NewPGListener \/ Serve \/ StartOutbox
  \/ Scan \/ LockRows
  \/ \E e \in Event : HandleNotification(e) \/ CreateEvent(e) \/ UpdateEventStatus(e)
  \/ DatabaseChanges \/ MigrationStep \/ Tick

Spec == Init /\ [][Next]_vars

-----------------------------------------------------------------------------
(* WaitForDB is over when main's context is, whether the database refuses  *)
(* or hangs and whatever its attempts and pauses add up to, and it keeps   *)
(* no pool but the one it returns (postgres.go:99).                        *)
WaitBounded ==
  /\ main \in Waiting => now <= Timeout
  /\ main = "pause" => pools = 0
  /\ main \in Connected => pools = 1

(* A database that only refuses is waited for as long as all the pauses    *)
(* take, 18 s, less than the 30 s of the context; and one that has been    *)
(* accepting for longer than a pause is not given up on, unless an attempt *)
(* met one that hung: attempts have no deadline of their own.              *)
GivesUpInVain ==
  [][main' = "exit1" /\ main \in Waiting /\ Parsable =>
       /\ now >= Pause * (MAX_RETRIES - 1)
       /\ db = "accepts" => hung \/ now <= changed + Pause]_vars

(* Once the poller has scanned, a pending event it has not been given is   *)
(* on its way, but for those its scan left out (LIMIT, a row lock, a query *)
(* that failed) and those that became pending after the scan with nobody   *)
(* announcing it (no trigger, a status put back).  Subscribing first and   *)
(* then scanning leaves no other gap, however the first inserts, the       *)
(* trigger's creation and the start fall.                                  *)
NoGapAtStart == poller = "listen" => pending \subseteq noticed \cup queue \cup stranded

=============================================================================
