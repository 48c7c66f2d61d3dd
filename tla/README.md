# Verification of the durable event pipeline

TLA+ models of the transactional-outbox pipeline in this repository: clients
insert events through gRPC, PostgreSQL notifies a poller, the poller publishes
to Redpanda and records the outcome in the event's status. Around it: the catalog
services, the start and the shutdown of a server, the migrations its schema comes
from, and the demo client.

## The system

| Part | State | Operations | Talks to |
|---|---|---|---|
| events table (`db/`, `internal/repository`, `event_handler.go`) | rows with status and `created_at`, row locks | CreateEvent, GetEvent, PollPendingEvents, UpdateEventStatus, ListEvents | insert trigger notifies the LISTEN session |
| LISTEN connection (`pg_listener.go`) | `conn` (may be nil), pgx's buffered notifications | Start, WaitForNotification, Close, Reconnect | PostgreSQL |
| publisher (`redpanda.go`) | franz-go client | Publish (own 30 s deadline), Close | one topic per event type |
| outbox poller (`outbox.go`) | run goroutine, runCtx, stopCh | Start, Stop, run, scanBacklog, reconnectAndScan, handleNotification, ProcessEvent | the three above |
| server (`server.go`, `cmd/server`) | gRPC server, poller's context | Start, GracefulStop, Stop, main with its signal and 30 s timer | all of the above |
| users, products, orders, order items | tables with foreign keys, uniqueness and checks | CRUD RPCs | the same pool |
| handlers and converters (`internal/handler`, `gen/`) | - | what each RPC answers | the two tables above |
| pool and start-up (`db/postgres.go`, `cmd/server`) | the pool, its attempts and their context | NewPool, WaitForDB, main up to the wait for a signal | PostgreSQL |
| migrations (`store.go`, `db/migrations`) | schema | RunMigrations, extractGooseUp | PostgreSQL; called by integration tests only |
| demo client (`cmd/client`) | identifiers it has learnt, two contexts | a script of calls, the polling loop | gRPC |

What is hard: the poller makes five kinds of calls, each of which can fail, be
cancelled, or be overtaken by an RPC, an insert's commit, a lost connection or a
crash. An event reaches the poller twice (scan and notification), every replica of
the server is notified of every event, an event is published before it is marked,
and errors are logged and forgotten. A page of ListEvents is a snapshot of its own.
WaitForDB has attempts, pauses and a context and no deadline per attempt. A call the
demo client has given up on may still be executed. `PROJECT.json` lists these
hazards line by line.

What makes each part correct: the table hands out pending rows oldest first and
never a locked one; the listener misses no insert between subscription and scan;
a topic holds committed events only, in the order of creation but for those something happened to; the poller loses sight of no event silently,
completes only what it published, ends when told to, and does not let a shutdown
decide an event's fate; replicas promise together what one promises; a reader of all
pages misses no row unnoticed; a start ends in time, leaks no pool and leaves no gap before its
first scan; a schema is the work of one run; the demo client removes what it made and
reports success only of what was published.

## Modules

| Module | Models |
|---|---|
| `Events` | event identities, types, the `event_status` enum |
| `EventTable`, `EventTableProofs` | the events table and the EventService's statements on it; lemmas |
| `PGListener` | the LISTEN connection and the NOTIFY queue of its session |
| `RedpandaPublisher` | the topics and what Publish does to them |
| `OutboxListener` | the poller composed with the three above, in a process that boots, crashes and shuts down |
| `AtLeastOnce` | abstract specification: what the pipeline promises |
| `OutboxProperties`, `OutboxProofs` | the properties of `OutboxListener`, and the refinement mapping to `AtLeastOnce`; theorems, those of `OutboxOrder` too |
| `OutboxOrder` | `OutboxListener` with a history of the events that lost their place, and the order of the topics |
| `OutboxReplicas`, `ReplicaProofs` | several server processes over one table and one broker; theorems |
| `EventPaging`, `EventPagingProofs` | a client that reads all pages of ListEvents while others insert; theorems |
| `ServerLifecycle`, `ServerLifecycleProofs` | the two shutdown paths of `cmd/server` and `internal/server`, and what they share with the poller and the RPC handlers; theorems |
| `Migrations` | RunMigrations over the files of `db/migrations` |
| `Boot`, `BootProofs` | main from its first line to the wait for a signal, in seconds, while the database comes and goes and migrations run; theorems |
| `Catalog`, `CatalogProofs` | the tables and state-changing RPCs of the user, product and order services; theorems |
| `Messages` | requests and responses of the four services |
| `Services` | what every RPC answers and does |
| `DemoClient`, `DemoClientProofs` | `cmd/client` against the services and the pipeline; theorems |
| `MCOutbox`, `MCOrder`, `MCReplicas`, `MCPaging`, `MCServerLifecycle`, `MCBoot`, `MCCatalog`, `MCDemoClient` | instances for TLC |

`OutboxListener` composes `EventTable`, `PGListener` and `RedpandaPublisher`;
`OutboxReplicas` composes table and topics with several pollers. `AtLeastOnce` is the
abstraction of both. `ServerLifecycle` looks at the run goroutine of `OutboxListener`
from the other side: it keeps only what a shutdown can meet (which call, which
mutex, which resource) and adds the timer, the second stopper, the gRPC server and
the deferred calls. `Boot` extends `Migrations`, for what a start finds is what
migrations have made so far. `Services` instantiates `Catalog` and `AtLeastOnce`: an
accepted request is a step of the one or of the other, which is how `DemoClient`
meets the whole system; `AtLeastOnce` stands there for the poller, which `faults` and
`Implements` show to be sound.

### State and actions

`pc` names the next call of the run goroutine; there is one action per call and
outcome, so anything else may happen between two calls. `batch` is what the `for`
loop of `scanBacklog`, or `handleNotification`, still has to process. `ctxDone`
is `runCtx.Done()`, `stopped` is the closed `stopCh`. A call with a cancelled
context can only fail (`MaySucceed`, `MayFail`); one that had already succeeded
counts as made before the cancellation. `conn = "nil"` is a nil `l.conn`;
`"broken"` is a connection that is lost and not yet noticed.

- An INSERT is two actions. `created_at` is the transaction's start
  (`CURRENT_TIMESTAMP`), visibility and NOTIFY come with the commit. Two inserts
  that begin in the same microsecond have the same `created_at` (`CreateEventBegin`),
  and no query orders them. The clock never steps back.
- `PollPendingEvents` by a client holds its `FOR UPDATE` locks from the start to
  the end of its SELECT; one such call at a time. The poller's own scan reads all
  its rows before it processes the first, so its locks are gone by then and it is
  one action.
- Publish is two actions, the broker's append and the acknowledgement, since a
  deadline or a cancellation can fall between them.
- A status update that commits and whose reply is lost is indistinguishable from
  one that succeeds: the poller only logs the error.
- `stranded` is a history variable, read by no action: the events the poller gave
  up on (failed scan, lookup or update; beyond the LIMIT; locked; put back to
  PENDING by a client, which notifies nobody) since its last scan.
- Definitions marked *Mutant* are the definition that follows with one plausible
  slip. No specification uses them; substituted for the original, each makes the
  property named in `PROJECT.json` fail, which shows that the property depends on
  that line of the code.

In `ServerLifecycle`, `at` holds the pc of the two goroutines that stop the server:
main, and the one that calls GracefulStop. Both run the same steps up to the gRPC
server (`StopperStep`). `run` is the poller's call; `holder` is `PGListener.mu`;
`conn` is nil, open, or dead (pgx knows it is closed and sends nothing). The Close of
`outbox.go:167` and the Reconnect after it, which lock the mutex one after the other, are
one hold of it there. A connection that is open and a PostgreSQL that answers nothing make
`Close(context.Background())` hang. A handler holds a pool connection while it
queries; grpc's Stop cancels it and does not wait for it, Pool.Close does. Further
signals stay in the channel's buffer and change nothing.

In `Catalog`, a table is a set of rows, an RPC one statement and so one action:
PostgreSQL checks keys, uniqueness and references and cascades atomically. Refused
calls change nothing and are no actions. `issued` keeps identifiers from being
generated twice; `confirmed`, a history variable, counts the deletions answered
with OK.

`OutboxReplicas` has the state of `OutboxListener` once per replica, at coarser steps:
the lookup of a notified event, which reads columns that never change, is part of
taking the notification; sending a record and its acknowledgement are one step with
three outcomes; close, dial and LISTEN are one step; a failed reconnection or a
shutdown counts as a crash. What `OutboxListener` cannot show is fine-grained here:
a scan has a beginning and an end (`ScanBegin`, `ScanEnd`), between which its rows are
locked and another replica's scan skips them, and its update waits. A client's
`PollPendingEvents` does the same to the rows in `reading`, one such call at a time. What a
scan skips because another replica's scan has it is in that replica's hands; what it skips
because a client reads it is in nobody's, and counts as given up on. A notification
goes to every subscribed replica. `dropped` is `stranded`, never emptied.

`OutboxOrder` adds the history variable `disturbed` to `OutboxListener`: the events that,
before they had a record, were given up on (`GaveUpOn`), left out by a scan (`LeftOut`), had
their status written by somebody (`Relabelled`), or were committed after an event created
later (`CommittedLate`). It restricts nothing: every step of `OutboxListener` is a step of it.

`EventPaging` reads one page per step, with the rows committed at that step.
`created_at` is older than the commit, so a row may appear in the middle of the order
and not at its head. Rows of one `created_at` come in any order, another one for every page
(`Newest`): the query has no tiebreaker, and a status written in between moves a row in its
table. `offset` counts the rows received, as a client does that asks for the rows after
those it has; `repeats` counts those received again that tie with no other (`Alone`),
`shuffled` those that do.

`Migrations` sees a schema as the set of its objects and a file as its lines: goose
marks, blanks and statements, each of which creates (or replaces) or drops an object, and
fails unless some objects are there and others are not. `extractGooseUp` is the filter of
`store.go`: the positions it keeps. What a batch makes of a schema is decided, object by
object, by the last statement about it (`Before`). A batch without parameters is one
implicit transaction, so it has all its effects or none (`Exec`); an interrupted run may
or may not have had its last batch committed.

In `Boot`, `now` is main's clock. `Tick` is possible only when nothing that takes no time
is left to do: an attempt waits only for a database that hangs, a pause for its end or
the context's. `db` is how the database answers at the moment: it accepts, refuses, or
hangs. `pools` counts open pools; NewPool's error path and the next attempt are what
could leak one. `dsn` distinguishes a connection string pgx cannot parse, and a password
with characters that have a meaning in a URL: NewPool encodes it and main, for the
listener, does not. Signals come later: the handler is installed after all of this. The
first scan returns pending rows that nobody has locked, as many as `PollLimit` lets, or
fails (`Polled`); `locked` are the rows other servers and clients read FOR UPDATE, who also
write statuses. `stranded` is as in `OutboxListener`: what the scan left out, and what became
pending after it unannounced, for want of a trigger or because a status was put back.
`DatabaseChanges` ends with the subscription, for what a lost connection does is
`OutboxListener`'s. `RunMigrations` has one caller, the integration tests, once per
container; overlapping runs are a generality of the model.

`Messages` has one set of records per message. Texts that decide nothing but whether a
request is accepted (password, name, price, amounts) are one field: all good, one
missing, or one unusable further on (a price that is no number, a password bcrypt
refuses). `Services` gives every RPC an *answer* (status code and rows, a function of
the present tables) and an *effect* (a step of `Catalog` or of `AtLeastOnce`);
a handler makes one statement, so the two belong to one state.

In `DemoClient`, `step` is the position in `Plan`: the calls of `cmd/client` in their
order, then the polling. A call whose identifiers are missing is skipped, as in the
code. A call may be answered, get lost (`MaxLost` of them) or be cut off by the 30 s
context, which all calls share; in the last two cases the request may be in `late`, to
be executed at any later time or never. `failed` and `made` are history variables: the
calls not answered with OK, and the identifiers issued to a client's requests whether it
learnt of them or not.

Left out because they cannot occur here: payloads that are not the trigger's JSON
(only the trigger notifies the channel), a nil notification
(`PGListener.Stop` has no caller).

## Runs

Bounds of `MCOutbox`, `MCOrder` and `MCReplicas`: the number of events, `MaxBoots` process starts,
`MaxDrops` losses of the LISTEN connection. Of `MCServerLifecycle`: the client calls. Of
`MCCatalog`: the identifiers. Of `MCPaging`: the events and the inserts in flight. Of
`MCBoot`: `MaxChanges` changes of the database's state, and the runs of the migrations.
Of `MCDemoClient`: the identifiers, `MaxLost` lost calls, and the requests of other
clients. Deadlock is not checked anywhere: an idle poller waits for ever, a process
that has used up its boots or has exited stays down, a pager and a demo client end, and
a catalog with no identifiers left and no rows has nothing to do.

| Run | Instance | Shows |
|---|---|---|
| `faults` | 2 events, 2 inserts in flight, LIMIT 1, every disruption, clients that lock and relabel, 2 boots, 1 drop, up to symmetry | `TypeOK`, `NoSilentGap`, `CompletedWasPublished`, `BoundedDuplicates`, `FifoPerTopic`, refinement of `AtLeastOnce` |
| `restarts` | 3 events, 2 inserts in flight, LIMIT 3, connect and LISTEN failures, crash, shutdown, 2 boots, 1 drop, up to symmetry | `HoldsAllPending`, `FifoPerTopic`, `BoundedDuplicates`, `ShutdownFailsNoEvent` |
| `progress` | 2 events, LIMIT 1, failing queries, publishes and dials, locking clients, crash, shutdown, 1 drop, fair | `EventuallyHandled`, `ShutdownEnds` |
| `replicas` | 2 replicas, 2 events in 2 topics, LIMIT 1, failing queries and publishes, a client that locks rows and one that puts events back, crashes, 2 boots, 1 drop, up to symmetry | `TypeOK`, `LocksAreSelects`, `SkippedAreHeld`, `DuplicatesBounded`, refinement of `AtLeastOnce` |
| `paging` | 4 events, 2 inserts in flight, ties, statuses written meanwhile, limits 2 and 1 (the default, asked for with 0), up to symmetry | `TypeOK`, `NothingMissed`, `RepeatsBounded`, `MissesShow` |
| `lifecycle` | 2 client calls, one stuck for ever; any failure of the LISTEN connection; fair | `TypeOK`, `PollerGoneFirst`, `GracefulCutsNothing`, `ShutdownCompletes` |
| `boot` | 4 attempts 2 s apart under a context of 9 s, 2 changes of the database, 2 overlapping runs of the migrations, 2 events, LIMIT 1, up to symmetry | `TypeOK`, `WaitBounded`, `GivesUpInVain`, `NoGapAtStart`, `SchemaOfOneRun`, `NeverRepaired` |
| `catalog` | 2 users, 1 product, 2 orders, 2 items, quantities and stocks 0 and 1, up to symmetry | `TypeOK`, `NoOrphans`, `ConfirmedOnce` |
| `demo` | 1 client, a user beside its own, 2 lost calls, others that take its user name or address, change its item and label its event; fair | `TypeOK`, `NothingLeftBehind`, `ReadsOwnWrites`, `ExitZeroPublished`, `ClientEnds` |

Two events and LIMIT 1 are the smallest instance with a backlog beyond the LIMIT
and with one event overtaking another; the third event of `restarts` allows one
published, one in the batch and one queued. Two boots give the crash between
publish and update a restart in which it matters, one drop gives a reconnection
with notifications queued, lost and yet to come. `faults` and `restarts` run under
`OrderSpec`, which is `Spec` with a history: the one meets every way an event loses its
place, the other batches of three in which the order of a scan can go wrong. In `replicas`
two boots are either the start of both replicas or a start and a restart of one; two events
under LIMIT 1 give disjoint scans, two topics tell the topics apart. In `paging` two inserts in flight commit out of order or with one `created_at`, and
four events make three pages with an insert before each.
`boot` scales 10 attempts and 30 s down to 4 and 9 s: the pauses still add up to less than
the context (6 of 9 s; 18 of 30 s in the code), and there is time for a change before,
between and after them; two events under LIMIT 1 are a backlog the first scan cannot take.
One client in `demo` meets the others through their requests; two clients without losses have been checked as
well. Two client calls in `lifecycle` are one that returns and one that
does not. Two orders and items in `catalog` tell a cascade that removes what it must
from one that removes everything; one product is enough, for an item refers to one.
Every invariant checked by a passing run is also proved, without any bound (see Proofs).

Three runs check what the documentation says of the program and TLC refutes:

| Run | Says | Because |
|---|---|---|
| `failed_retried` | README.md:138 events retry on failure | nothing looks for FAILED |
| `reconnect_panic` | README.md:25 automatic reconnection | a failed Reconnect leaves a nil connection, used after the back-off |
| `completed_undone` | README.md:139 exactly-once processing with status tracking | the status is written by id whatever it is: an event the first scan completed is processed again for its notification, and a publish that fails then turns COMPLETED into FAILED |

The last needs one poller and one event, inserted between LISTEN and the scan; with several
replicas every notification is such a second time, for all of them are told of every event.

`FifoPerTopic` is README.md:140 as far as the code keeps it. An event that kept its place is
published before every younger one of its topic; `disturbed` names the ways to lose it, and
each can cost it: a failed publish lets the next of the batch overtake, a scan under LIMIT
takes the oldest and notifications overtake the rest, a row a client happens to read is
skipped, notifications follow commits and `created_at` is taken before. What the property
shows is that nothing else does (no crash, restart, shutdown, lost connection, nor what
happened to another event), and that the loss is the event's own. Events of one `created_at`
have no order in the code, and none here.

### Disagreements

Other places where the code and what is said of it differ. They follow from the
models' actions directly and have no run of their own.

- README.md:22 "exactly-once delivery": an event that is scanned and notified is published
  twice without any fault (`outbox.go:210` looks it up and not at its status). The bound
  on this is `BoundedDuplicates`, with replicas `DuplicatesBounded`.
- README.md:141 "Backlog scanning recovers missed events": a start scans once, with one
  LIMIT (`outbox.go:151`); what is beyond it waits for the next start or reconnection.
- README.md:140 "Ordering": FIFO per event type is kept for the events
  `FifoPerTopic` speaks of, and promised for no others.
- `db/queries/events.sql:55` orders by `created_at` alone: rows that tie may change places
  between two pages of ListEvents, so that one comes twice and another never. A client
  can tell by the repeat (`MissesShow`).
- `outbox.go:128`: when LISTEN is refused after a reconnection, the back-off goes back to
  the wait (line 134) and not to the reconnection: the poller waits on an open connection
  that is not subscribed, until a restart.
- `cmd/server/main.go:113` "forcing exit": the forced path waits for the run goroutine and
  closes the LISTEN connection with `context.Background()`, like the graceful one, so what
  hangs the one hangs the other. `ServerLifecycle` has this as `Hangs = {"close"}`.
- `product_handler.go:101`: a stock of 0 counts as not provided, and UpdateProduct writes
  NULL for what is not provided, over the stock there was.
- `order_handler.go:154` refuses a quantity of 0 or less in CreateOrderItem; line 194 does not
  in UpdateOrderItemQuantity (`Catalog` and `demo` let clients write 0).
- `cmd/server/main.go` builds the listener's connection string without the URL encoding
  NewPool applies: with a password that needs it, the pool connects and main exits.
- `db/queries/orders.sql` and `order_items.sql` declare the deletes `:exec`; the generated code
  counts rows, and the handlers answer NotFound by that count. The README names a
  `db/migrations.sql` which is not there.

### Fairness

`FairSpec` assumes that the run goroutine is scheduled and its calls return
(Publish after 30 s at most; TCP keep-alive notices a dead connection), that a
client's SELECT ends, that an UPDATE waiting for a row lock gets it when the lock is
freed again and again (the one strong fairness: PostgreSQL queues lock waiters),
and that a shutdown once begun goes on. No client call, start, or fault is
assumed to happen. That `Close(context.Background())` returns is an assumption of
the same kind; the code sets no deadline there. `ServerLifecycle` drops it: `Hangs`
says whether Close may hang, `Stuck` which client calls never end. There, main, the
graceful goroutine, the poller and each handler make progress when they can and the
timer fires; no signal, client call, notification or connection loss is assumed.
In `DemoClient`, only time is assumed to pass for each client: the call under way fails
when its context is done, those after it fail unsent, the polling context ends. No call
need ever be answered and no event published. The other modules have safety
properties only and assume nothing.

## Proofs

The theorems state every invariant the passing runs check, and the refinements; what TLC
shows on an instance they show for every value of the constants. Each rests on an
inductive invariant, named below, which TLC checked before it was proved. The assumptions
on the constants are named and stated in the modules that declare them: `TypeOf` types the
events, limits and bounds are naturals, the set of replicas is finite (a bound counts
them), and `DemoAssumption` says what the demo client's literals belong to and that
identifiers of orders, of items, and NULL are told apart. Three theorems have a condition of
their own, an ASSUME in their statement: `NothingGivenUp` (`BacklogFits`), `ReadsItsWrites`
(`NobodyElseChanges`) and `ZeroMeansPublished` (`NobodyElseCompletes`). The instances of
`restarts` and of `demo` satisfy them.

`OutboxProofs` proves, for any events, types, limits, faults and bounds:

- `TypeCorrect`: `TypeOK` is inductive. It includes that the poller is at a call
  about an event exactly while its batch is not empty.
- `GapFree`: `NoSilentGap`. Not inductive alone: the loop is also entered from the
  back-off, so `GapInv` adds that a poller about to LISTEN again or backing off is
  not subscribed. The scan establishes the invariant after LISTEN, every later
  step moves an event from queue to batch, from batch to a status other than
  PENDING, or to `stranded`.
- `CompletedPublished`: `CompletedWasPublished`. `PublishInv` adds that the record
  is in the topic from the acknowledgement to the update, and that queue and batch
  hold committed events.
- `Implements`: `Spec => ImplementsAtLeastOnce`, from `PublishInv`; the row of an
  uncommitted insert maps to absent, and every action maps to a step of
  `AtLeastOnce` or to a stutter.
- `ShutdownSpares`: `ShutdownFailsNoEvent`; `FailInv` adds that only a cancelled
  publish leads to `MarkEventFailed`, whose update is then cancelled as well.
- `NothingGivenUp`: `HoldsAllPending`, assuming `BacklogFits`: the poller's queries work,
  clients lock no rows and put no event back, and there are no more events than the
  LIMIT. `HoldInv` is `GapInv` without `stranded`. Its new step is the scan: a result
  repeats no row, so as many rows as the LIMIT are all the events there are.

- `RecordsBounded`: `BoundedDuplicates`. `DuplicatesInv` is an account: the records an event
  has, one each if it may yet get one from its notification or from the batch (`Claimed`),
  and the scans that are owed (`ScansDue`) are no more than starts, lost connections and
  one. A start or a drop pays for a scan, a scan for one place in a batch, and a record
  uses up the place it came from, for neither queue nor batch holds an event twice. Under
  `MarksStick` (the poller's updates succeed, no client puts an event back) a drop costs an
  event nothing: a pending one outside the batch has not been scanned since the start.
- `TopicsInOrder`: `FifoPerTopic`, of every behaviour of `OutboxOrder`. `OrderInv` adds to
  `PublishInv` that an undisturbed event without a record is pending; that whoever waits
  undisturbed and is older than an event in the batch or the queue is ahead of it there, and
  that a subscribed poller has them all (`InTurn`); and that a record is in a topic only
  after those of all older undisturbed events. A step that would break this for an event
  is one that puts it in `disturbed`. `InTurn` is not kept by a cancelled context, and
  need not be: nothing is published after it.

`EventTableProofs` holds the lemmas on the table, on sequences as the actions take and add
to them, and on producing a record, which the proofs about one and about several pollers
share.

`ReplicaProofs`, for any replicas, events, topics, limits and faults:

- `TypeCorrect`, and `ScansAreDisjoint`: `LocksAreSelects`, the row locks are exactly those of
  the replicas' scans and the client's call under way, and no two of them share a row.
- `SkippedNotLost`: `SkippedAreHeld`. `SkipInv` says where every pending event is, as seen from
  each subscribed replica: in its queue, in some replica's batch, or given up on; rows
  a scan skips are in the batch of the replica that locked them or, if a client did,
  given up on.
- `ReplicasImplement`: several pollers implement `AtLeastOnce`, by `ReplicaInv`, the mapping
  being that of `Implements`.
- `DuplicatesAreBounded`: `DuplicatesBounded`. What is due to an event is counted by four
  sets of replicas, those with a scan ahead (`ToScan`), those off their subscription
  (`Lost`), those yet to be told (`ToldOf`) and those with the event in hand (`ToPublish`):
  a step moves a replica from one to the next, and a record takes it out of the last.

`EventPagingProofs`, for any events, ties, limits, inserts and status updates: `TypeCorrect`,
`PagingIsComplete` (`NothingMissed`), `RepeatsArePaidFor` (`RepeatsBounded`) and
`MissesAreNoticed` (`MissesShow`). The rank of a row is the number of newer ones. `PagingInv`
says that a row of the beginning that ties with none and is not yet received has a rank of at
least `offset` (`Ahead`), and that the received rows of that kind and such a rank, which will
come again (`Beyond`), are with the repeats so far no more than the inserts. `MissesShow` is
counting: the empty page says that there are no more rows than were received, repeats
included.

`BootProofs`, for any number of attempts, pause and context in which the pauses fit, any
behaviour of the database and any migrations:

- `WaitEnds`: `WaitBounded`. `PoolInv` adds that an attempt has a pool of its own open if
  the connection string could be parsed, and that there was none before the first.
- `FairChance`: `GivesUpInVain`. `PauseInv` relates the clock to the attempts made, each of
  which has a pause behind it. `RecentInv` says that a database which accepts, and met no attempt by hanging, while main still
  waits has changed no longer ago than a pause, and that the pause under way ends within
  one of that change, or the context is over.
- `NoGap`: `NoGapAtStart`, inductive as it stands: the scan accounts for every pending row, and
  after it a row becomes pending with a notification or unannounced.
- `OneRunMakesTheSchema`: `SchemaOfOneRun`, for any number of runs. `MigrationsInv` says that
  a run has made nothing, or is the only one that has and the schema is what its files so
  far make. The reason is the first file: "users" is in any schema that is not empty, so its
  CREATE TABLE fails for every other run. Lemmas evaluate the filter on each file, and
  what its batch makes of a schema.
- `FailedIsNotRepaired`: `NeverRepaired`, from the same invariant: once the run that made the
  schema has failed, no other gets past its first file.
- `TypeCorrect`: `Boot`'s `TypeOK`, from `MigrationsInv`.

`DemoClientProofs`, for any clients, requests, lost and late calls:

- `ZeroMeansPublished`: `ExitZeroPublished`, assuming `NobodyElseCompletes`. `ExitInv` says that
  what is COMPLETED has a record, that a client past its script has an event, and that no
  late request labels one. The lemmas follow a GetEvent through the dispatch, the handler
  and the converter, and lay out the plan the positions refer to.
- `NothingIsLeft`: `NothingLeftBehind`, whatever other clients ask for. `DemoInv` says, for
  each client, that a row made for it was made at a call now past, and that it knows the
  row unless the create failed (`Rows`); that a delete which is past and did not fail has
  left nothing to delete (`Deletes`); and that every call still under way somewhere is one
  of the client's own and, if a create, noted as failed (`Abandoned`). That last part is why
  a late create is covered: it is in `failed` when its row appears. The foreign keys and types
  of the tables come from `CatalogProofs`, through the instance of `Catalog`.
- `TypeCorrect`: `TypeOK`, from `DemoInv`.
- `ReadsItsWrites`: `ReadsOwnWrites`, assuming `NobodyElseChanges`. `ReadsInv` says that the
  rows made for two clients are apart, that between its create and its read a row is as it
  was created (`Reads`), and that the items of an order are its client's own, and one at
  most if their create did not fail (`ItemsOf`). A late call changes no row
  before the client's own call for it is past, for the client sent it then.

`ServerLifecycleProofs`, for any client calls, whatever is stuck or hangs:

- `LifecycleType`: the types, and that the mutex of the LISTEN connection is held
  exactly by the goroutine inside Close or Reconnect.
- `PollerOutlived`: `PollerGoneFirst`. `PollerInv` follows each stopper from its wait
  on: past it the run goroutine has ended, and it never comes back; main closes the
  publisher and the pool after its own wait or after the graceful goroutine's.
- `GracefulDrains`: `GracefulCutsNothing`. `GracefulInv` adds that after the drain no
  call arrives and none is in flight, and that without the timer main goes on only
  when the graceful goroutine is done.

`CatalogProofs`, for any identifiers and requests:

- `CatalogType`: the tables keep their types and primary keys, from one lemma each on
  what INSERT, UPDATE and DELETE do to a table.
- `NoRowOrphaned`: `NoOrphans`, inductive with the types alone.
- `DeleteConfirmedOnce`: `ConfirmedOnce`; `ConfirmInv` adds that an identifier not yet
  issued is unconfirmed.

Model-checked only: the four liveness properties `EventuallyHandled`, `ShutdownEnds`,
`ShutdownCompletes` and `ClientEnds`, for liveness under fairness is beyond the proof
system.

## Not modelled

| Part | Why |
|---|---|
| pool options, the limit of 25 connections | no code depends on them; that handlers hold a connection while they query is in `ServerLifecycle` |
| ExecTx | called by tests only |
| texts longer than their VARCHAR | PostgreSQL refuses the statement, and a refused call changes nothing |
| a clock that steps back | `created_at` never decreases from one insert's beginning to the next's |
| prices, amounts, descriptions, payloads, timestamps other than `created_at` | no control depends on them beyond being accepted or not |
| protobuf serialisation, interceptors, reflection, the health service | no state of the program's own |
| logging, the formats of the configuration | no state; that Load may fail is in `Boot` |
| tests and mocks | - |
| pgx, franz-go, grpc-go, PostgreSQL | external: modelled from how the code uses them |

## Plan

1. `OutboxListener` implements the poller of `ServerLifecycle`: refinement mapping from
   `pc`, `ctxDone` and `conn` to `run`, checked by TLC, then proved.
2. `OutboxListener` implements one replica of `OutboxReplicas`, which would turn the coarser
   steps there from a choice into a theorem.
3. Pool exhaustion: 25 connections shared by handlers and the poller's queries; against "a query waits no longer than its context".
4. Proofs of 1 and 2, and of what they would add: that `PollerGoneFirst` speaks of the poller
   of `OutboxListener`, and `DuplicatesBounded` of pollers at its finer steps.
