----------------------------- MODULE Migrations -----------------------------
(***************************************************************************)
(* RunMigrations (internal/repository/store.go) over the files of          *)
(* db/migrations: in the order of their names, the Up part of each is sent *)
(* as one batch, which PostgreSQL runs as one transaction.  There is no    *)
(* record of what has been applied.  Several runs may overlap.             *)
(*                                                                         *)
(* A schema is the set of its objects.  A line is a goose directive, blank,*)
(* or a statement, which creates or drops an object and fails unless some  *)
(* objects are there and others are not.                                   *)
(***************************************************************************)
EXTENDS Integers, Sequences

CONSTANT Run  \* the runs of RunMigrations

VARIABLES
  schema,   \* objects of the database
  next,     \* per run: the file it is at
  outcome,  \* per run: "none" (not begun), "running", "ok" or "failed"
  author    \* history: per run, the objects it created

migrationVars == <<schema, next, outcome, author>>

-----------------------------------------------------------------------------
(* The files.                                                              *)

Up == [mark |-> "Up"]
Down == [mark |-> "Down"]
Blank == [mark |-> "blank"]
Create(object, needs) ==
  [mark |-> "sql", object |-> object, needs |-> needs, lacks |-> {object},
   creates |-> TRUE]
CreateOrReplace(object) ==
  [mark |-> "sql", object |-> object, needs |-> {}, lacks |-> {}, creates |-> TRUE]
Drop(object) ==
  [mark |-> "sql", object |-> object, needs |-> {object}, lacks |-> {},
   creates |-> FALSE]
DropIfExists(object) ==
  [mark |-> "sql", object |-> object, needs |-> {}, lacks |-> {}, creates |-> FALSE]

add_users_table == <<Up, Create("users", {}), Blank, Down, Drop("users")>>

add_products_table ==
  <<Up, Create("products", {}), Blank, Down, Drop("products")>>

add_orders_table ==
  <<Up, Create("orders", {"users"}), Blank, Down, Drop("orders")>>

add_order_items_table ==
  <<Up, Create("order_items", {"orders", "products"}), Blank, Down,
    Drop("order_items")>>

add_events_table == <<Up, Create("events", {}), Blank, Down, Drop("events")>>

(* The ALTER of events.status counts as an object of its own.              *)
add_event_status_enum ==
  <<Up, Create("event_status", {}), Blank,
    Create("events.status", {"events", "event_status"}), Blank,
    Down, Drop("events.status"), Blank, Drop("event_status")>>

add_events_notify_trigger ==
  <<Up, CreateOrReplace("notify_event_insert"), Blank,
    Create("event_insert_notification", {"events", "notify_event_insert"}), Blank,
    Down, DropIfExists("event_insert_notification"),
    DropIfExists("notify_event_insert")>>

(* sort.Strings.                                                           *)
Files ==
  <<add_users_table, add_products_table, add_orders_table, add_order_items_table,
    add_events_table, add_event_status_enum, add_events_notify_trigger>>

Object ==
  {"users", "products", "orders", "order_items", "events", "event_status",
   "events.status", "notify_event_insert", "event_insert_notification"}

-----------------------------------------------------------------------------
(* Mutant: reads on after the Down mark.                                   *)
EveryStatement(lines) == {i \in DOMAIN lines : lines[i].mark = "sql"}

(* The statements after an Up mark and before any Down mark.               *)
extractGooseUp(lines) ==
  {i \in DOMAIN lines :
     /\ lines[i].mark = "sql"
     /\ \E j \in 1..(i - 1) : lines[j].mark = Up.mark
     /\ \A j \in 1..(i - 1) : lines[j].mark # Down.mark}

(* The objects there are when a batch that met a schema comes to line i:   *)
(* the last statement about an object decides.                             *)
Before(met, lines, i) ==
  LET sent == {j \in extractGooseUp(lines) : j < i} IN
  {o \in Object :
     \/ o \in met /\ \A j \in sent : lines[j].object # o
     \/ \E j \in sent : /\ lines[j].object = o /\ lines[j].creates
                        /\ \A k \in sent : k > j => lines[k].object # o}

(* The Up part of a file as one batch: if a statement fails, it all does.  *)
Exec(lines) ==
  [ok |-> \A i \in extractGooseUp(lines) :
            LET there == Before(schema, lines, i) IN
            lines[i].needs \subseteq there /\ lines[i].lacks \cap there = {},
   schema |-> Before(schema, lines, Len(lines) + 1)]

-----------------------------------------------------------------------------
MigrationsTypeOK ==
  /\ schema \subseteq Object
  /\ next \in [Run -> 1..Len(Files)]
  /\ outcome \in [Run -> {"none", "running", "ok", "failed"}]
  /\ author \in [Run -> SUBSET Object]

MigrationsInit ==
  /\ schema = {}
  /\ next = [r \in Run |-> 1]
  /\ outcome = [r \in Run |-> "none"]
  /\ author = [r \in Run |-> {}]

Becomes(r, result) ==
  /\ schema' = result
  /\ author' = [author EXCEPT ![r] = @ \cup (result \ schema)]

Begin(r) ==
  /\ outcome[r] = "none"
  /\ outcome' = [outcome EXCEPT ![r] = "running"]
  /\ UNCHANGED <<schema, next, author>>

(* Mutant: a run that failed can be taken up where it failed.              *)
MigrateOrResume(r) ==
  /\ outcome[r] \in {"running", "failed"}
  /\ LET result == Exec(Files[next[r]]) IN
       /\ result.ok /\ Becomes(r, result.schema)
       /\ IF next[r] = Len(Files)
            THEN outcome' = [outcome EXCEPT ![r] = "ok"] /\ UNCHANGED next
            ELSE next' = [next EXCEPT ![r] = @ + 1] /\ UNCHANGED outcome

(* The next file; a batch that fails ends the run and changes nothing.     *)
Migrate(r) ==
  /\ outcome[r] = "running"
  /\ LET result == Exec(Files[next[r]]) IN
       IF ~result.ok
         THEN /\ outcome' = [outcome EXCEPT ![r] = "failed"]
              /\ UNCHANGED <<schema, next, author>>
         ELSE /\ Becomes(r, result.schema)
              /\ IF next[r] = Len(Files)
                   THEN outcome' = [outcome EXCEPT ![r] = "ok"] /\ UNCHANGED next
                   ELSE next' = [next EXCEPT ![r] = @ + 1] /\ UNCHANGED outcome

(* The connection, the context or the process of a run goes; the batch it  *)
(* has sent may be committed all the same.                                 *)
Interrupted(r) ==
  /\ outcome[r] = "running"
  /\ outcome' = [outcome EXCEPT ![r] = "failed"]
  /\ UNCHANGED next
  /\ LET result == Exec(Files[next[r]]) IN
       \/ UNCHANGED <<schema, author>>
       \/ result.ok /\ Becomes(r, result.schema)

MigrationsNext == \E r \in Run : Begin(r) \/ Migrate(r) \/ Interrupted(r)

-----------------------------------------------------------------------------
Creates(lines) ==
  {lines[i].object : i \in extractGooseUp(lines)}

(* However runs overlap and wherever they are interrupted, every object is *)
(* the work of one of them, which has made what the files behind it say,   *)
(* and a run that reports success has made all of the schema: no database  *)
(* is patched together from two runs.                                      *)
SchemaOfOneRun ==
  /\ \A q, r \in Run : author[q] # {} /\ author[r] # {} => q = r
  /\ \A r \in Run : outcome[r] = "ok" => author[r] = Object /\ schema = Object
  /\ \A r \in Run, i \in DOMAIN Files :
       i < next[r] => Creates(Files[i]) \subseteq schema \cap author[r]

(* The price: once the run that began the schema has failed, no other      *)
(* completes it (store.go:49), only a clean database helps.                *)
NeverRepaired ==
  [][\A r \in Run : outcome[r] = "failed" /\ author[r] # {}
       => schema' = schema]_migrationVars

=============================================================================
