----------------------------- MODULE EventTable -----------------------------
(***************************************************************************)
(* The events table (the outbox) and the operations of the EventService    *)
(* that change it: db/migrations, db/queries/events.sql, Store and the     *)
(* event handler.  Every RPC is one SQL statement in its own transaction.  *)
(*                                                                         *)
(* An INSERT takes its created_at when its transaction starts and becomes  *)
(* visible when it commits, so inserting is two steps; the steps of        *)
(* concurrent CreateEvent calls interleave.  GetEvent and ListEvents read  *)
(* only and have no action here.                                           *)
(***************************************************************************)
EXTENDS Events, Naturals, FiniteSets, SequencesExt

CONSTANTS
  MaxInFlight,    \* CreateEvent calls that overlap in time, at most
  RpcLimits,      \* limits clients pass to PollPendingEvents
  ClientStatuses  \* statuses clients request through UpdateEventStatus

ASSUME TableAssumption ==
  /\ MaxInFlight \in Nat
  /\ RpcLimits \subseteq Nat \ {0}
  /\ ClientStatuses \subseteq EventStatus

VARIABLES
  status,     \* per event: "absent", "inserting" (uncommitted) or its status
  createdAt,  \* per event: created_at, 0 before the insert
  clock,      \* the last created_at handed out
  locked      \* rows locked by a SELECT ... FOR UPDATE still running

tableVars == <<status, createdAt, clock, locked>>

TableTypeOK ==
  /\ status \in [Event -> EventStatus \cup {"absent", "inserting"}]
  /\ createdAt \in [Event -> Nat]
  /\ clock \in Nat
  /\ locked \in SUBSET Event

TableInit ==
  /\ status = [e \in Event |-> "absent"]
  /\ createdAt = [e \in Event |-> 0]
  /\ clock = 0
  /\ locked = {}

Pending == {e \in Event : status[e] = "pending"}
Committed == {e \in Event : status[e] \in EventStatus}

(* CreateEvent: the INSERT starts.  Its now() is no earlier than the last  *)
(* one, and may be the same: nothing makes created_at unique.  An insert   *)
(* that fails, or that the handler rejects, is one that never commits (or  *)
(* never starts).                                                          *)
CreateEventBegin(e) ==
  /\ status[e] = "absent"
  /\ Cardinality({f \in Event : status[f] = "inserting"}) < MaxInFlight
  /\ clock' \in {clock, clock + 1} \ {0}
  /\ createdAt' = [createdAt EXCEPT ![e] = clock']
  /\ status' = [status EXCEPT ![e] = "inserting"]
  /\ UNCHANGED locked

(* The INSERT commits with the column's default status.                    *)
CreateEventCommit(e) ==
  /\ status[e] = "inserting"
  /\ status' = [status EXCEPT ![e] = "pending"]
  /\ UNCHANGED <<createdAt, clock, locked>>

(* Mutant: ORDER BY created_at DESC.                                       *)
NewestFirst(e, f) == createdAt[e] >= createdAt[f]

(* ORDER BY created_at ASC; rows of the same created_at come in any order. *)
InOrder(e, f) == createdAt[e] <= createdAt[f]

(* The rows PollPendingEvents may return under LIMIT limit: pending rows   *)
(* nobody has locked, oldest created_at first, as many as the limit lets.  *)
PollResults(limit) ==
  LET rows == Pending \ locked IN
  {b \in UNION {[1..n -> rows] : n \in 0..limit} :
     /\ IsInjective(b)
     /\ \A i, j \in DOMAIN b : i < j => InOrder(b[i], b[j])
     /\ \A e \in rows \ ToSet(b) :
          Len(b) = limit /\ \A i \in DOMAIN b : InOrder(b[i], e)}

(* Mutant: an UPDATE that matches no row.                                  *)
UpdateLost(e, s) ==
  /\ e \notin locked
  /\ UNCHANGED tableVars

(* UPDATE events SET status: any status over any other, once the row lock  *)
(* is free.                                                                *)
SetStatus(e, s) ==
  /\ e \notin locked
  /\ status' = [status EXCEPT ![e] = s]
  /\ UNCHANGED <<createdAt, clock, locked>>

(* RPC UpdateEventStatus; an unknown id is NotFound and changes nothing.   *)
UpdateEventStatusRPC(e, s) ==
  /\ e \in Committed
  /\ SetStatus(e, s)

(* RPC PollPendingEvents, a unary call: FOR UPDATE holds the rows it       *)
(* returns until its statement's implicit transaction ends.  One such call *)
(* of clients at a time.                                                   *)
PollRPCBegin(b) ==
  /\ locked = {} /\ b # <<>>
  /\ locked' = ToSet(b)
  /\ UNCHANGED <<status, createdAt, clock>>

PollRPCEnd ==
  /\ locked # {}
  /\ locked' = {}
  /\ UNCHANGED <<status, createdAt, clock>>

=============================================================================
