----------------------------- MODULE PGListener -----------------------------
(***************************************************************************)
(* internal/poller/pg_listener.go: the connection the poller LISTENs on,   *)
(* with PostgreSQL's NOTIFY queue for that session (the trigger of         *)
(* db/migrations and pgx's buffer of received notifications).              *)
(*                                                                         *)
(*   conn = "nil"        PGListener.conn is a nil pointer                  *)
(*   conn = "open"       connected, LISTEN not (successfully) issued       *)
(*   conn = "listening"  connected and subscribed to the channel           *)
(*   conn = "broken"     lost, but not yet noticed by the client           *)
(***************************************************************************)
EXTENDS Events, Naturals, SequencesExt

VARIABLES
  conn,   \* state of PGListener.conn
  queue   \* ids notified to this session and not yet taken from it

listenerVars == <<conn, queue>>

ListenerTypeOK ==
  /\ conn \in {"nil", "open", "listening", "broken"}
  /\ queue \in Seq(Event)

(* pg_notify in the AFTER INSERT trigger reaches, at commit, the sessions  *)
(* that are listening at that moment, and no other.                        *)
Notify(e) ==
  /\ queue' = IF conn = "listening" THEN Append(queue, e) ELSE queue
  /\ UNCHANGED conn

(* NewPGListenerFromConfig, and the first half of Reconnect.               *)
Connect ==
  /\ conn' = "open"
  /\ queue' = <<>>

(* pgx.Connect failed: Reconnect has assigned its nil result to l.conn.    *)
ConnectFails ==
  /\ conn' = "nil"
  /\ queue' = <<>>

(* Exec LISTEN, in Start and as the second half of Reconnect.              *)
Listen ==
  /\ conn = "open"
  /\ conn' = "listening"
  /\ UNCHANGED queue

(* LISTEN returns an error: the connection was lost, or the server refused *)
(* the statement and the connection is still good.  l.conn is kept.        *)
ListenFails ==
  /\ conn' \in {conn, "broken"}
  /\ UNCHANGED queue

(* Close: UNLISTEN, close, and l.conn = nil whatever they returned.        *)
Close ==
  /\ conn' = "nil"
  /\ queue' = <<>>

(* WaitForNotification takes the oldest notification; pgx hands out those  *)
(* it has already received even when the connection is gone.               *)
Take(e) ==
  /\ conn \in {"listening", "broken"}
  /\ queue # <<>> /\ e = Head(queue)
  /\ queue' = Tail(queue)
  /\ UNCHANGED conn

(* WaitForNotification fails: the connection is gone, nothing is buffered. *)
WaitFails ==
  /\ conn = "broken" /\ queue = <<>>
  /\ UNCHANGED listenerVars

(* The connection is lost.  Notifications received so far stay in pgx's    *)
(* buffer, later ones are gone.                                            *)
Drop ==
  /\ conn \in {"open", "listening"}
  /\ conn' = "broken"
  /\ \E n \in 0..Len(queue) : queue' = SubSeq(queue, 1, n)

=============================================================================
