----------------------------- MODULE EventPaging ----------------------------
(***************************************************************************)
(* A client reads the whole events table page by page through ListEvents,  *)
(* LIMIT and OFFSET over ORDER BY created_at DESC, while other clients     *)
(* insert.  Every page is a statement with a snapshot of its own: a row    *)
(* that commits between two of them pushes the older rows along, and it    *)
(* need not be the newest, since it took its created_at when its INSERT    *)
(* began.  Rows of the same created_at come in any order, another one in   *)
(* every statement: the ORDER BY has no tiebreaker.                        *)
(*                                                                         *)
(* The client asks for the rows after those it has received, and is done   *)
(* when it receives none.                                                  *)
(***************************************************************************)
EXTENDS EventTable, Integers

CONSTANTS
  Requested,    \* limits a client asks for
  DefaultLimit  \* of the handler, for a limit that is not positive: 20

ASSUME PagingAssumption ==
  Requested \subseteq Int /\ DefaultLimit \in Nat \ {0}

VARIABLES
  offset,   \* rows received so far
  seen,     \* events received
  done,     \* an empty page has been received
  first,    \* history: the rows of the table when the first page was read
  repeats,  \* history: rows received again, alone at their created_at
  shuffled, \* history: rows received again that were not
  arrivals  \* history: commits between the first page and the last so far

pagerVars == <<offset, seen, done, first, repeats, shuffled, arrivals>>
vars == <<tableVars, pagerVars>>

TypeOK ==
  /\ TableTypeOK
  /\ offset \in Nat /\ repeats \in Nat /\ shuffled \in Nat /\ arrivals \in Nat
  /\ done \in BOOLEAN
  /\ seen \subseteq Committed /\ first \subseteq Committed
  /\ offset = Cardinality(seen) + repeats + shuffled

Init ==
  /\ TableInit
  /\ offset = 0 /\ seen = {} /\ done = FALSE
  /\ first = {} /\ repeats = 0 /\ shuffled = 0 /\ arrivals = 0

-----------------------------------------------------------------------------
(* The handler's limit.                                                    *)
Limit(requested) == IF requested <= 0 THEN DefaultLimit ELSE requested

Least(m, n) == IF m < n THEN m ELSE n

(* top: n newest of the rows, or all of them; which of several rows of the *)
(* same created_at is anyone's guess.                                      *)
Newest(top, n, rows) ==
  /\ top \subseteq rows
  /\ Cardinality(top) = Least(n, Cardinality(rows))
  /\ \A e \in top, f \in rows \ top : createdAt[e] >= createdAt[f]

(* Mutant: OFFSET counts pages.                                            *)
SkipsPages(page, limit, skip) ==
  \E skipped \in SUBSET Committed :
    /\ Newest(skipped, limit * skip, Committed)
    /\ page \subseteq Committed \ skipped
    /\ Newest(page, limit, Committed \ skipped)

(* Mutant: ORDER BY left out; any rows will do.                            *)
Unordered(page, limit, skip) ==
  /\ page \subseteq Committed
  /\ Cardinality(page) = IF Cardinality(Committed) <= skip THEN 0
                         ELSE Least(limit, Cardinality(Committed) - skip)

(* Mutant: sees rows whose INSERT has not committed.                       *)
DirtyRead(page, limit, skip) ==
  LET rows == {e \in Event : status[e] # "absent"} IN
  \E skipped \in SUBSET rows :
    /\ Newest(skipped, skip, rows)
    /\ page \subseteq rows \ skipped
    /\ Newest(page, limit, rows \ skipped)

(* ORDER BY created_at DESC LIMIT limit OFFSET skip, in this snapshot.     *)
ListEvents(page, limit, skip) ==
  \E skipped \in SUBSET Committed :
    /\ Newest(skipped, skip, Committed)
    /\ page \subseteq Committed \ skipped
    /\ Newest(page, limit, Committed \ skipped)

-----------------------------------------------------------------------------
(* The rows no other row ties with.                                        *)
Alone == {e \in Committed : \A f \in Committed \ {e} : createdAt[f] # createdAt[e]}

(* The client reads its next page.                                         *)
ReadPage(page, requested) ==
  /\ ~done
  /\ ListEvents(page, Limit(requested), offset)
  /\ done' = (page = {})
  /\ offset' = offset + Cardinality(page)
  /\ seen' = seen \cup page
  /\ repeats' = repeats + Cardinality(page \cap seen \cap Alone)
  /\ shuffled' = shuffled + Cardinality((page \cap seen) \ Alone)
  /\ first' = IF offset = 0 THEN Committed ELSE first
  /\ UNCHANGED <<tableVars, arrivals>>

BeginCreateEvent(e) ==
  /\ CreateEventBegin(e)
  /\ UNCHANGED pagerVars

CommitCreateEvent(e) ==
  /\ CreateEventCommit(e)
  /\ arrivals' = IF offset > 0 /\ ~done THEN arrivals + 1 ELSE arrivals
  /\ UNCHANGED <<offset, seen, done, first, repeats, shuffled>>

(* The poller, and clients, write statuses meanwhile.                      *)
WriteStatus(e, s) ==
  /\ e \in Committed
  /\ SetStatus(e, s)
  /\ UNCHANGED pagerVars

Next ==
  \/ \E page \in SUBSET Event, requested \in Requested : ReadPage(page, requested)
  \/ \E e \in Event :
       \/ BeginCreateEvent(e) \/ CommitCreateEvent(e)
       \/ \E s \in ClientStatuses : WriteStatus(e, s)

Spec == Init /\ [][Next]_vars

-----------------------------------------------------------------------------
(* A client that has read to the end has received every row that was there *)
(* when it began, except such as tie with another: inserts push rows to    *)
(* later pages only, whenever they commit and wherever their created_at    *)
(* puts them (events.sql.go:82).  Tied rows may change places between two  *)
(* pages, so that one comes twice and the other never.                     *)
NothingMissed == done => first \cap Alone \subseteq seen

(* What it pays for that are repeats: a row that ties with no other is     *)
(* received again only for a row inserted while the client was reading.    *)
RepeatsBounded == repeats <= arrivals

(* A client can tell: for every row it has missed it has received one row  *)
(* twice, so if all it received are different, none is missing.            *)
MissesShow == done => Cardinality(first \ seen) <= repeats + shuffled

=============================================================================
