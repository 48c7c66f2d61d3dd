----------------------------- MODULE BootProofs -----------------------------
(***************************************************************************)
(* Proofs about Boot, for any number of attempts, any pause and any        *)
(* timeout that leaves room for all the pauses, and about its migrations,  *)
(* for any number of runs.                                                 *)
(***************************************************************************)
EXTENDS Boot, TLAPS

(* The part of TypeOK the waiting is about.                                *)
WaitTypeOK ==
  /\ now \in Nat /\ changed \in Nat
  /\ db \in {"accepts", "refuses", "hangs"}
  /\ main \in {"config", "exit1"} \cup Waiting \cup Connected
  /\ attempt \in 0..(MAX_RETRIES - 1) /\ until \in Nat
  /\ hung \in BOOLEAN /\ pools \in Nat

(* Pools come and go with the attempts, and time stops when the context or *)
(* a pause is over.                                                        *)
PoolInv ==
  /\ WaitTypeOK
  /\ main = "config" => now = 0 /\ pools = 0 /\ attempt = 0
  /\ main = "attempt" => pools = IF Parsable THEN 1 ELSE 0
  /\ WaitBounded

(* A pause ends in time, and behind every attempt there are its pauses.    *)
PauseInv ==
  /\ main = "attempt" => now >= Pause * attempt
  /\ main = "pause" =>
       /\ now <= until /\ until <= now + Pause
       /\ until >= Pause * (attempt + 1)
       /\ AttemptsLeft

(* A database that accepts began to do so less than a pause ago, unless    *)
(* the attempt hung, or the context was over when the pause began.         *)
RecentInv ==
  /\ main \in Waiting /\ Parsable /\ ~hung /\ db = "accepts" => now <= changed + Pause
  /\ main = "pause" /\ Parsable /\ db = "accepts" =>
       until <= changed + Pause \/ (until > now /\ now >= Timeout)

WaitInv == PoolInv /\ PauseInv /\ RecentInv

-----------------------------------------------------------------------------
LEMMA OneMorePause ==
  ASSUME NEW p \in Nat, NEW a \in Nat
  PROVE  p * (a + 1) = p * a + p
BY SMT

(* Steps that leave the waiting alone.                                     *)
LEMMA WaitStutters ==
  ASSUME WaitInv, UNCHANGED <<timeVars, main, waitVars>>
  PROVE  WaitInv'
BY DEF WaitInv, PoolInv, PauseInv, RecentInv, WaitTypeOK, WaitBounded, Parsable,
       AttemptsLeft, timeVars, waitVars

LEMMA WaitInit == Init => WaitInv
<1> SUFFICES ASSUME Init PROVE WaitInv
  OBVIOUS
<1>h. hung \in BOOLEAN
  BY Zenon DEF Init
<1>t. WaitTypeOK
  BY <1>h, BootAssumption DEF Init, WaitTypeOK
<1>1. PoolInv
  BY <1>t, BootAssumption DEF Init, PoolInv, WaitBounded, Waiting, Connected
<1>2. main = "config"
  BY DEF Init
<1>3. PauseInv
  BY <1>2 DEF PauseInv
<1>4. RecentInv
  BY <1>2 DEF RecentInv, Waiting
<1> QED
  BY <1>1, <1>3, <1>4 DEF WaitInv

LEMMA WaitStep == WaitInv /\ [Next]_vars => WaitInv'
<1> SUFFICES ASSUME WaitInv, [Next]_vars PROVE WaitInv'
  OBVIOUS
<1>a. MAX_RETRIES \in Nat \ {0} /\ Timeout \in Nat /\ Pause \in Nat \ {0}
  BY BootAssumption
<1> USE <1>a
<1>p. /\ Pause * attempt \in Nat
      /\ Pause * (attempt + 1) = Pause * attempt + Pause
  BY OneMorePause DEF WaitInv, PoolInv, WaitTypeOK
<1>1. CASE Load
  <2>1. PoolInv'
    BY <1>1 DEF Load, WaitInv, PoolInv, WaitTypeOK, WaitBounded, Parsable, Waiting,
         Connected, timeVars
  <2>2. PauseInv' /\ RecentInv'
    BY <1>1 DEF Load, WaitInv, PoolInv, PauseInv, RecentInv, WaitTypeOK, Waiting,
         timeVars
  <2> QED
    BY <2>1, <2>2 DEF WaitInv
<1>2. CASE AttemptHangs
  <2>1. PoolInv' /\ PauseInv'
    BY <1>2 DEF AttemptHangs, WaitInv, PoolInv, PauseInv, WaitTypeOK, WaitBounded,
         Parsable, AttemptsLeft, Waiting, Connected, timeVars
  <2>2. RecentInv'
    BY <1>2 DEF AttemptHangs, RecentInv, Waiting, timeVars
  <2> QED
    BY <2>1, <2>2 DEF WaitInv
<1>3. CASE AttemptSucceeds
  <2>1. PoolInv' /\ PauseInv' /\ RecentInv'
    BY <1>3 DEF AttemptSucceeds, WaitInv, PoolInv, PauseInv, RecentInv, WaitTypeOK,
         WaitBounded, Parsable, Waiting, Connected, timeVars
  <2> QED
    BY <2>1 DEF WaitInv
<1>4. CASE AttemptFails
  <2>1. PoolInv'
    BY <1>4 DEF AttemptFails, PoolClosed, WaitInv, PoolInv, WaitTypeOK, WaitBounded,
         Parsable, Waiting, Connected, timeVars
  <2>2. PauseInv'
    BY <1>4, <1>p DEF AttemptFails, AttemptsLeft, WaitInv, PoolInv, PauseInv, WaitTypeOK,
         timeVars
  <2>3. RecentInv'
    BY <1>4 DEF AttemptFails, WaitInv, PoolInv, RecentInv, WaitTypeOK, Parsable,
         Expired, Waiting, timeVars
  <2> QED
    BY <2>1, <2>2, <2>3 DEF WaitInv
<1>5. CASE PauseOver
  <2>1. AttemptsLeft /\ attempt' = attempt + 1
    BY <1>5 DEF PauseOver, WaitInv, PauseInv
  <2>h. hung' \in BOOLEAN
    BY <1>5, Zenon DEF PauseOver
  <2>t. WaitTypeOK'
    BY <1>5, <2>1, <2>h DEF PauseOver, AttemptsLeft, WaitInv, PoolInv, WaitTypeOK, WaitBounded,
         Waiting, timeVars
  <2>4. PoolInv'
    BY <1>5, <2>t DEF PauseOver, WaitInv, PoolInv, WaitTypeOK, WaitBounded,
         Parsable, Waiting, Connected, timeVars
  <2>2. PauseInv'
    BY <1>5, <1>p DEF PauseOver, WaitInv, PoolInv, PauseInv, WaitTypeOK, timeVars
  <2>3. RecentInv'
    BY <1>5 DEF PauseOver, WaitInv, PoolInv, PauseInv, RecentInv, WaitTypeOK,
         Parsable, Waiting, timeVars
  <2> QED
    BY <2>4, <2>2, <2>3 DEF WaitInv
<1>6. CASE ContextDone
  <2>1. PoolInv' /\ PauseInv' /\ RecentInv'
    BY <1>6 DEF ContextDone, WaitInv, PoolInv, PauseInv, RecentInv, WaitTypeOK,
         WaitBounded, Parsable, Waiting, Connected, timeVars, waitVars
  <2> QED
    BY <2>1 DEF WaitInv
<1>7. CASE NewRedpandaPublisher \/ NewPGListener \/ Serve \/ StartOutbox
  <2>1. /\ main \in Connected /\ main' \in Connected \cup {"exit1"}
        /\ main' # "config" /\ main' \notin Waiting
        /\ UNCHANGED <<timeVars, waitVars>>
    BY <1>7 DEF NewRedpandaPublisher, NewPGListener, Serve, StartOutbox, Goto,
         Connected, Waiting
  <2> QED
    BY <2>1 DEF WaitInv, PoolInv, PauseInv, RecentInv, WaitTypeOK, WaitBounded,
         Waiting, timeVars, waitVars
<1>8. CASE \/ Scan \/ LockRows \/ MigrationStep
           \/ \E e \in Event : \/ HandleNotification(e) \/ CreateEvent(e)
                               \/ UpdateEventStatus(e)
  <2>1. UNCHANGED <<timeVars, main, waitVars>>
    BY <1>8 DEF Scan, LockRows, MigrationStep, HandleNotification, CreateEvent,
         UpdateEventStatus
  <2> QED
    BY <2>1, WaitStutters
<1>9. CASE DatabaseChanges
  <2>1. PoolInv' /\ PauseInv'
    BY <1>9 DEF DatabaseChanges, WaitInv, PoolInv, PauseInv, WaitTypeOK, WaitBounded,
         Parsable, AttemptsLeft, waitVars
  <2>2. RecentInv'
    BY <1>9 DEF DatabaseChanges, WaitInv, PoolInv, PauseInv, RecentInv, WaitTypeOK,
         Parsable, waitVars
  <2> QED
    BY <2>1, <2>2 DEF WaitInv
<1>10. CASE Tick
  <2>1. PoolInv'
    BY <1>10 DEF Tick, Due, Cut, Expired, WaitInv, PoolInv, WaitTypeOK, WaitBounded,
         Parsable, Waiting, Connected, waitVars
  <2>2. PauseInv'
    BY <1>10, <1>p DEF Tick, Due, WaitInv, PoolInv, PauseInv, WaitTypeOK, AttemptsLeft,
         Waiting, waitVars
  <2>3. RecentInv'
    BY <1>10 DEF Tick, Due, Cut, Expired, WaitInv, PoolInv, PauseInv, RecentInv,
         WaitTypeOK, Parsable, Waiting, waitVars
  <2> QED
    BY <2>1, <2>2, <2>3 DEF WaitInv
<1>11. CASE UNCHANGED vars
  BY <1>11, WaitStutters DEF vars
<1> QED
  BY <1>1, <1>2, <1>3, <1>4, <1>5, <1>6, <1>7, <1>8, <1>9, <1>10, <1>11 DEF Next

LEMMA WaitHolds == Spec => []WaitInv
<1> QED
  BY WaitInit, WaitStep, PTL DEF Spec

(* The wait for the database ends with main's context, whatever refuses or *)
(* hangs, and leaves one pool if it succeeds and none if it pauses.        *)
THEOREM WaitEnds == Spec => []WaitBounded
<1>1. WaitInv => WaitBounded
  BY DEF WaitInv, PoolInv
<1> QED
  BY <1>1, WaitHolds, PTL

-----------------------------------------------------------------------------
(* The server gives up on a database it can address only after all pauses, *)
(* and never on one that has been accepting for longer than a pause, but   *)
(* for an attempt that hung.                                               *)
THEOREM FairChance == Spec => GivesUpInVain
<1>1. ASSUME WaitInv, Next, main' = "exit1", main \in Waiting, Parsable
      PROVE  /\ now >= Pause * (MAX_RETRIES - 1)
             /\ db = "accepts" => hung \/ now <= changed + Pause
  <2>1. AttemptFails \/ ContextDone
    BY <1>1 DEF Next, Load, AttemptHangs, AttemptSucceeds, PauseOver,
         NewRedpandaPublisher, NewPGListener, Serve, StartOutbox, Goto, Scan,
         HandleNotification, CreateEvent, UpdateEventStatus,
         LockRows, DatabaseChanges, MigrationStep, Tick, Waiting
  <2>2. now >= Pause * (MAX_RETRIES - 1)
    <3>1. CASE AttemptFails
      <4>1. main = "attempt" /\ ~AttemptsLeft
        BY <3>1, <1>1 DEF AttemptFails
      <4>2. attempt = MAX_RETRIES - 1
        BY <4>1, <1>1, BootAssumption DEF AttemptsLeft, WaitInv, PoolInv, WaitTypeOK
      <4> QED
        BY <4>1, <4>2, <1>1 DEF WaitInv, PauseInv
    <3>2. CASE ContextDone
      <4>1. now >= Timeout
        BY <3>2 DEF ContextDone, Cut, Expired
      <4>2. Pause * (MAX_RETRIES - 1) <= Timeout /\ Pause * (MAX_RETRIES - 1) \in Int
        BY BootAssumption
      <4> QED
        BY <4>1, <4>2, <1>1, BootAssumption DEF WaitInv, PoolInv, WaitTypeOK
    <3> QED
      BY <2>1, <3>1, <3>2
  <2>3. db = "accepts" => hung \/ now <= changed + Pause
    BY <1>1 DEF WaitInv, RecentInv
  <2> QED
    BY <2>2, <2>3
<1>2. WaitInv /\ [Next]_vars
        => [main' = "exit1" /\ main \in Waiting /\ Parsable =>
              /\ now >= Pause * (MAX_RETRIES - 1)
              /\ db = "accepts" => hung \/ now <= changed + Pause]_vars
  BY <1>1
<1> QED
  BY <1>2, WaitHolds, PTL DEF Spec, GivesUpInVain

-----------------------------------------------------------------------------
(* Once the poller has scanned, no pending event is missed but those the   *)
(* scan left out (LIMIT, row locks, a failed query) and those that became  *)
(* pending after it unannounced.                                           *)
THEOREM NoGap == Spec => []NoGapAtStart
<1>1. Init => NoGapAtStart
  BY DEF Init, NoGapAtStart
<1>2. NoGapAtStart /\ [Next]_vars => NoGapAtStart'
  <2> SUFFICES ASSUME NoGapAtStart, [Next]_vars PROVE NoGapAtStart'
    OBVIOUS
  <2> USE DEF rowVars
  <2>1. CASE UNCHANGED <<poller, pending, noticed, queue, stranded>>
    BY <2>1 DEF NoGapAtStart
  <2>2. CASE StartOutbox
    BY <2>2 DEF StartOutbox, NoGapAtStart
  <2>3. CASE Scan
    BY <2>3 DEF Scan, NoGapAtStart
  <2>4. ASSUME NEW e \in Event, HandleNotification(e) PROVE NoGapAtStart'
    BY <2>4 DEF HandleNotification, NoGapAtStart
  <2>5. ASSUME NEW e \in Event, CreateEvent(e) PROVE NoGapAtStart'
    BY <2>5 DEF CreateEvent, Unannounced, Subscribed, NoGapAtStart
  <2>6. ASSUME NEW e \in Event, UpdateEventStatus(e) PROVE NoGapAtStart'
    BY <2>6 DEF UpdateEventStatus, Unannounced, NoGapAtStart
  <2> QED
    BY <2>1, <2>2, <2>3, <2>4, <2>5, <2>6 DEF Next, Load, AttemptHangs, AttemptSucceeds,
         AttemptFails, PauseOver, ContextDone, NewRedpandaPublisher, NewPGListener,
         Serve, LockRows, DatabaseChanges, MigrationStep, Tick, eventVars, vars
<1> QED
  BY <1>1, <1>2, PTL DEF Spec

-----------------------------------------------------------------------------
(* The migrations.  What the Up part of a file of one statement is, and of *)
(* two.                                                                    *)
LEMMA OneStatement ==
  ASSUME NEW f, NEW n \in Nat, n >= 4, DOMAIN f = 1..n,
         f[1].mark = "Up", f[2].mark = "sql",
         f[3].mark = "blank", f[4].mark = "Down"
  PROVE  extractGooseUp(f) = {2}
<1>1. ASSUME NEW i \in extractGooseUp(f) PROVE i = 2
  <2>1. i \in 1..n /\ f[i].mark = "sql"
    BY <1>1 DEF extractGooseUp
  <2>2. ~(4 < i)
    <3>1. \A j \in 1..(i - 1) : f[j].mark # "Down"
      BY <1>1 DEF extractGooseUp, Down
    <3> QED BY <2>1, <3>1
  <2>3. i # 1 /\ i # 3 /\ i # 4
    BY <2>1
  <2> QED BY <2>1, <2>2, <2>3
<1>2. 2 \in extractGooseUp(f)
  BY DEF extractGooseUp, Up, Down
<1> QED BY <1>1, <1>2

LEMMA TwoStatements ==
  ASSUME NEW f, NEW n \in Nat, n >= 6, DOMAIN f = 1..n,
         f[1].mark = "Up", f[2].mark = "sql", f[3].mark = "blank",
         f[4].mark = "sql", f[5].mark = "blank", f[6].mark = "Down"
  PROVE  extractGooseUp(f) = {2, 4}
<1>1. ASSUME NEW i \in extractGooseUp(f) PROVE i = 2 \/ i = 4
  <2>1. i \in 1..n /\ f[i].mark = "sql"
    BY <1>1 DEF extractGooseUp
  <2>2. ~(6 < i)
    <3>1. \A j \in 1..(i - 1) : f[j].mark # "Down"
      BY <1>1 DEF extractGooseUp, Down
    <3> QED BY <2>1, <3>1
  <2>3. i # 1 /\ i # 3 /\ i # 5 /\ i # 6
    BY <2>1
  <2> QED BY <2>1, <2>2, <2>3
<1>2. 2 \in extractGooseUp(f)
  BY DEF extractGooseUp, Up, Down
<1>3. 4 \in extractGooseUp(f)
  <2>1. 4 \in 1..n /\ 1 \in 1..(4 - 1) /\ \A j \in 1..(4 - 1) : j \in {1, 2, 3}
    OBVIOUS
  <2> QED BY <2>1 DEF extractGooseUp, Up, Down
<1> QED BY <1>1, <1>2, <1>3

LEMMA OneCreate ==
  ASSUME NEW o, NEW needs, NEW drop
  PROVE  LET file == <<Up, Create(o, needs), Blank, Down, drop>> IN
         /\ extractGooseUp(file) = {2} /\ Len(file) = 5
         /\ file[2].object = o /\ file[2].creates /\ file[2].lacks = {o}
<1> DEFINE file == <<Up, Create(o, needs), Blank, Down, drop>>
<1>1. /\ DOMAIN file = 1..5 /\ Len(file) = 5
      /\ file[1] = Up /\ file[2] = Create(o, needs) /\ file[3] = Blank
      /\ file[4] = Down
  OBVIOUS
<1> HIDE DEF file
<1>2. /\ Up.mark = "Up" /\ Blank.mark = "blank"
      /\ Down.mark = "Down"
  BY DEF Up, Blank, Down
<1>3. /\ Create(o, needs).mark = "sql" /\ Create(o, needs).object = o
      /\ Create(o, needs).creates /\ Create(o, needs).lacks = {o}
  BY DEF Create
<1>4. extractGooseUp(file) = {2}
  <2>1. /\ file[1].mark = "Up" /\ file[2].mark = "sql"
        /\ file[3].mark = "blank" /\ file[4].mark = "Down"
    BY <1>1, <1>2, <1>3
  <2>2. 5 \in Nat /\ 5 >= 4
    OBVIOUS
  <2> QED BY <1>1, <2>1, <2>2, OneStatement, Zenon
<1> QED BY <1>1, <1>3, <1>4 DEF file

LEMMA EnumFile ==
  LET file == add_event_status_enum IN
  /\ extractGooseUp(file) = {2, 4} /\ Len(file) = 9
  /\ file[2].object = "event_status" /\ file[2].creates
  /\ file[4].object = "events.status" /\ file[4].creates
<1> DEFINE file == add_event_status_enum
           one == Create("event_status", {})
           two == Create("events.status", {"events", "event_status"})
<1>1. /\ DOMAIN file = 1..9 /\ Len(file) = 9
      /\ file[1] = Up /\ file[2] = one /\ file[3] = Blank
      /\ file[4] = two /\ file[5] = Blank /\ file[6] = Down
  BY DEF add_event_status_enum
<1>2. /\ Up.mark = "Up" /\ Blank.mark = "blank"
      /\ Down.mark = "Down"
  BY DEF Up, Blank, Down
<1>3. /\ one.mark = "sql" /\ one.object = "event_status" /\ one.creates
      /\ two.mark = "sql" /\ two.object = "events.status" /\ two.creates
  BY DEF Create
<1> HIDE DEF file, one, two
<1>4. extractGooseUp(file) = {2, 4}
  <2>1. /\ file[1].mark = "Up" /\ file[2].mark = "sql"
        /\ file[3].mark = "blank" /\ file[4].mark = "sql"
        /\ file[5].mark = "blank" /\ file[6].mark = "Down"
    BY <1>1, <1>2, <1>3
  <2>2. 9 \in Nat /\ 9 >= 6
    OBVIOUS
  <2> QED BY <1>1, <2>1, <2>2, TwoStatements, Zenon
<1> QED BY <1>1, <1>3, <1>4 DEF file

LEMMA TriggerFile ==
  LET file == add_events_notify_trigger IN
  /\ extractGooseUp(file) = {2, 4} /\ Len(file) = 8
  /\ file[2].object = "notify_event_insert" /\ file[2].creates
  /\ file[4].object = "event_insert_notification" /\ file[4].creates
<1> DEFINE file == add_events_notify_trigger
           one == CreateOrReplace("notify_event_insert")
           two == Create("event_insert_notification",
                         {"events", "notify_event_insert"})
<1>1. /\ DOMAIN file = 1..8 /\ Len(file) = 8
      /\ file[1] = Up /\ file[2] = one /\ file[3] = Blank
      /\ file[4] = two /\ file[5] = Blank /\ file[6] = Down
  BY DEF add_events_notify_trigger
<1>2. /\ Up.mark = "Up" /\ Blank.mark = "blank"
      /\ Down.mark = "Down"
  BY DEF Up, Blank, Down
<1>3. /\ one.mark = "sql" /\ one.object = "notify_event_insert" /\ one.creates
      /\ two.mark = "sql" /\ two.object = "event_insert_notification"
      /\ two.creates
  BY DEF Create, CreateOrReplace
<1> HIDE DEF file, one, two
<1>4. extractGooseUp(file) = {2, 4}
  <2>1. /\ file[1].mark = "Up" /\ file[2].mark = "sql"
        /\ file[3].mark = "blank" /\ file[4].mark = "sql"
        /\ file[5].mark = "blank" /\ file[6].mark = "Down"
    BY <1>1, <1>2, <1>3
  <2>2. 8 \in Nat /\ 8 >= 6
    OBVIOUS
  <2> QED BY <1>1, <2>1, <2>2, TwoStatements, Zenon
<1> QED BY <1>1, <1>3, <1>4 DEF file

(* A batch that creates one object, or two, adds them to the schema.       *)
LEMMA BatchOfOne ==
  ASSUME NEW f, extractGooseUp(f) = {2}, Len(f) \in Nat, Len(f) >= 2,
         f[2].creates, f[2].object \in Object, schema \subseteq Object
  PROVE  /\ Creates(f) = {f[2].object}
         /\ Exec(f).schema = schema \cup Creates(f)
<1>1. Creates(f) = {f[2].object}
  BY DEF Creates
<1> DEFINE sent == {j \in extractGooseUp(f) : j < Len(f) + 1}
<1>2. sent = {2}
  OBVIOUS
<1>3. Before(schema, f, Len(f) + 1) =
        {o \in Object :
           \/ o \in schema /\ \A j \in sent : f[j].object # o
           \/ \E j \in sent : /\ f[j].object = o /\ f[j].creates
                              /\ \A k \in sent : k > j => f[k].object # o}
  BY DEF Before
<1>4. Before(schema, f, Len(f) + 1) = schema \cup {f[2].object}
  <2> HIDE DEF sent
  <2>1. \A k \in sent : ~(k > 2)
    BY <1>2
  <2>2. \A o : (\E j \in sent : /\ f[j].object = o /\ f[j].creates
                               /\ \A k \in sent : k > j => f[k].object # o)
               <=> o = f[2].object
    BY <1>2, <2>1, Zenon
  <2>3. \A o : (\A j \in sent : f[j].object # o) <=> o # f[2].object
    BY <1>2, Zenon
  <2>4. \A o : o \in Before(schema, f, Len(f) + 1) <=>
               o \in Object /\ ((o \in schema /\ (o # f[2].object)) \/ (o = f[2].object))
    BY <1>3, <2>2, <2>3, Zenon
  <2> QED BY <2>4
<1>5. Exec(f).schema = Before(schema, f, Len(f) + 1)
  BY DEF Exec
<1> QED BY <1>1, <1>4, <1>5

LEMMA BatchOfTwo ==
  ASSUME NEW f, extractGooseUp(f) = {2, 4}, Len(f) \in Nat, Len(f) >= 4,
         f[2].creates, f[2].object \in Object,
         f[4].creates, f[4].object \in Object,
         f[2].object # f[4].object, schema \subseteq Object
  PROVE  /\ Creates(f) = {f[2].object, f[4].object}
         /\ Exec(f).schema = schema \cup Creates(f)
<1>1. Creates(f) = {f[2].object, f[4].object}
  BY DEF Creates
<1> DEFINE sent == {j \in extractGooseUp(f) : j < Len(f) + 1}
<1>2. sent = {2, 4}
  OBVIOUS
<1>3. Before(schema, f, Len(f) + 1) =
        {o \in Object :
           \/ o \in schema /\ \A j \in sent : f[j].object # o
           \/ \E j \in sent : /\ f[j].object = o /\ f[j].creates
                              /\ \A k \in sent : k > j => f[k].object # o}
  BY DEF Before
<1>4. Before(schema, f, Len(f) + 1) = schema \cup {f[2].object, f[4].object}
  <2> HIDE DEF sent
  <2>1. \A k \in sent : (k > 2 => f[k].object # f[2].object) /\ ~(k > 4)
    BY <1>2
  <2>2. \A o : (\E j \in sent : /\ f[j].object = o /\ f[j].creates
                               /\ \A k \in sent : k > j => f[k].object # o)
               <=> o = f[2].object \/ o = f[4].object
    BY <1>2, <2>1, Zenon
  <2>3. \A o : (\A j \in sent : f[j].object # o)
               <=> o # f[2].object /\ o # f[4].object
    BY <1>2, Zenon
  <2>4. \A o : o \in Before(schema, f, Len(f) + 1) <=>
               o \in Object /\ ((o \in schema /\ (o # f[2].object /\ o # f[4].object)) \/ (o = f[2].object \/ o = f[4].object))
    BY <1>3, <2>2, <2>3, Zenon
  <2> QED BY <2>4
<1>5. Exec(f).schema = Before(schema, f, Len(f) + 1)
  BY DEF Exec
<1> QED BY <1>1, <1>4, <1>5

LEMMA FirstFileOnce ==
  ASSUME NEW f, extractGooseUp(f) = {2}, f[2].lacks = {f[2].object},
         schema \subseteq Object, f[2].object \in schema
  PROVE  ~Exec(f).ok
<1>1. f[2].object \in Before(schema, f, 2)
  BY DEF Before
<1> QED BY <1>1 DEF Exec

(* What the files create.                                                  *)
LEMMA FileBatches ==
  ASSUME schema \subseteq Object
  PROVE  /\ Len(Files) = 7
         /\ \A n \in 1..7 : Exec(Files[n]).schema = schema \cup Creates(Files[n])
         /\ Creates(Files[1]) = {"users"}
         /\ Creates(Files[2]) = {"products"}
         /\ Creates(Files[3]) = {"orders"}
         /\ Creates(Files[4]) = {"order_items"}
         /\ Creates(Files[5]) = {"events"}
         /\ Creates(Files[6]) = {"event_status", "events.status"}
         /\ Creates(Files[7]) = {"notify_event_insert", "event_insert_notification"}
         /\ "users" \in schema => ~Exec(Files[1]).ok
<1> DEFINE Adds(f) == Exec(f).schema = schema \cup Creates(f)
<1>o. /\ {"users", "products", "orders", "order_items", "events"} \subseteq Object
      /\ {"event_status", "events.status"} \subseteq Object
      /\ {"notify_event_insert", "event_insert_notification"} \subseteq Object
  BY DEF Object
<1>f. /\ Len(Files) = 7
      /\ Files[1] = add_users_table /\ Files[2] = add_products_table
      /\ Files[3] = add_orders_table /\ Files[4] = add_order_items_table
      /\ Files[5] = add_events_table /\ Files[6] = add_event_status_enum
      /\ Files[7] = add_events_notify_trigger
  BY DEF Files
<1>1. /\ Creates(add_users_table) = {"users"} /\ Adds(add_users_table)
      /\ "users" \in schema => ~Exec(add_users_table).ok
  <2>1. /\ extractGooseUp(add_users_table) = {2} /\ Len(add_users_table) = 5
        /\ add_users_table[2].object = "users" /\ add_users_table[2].creates
        /\ add_users_table[2].lacks = {"users"}
    BY OneCreate DEF add_users_table
  <2> QED BY <2>1, <1>o, BatchOfOne, FirstFileOnce
<1>2. Creates(add_products_table) = {"products"} /\ Adds(add_products_table)
  <2>1. /\ extractGooseUp(add_products_table) = {2} /\ Len(add_products_table) = 5
        /\ add_products_table[2].object = "products" /\ add_products_table[2].creates
    BY OneCreate DEF add_products_table
  <2> QED BY <2>1, <1>o, BatchOfOne
<1>3. Creates(add_orders_table) = {"orders"} /\ Adds(add_orders_table)
  <2>1. /\ extractGooseUp(add_orders_table) = {2} /\ Len(add_orders_table) = 5
        /\ add_orders_table[2].object = "orders" /\ add_orders_table[2].creates
    BY OneCreate DEF add_orders_table
  <2> QED BY <2>1, <1>o, BatchOfOne
<1>4. /\ Creates(add_order_items_table) = {"order_items"}
      /\ Adds(add_order_items_table)
  <2>1. /\ extractGooseUp(add_order_items_table) = {2}
        /\ Len(add_order_items_table) = 5
        /\ add_order_items_table[2].object = "order_items"
        /\ add_order_items_table[2].creates
    BY OneCreate DEF add_order_items_table
  <2> QED BY <2>1, <1>o, BatchOfOne
<1>5. Creates(add_events_table) = {"events"} /\ Adds(add_events_table)
  <2>1. /\ extractGooseUp(add_events_table) = {2} /\ Len(add_events_table) = 5
        /\ add_events_table[2].object = "events" /\ add_events_table[2].creates
    BY OneCreate DEF add_events_table
  <2> QED BY <2>1, <1>o, BatchOfOne
<1>6. /\ Creates(add_event_status_enum) = {"event_status", "events.status"}
      /\ Adds(add_event_status_enum)
  <2> DEFINE f == add_event_status_enum
  <2>1. /\ extractGooseUp(f) = {2, 4} /\ Len(f) \in Nat /\ Len(f) >= 4
        /\ f[2].object = "event_status" /\ f[2].creates
        /\ f[4].object = "events.status" /\ f[4].creates
    BY EnumFile
  <2>2. /\ f[2].object \in Object /\ f[4].object \in Object
        /\ f[2].object # f[4].object
    BY <2>1, <1>o
  <2> HIDE DEF f
  <2>3. /\ Creates(f) = {f[2].object, f[4].object}
        /\ Exec(f).schema = schema \cup Creates(f)
    BY <2>1, <2>2, BatchOfTwo, Zenon
  <2> QED BY <2>1, <2>3 DEF f
<1>7. /\ Creates(add_events_notify_trigger)
           = {"notify_event_insert", "event_insert_notification"}
      /\ Adds(add_events_notify_trigger)
  <2> DEFINE f == add_events_notify_trigger
  <2>1. /\ extractGooseUp(f) = {2, 4} /\ Len(f) \in Nat /\ Len(f) >= 4
        /\ f[2].object = "notify_event_insert" /\ f[2].creates
        /\ f[4].object = "event_insert_notification" /\ f[4].creates
    BY TriggerFile
  <2>2. /\ f[2].object \in Object /\ f[4].object \in Object
        /\ f[2].object # f[4].object
    BY <2>1, <1>o
  <2> HIDE DEF f
  <2>3. /\ Creates(f) = {f[2].object, f[4].object}
        /\ Exec(f).schema = schema \cup Creates(f)
    BY <2>1, <2>2, BatchOfTwo, Zenon
  <2> QED BY <2>1, <2>3 DEF f
<1>8. \A n \in 1..7 : Adds(Files[n])
  <2> SUFFICES ASSUME NEW n \in 1..7 PROVE Adds(Files[n])
    OBVIOUS
  <2>1. n \in {1, 2, 3, 4, 5, 6, 7}
    OBVIOUS
  <2> HIDE DEF Adds
  <2> QED BY <2>1, <1>f, <1>1, <1>2, <1>3, <1>4, <1>5, <1>6, <1>7
<1> QED BY <1>8, <1>f, <1>1, <1>2, <1>3, <1>4, <1>5, <1>6, <1>7

(* The objects of the first n files.                                       *)
Made(n) == UNION {Creates(Files[i]) : i \in 1..n}

LEMMA MadeByFiles ==
  ASSUME schema \subseteq Object
  PROVE  /\ Made(0) = {} /\ Made(7) = Object
         /\ \A n \in 1..7 : /\ Made(n) = Made(n - 1) \cup Creates(Files[n])
                            /\ "users" \in Made(n)
                            /\ Made(n) \subseteq Object
<1>1. Made(0) = {}
  BY DEF Made
<1>2. \A n \in 1..7 : Made(n) = Made(n - 1) \cup Creates(Files[n])
  <2> SUFFICES ASSUME NEW n \in 1..7
               PROVE  Made(n) = Made(n - 1) \cup Creates(Files[n])
    OBVIOUS
  <2>1. \A i : i \in 1..n <=> i \in 1..(n - 1) \/ i = n
    OBVIOUS
  <2> QED BY <2>1, Zenon DEF Made
<1>3. \A n \in 1..7 : \A i \in 1..n : Creates(Files[i]) \subseteq Made(n)
  BY DEF Made
<1>4. \A i \in 1..7 : Creates(Files[i]) \subseteq Object
  <2> SUFFICES ASSUME NEW i \in 1..7 PROVE Creates(Files[i]) \subseteq Object
    OBVIOUS
  <2>1. i \in {1, 2, 3, 4, 5, 6, 7}
    OBVIOUS
  <2> QED BY <2>1, FileBatches DEF Object
<1>5. \A n \in 1..7 : Made(n) \subseteq Object
  BY <1>4 DEF Made
<1>6. \A n \in 1..7 : "users" \in Made(n)
  <2>1. \A n \in 1..7 : 1 \in 1..n
    OBVIOUS
  <2> QED BY <2>1, <1>3, FileBatches
<1>7. Object \subseteq Made(7)
  <2>1. \A i \in {1, 2, 3, 4, 5, 6, 7} : Creates(Files[i]) \subseteq Made(7)
    BY <1>3
  <2> QED BY <2>1, FileBatches DEF Object
<1> QED BY <1>1, <1>2, <1>5, <1>6, <1>7

-----------------------------------------------------------------------------
(* How far a run has come: nowhere, or it is the one that made the schema. *)
MadeNothing(r) == author[r] = {} /\ next[r] = 1 /\ outcome[r] # "ok"

MadeSchema(r) ==
  /\ author[r] # {} /\ schema = author[r] /\ "users" \in schema
  /\ \/ outcome[r] = "running" /\ author[r] = Made(next[r] - 1)
     \/ outcome[r] = "failed" /\ author[r] \in {Made(next[r] - 1), Made(next[r])}
     \/ outcome[r] = "ok" /\ author[r] = Object

MigrationsInv ==
  /\ MigrationsTypeOK
  /\ \A r \in Run : MadeNothing(r) \/ MadeSchema(r)
  /\ \A q, r \in Run : author[q] # {} /\ author[r] # {} => q = r
  /\ schema # {} => \E r \in Run : author[r] # {}

(* A batch that is committed is that of the run whose schema it is.        *)
LEMMA Committed ==
  ASSUME MigrationsInv, NEW r \in Run, outcome[r] = "running",
         Exec(Files[next[r]]).ok, Becomes(r, Exec(Files[next[r]]).schema)
  PROVE  /\ \A q \in Run : author[q] # {} => q = r
         /\ schema' = Made(next[r]) /\ "users" \in schema' /\ schema' \subseteq Object
         /\ author' = [author EXCEPT ![r] = schema']
<1>t. /\ schema \subseteq Object /\ next[r] \in 1..Len(Files) /\ Len(Files) = 7
      /\ author \in [Run -> SUBSET Object]
  BY FileBatches DEF MigrationsInv, MigrationsTypeOK
<1>1. schema = author[r] /\ author[r] = Made(next[r] - 1)
  <2>1. CASE MadeSchema(r)
    BY <2>1 DEF MadeSchema
  <2>2. CASE MadeNothing(r)
    <3>1. author[r] = {} /\ next[r] = 1
      BY <2>2 DEF MadeNothing
    <3>2. "users" \notin schema
      BY <3>1, <1>t, FileBatches
    <3>3. \A q \in Run : author[q] = {}
      BY <3>2 DEF MigrationsInv, MadeNothing, MadeSchema
    <3>4. schema = {}
      BY <3>3 DEF MigrationsInv
    <3>5. Made(next[r] - 1) = {}
      BY <3>1, <1>t, MadeByFiles
    <3> QED BY <3>1, <3>4, <3>5
  <2> QED BY <2>1, <2>2 DEF MigrationsInv
<1>2. Exec(Files[next[r]]).schema = schema \cup Creates(Files[next[r]])
  BY <1>t, FileBatches
<1>3. /\ Made(next[r]) = Made(next[r] - 1) \cup Creates(Files[next[r]])
      /\ "users" \in Made(next[r]) /\ Made(next[r]) \subseteq Object
  BY <1>t, MadeByFiles
<1>4. schema' = Made(next[r])
  BY <1>1, <1>2, <1>3 DEF Becomes
<1>5. author' = [author EXCEPT ![r] = schema']
  BY <1>t, <1>1, <1>2 DEF Becomes
<1>6. ASSUME NEW q \in Run, author[q] # {} PROVE q = r
  <2>1. MadeSchema(q)
    BY <1>6 DEF MigrationsInv, MadeNothing
  <2>2. author[r] # {}
    BY <2>1, <1>1 DEF MadeSchema
  <2> QED BY <1>6, <2>2 DEF MigrationsInv
<1> QED BY <1>3, <1>4, <1>5, <1>6

LEMMA MigrationsInvInit == MigrationsInit => MigrationsInv
<1> SUFFICES ASSUME MigrationsInit PROVE MigrationsInv
  OBVIOUS
<1>1. Len(Files) = 7
  BY FileBatches DEF MigrationsInit
<1> QED
  BY <1>1 DEF MigrationsInit, MigrationsInv, MigrationsTypeOK, MadeNothing

(* A batch is committed, and its run goes on, has succeeded or fails.      *)
LEMMA BatchKept ==
  ASSUME MigrationsInv, NEW r \in Run, outcome[r] = "running",
         NEW result \in {"ok", "failed", "running"},
         outcome' = [outcome EXCEPT ![r] = result],
         NEW n \in 1..Len(Files), next' = [next EXCEPT ![r] = n],
         Exec(Files[next[r]]).ok, Becomes(r, Exec(Files[next[r]]).schema),
         \/ result = "running" /\ n = next[r] + 1
         \/ result = "failed" /\ n = next[r]
         \/ result = "ok" /\ n = next[r] /\ n = Len(Files)
  PROVE  MigrationsInv'
<1>1. /\ \A q \in Run : author[q] # {} => q = r
      /\ schema' = Made(next[r]) /\ "users" \in schema' /\ schema' \subseteq Object
      /\ author' = [author EXCEPT ![r] = schema']
  BY Committed
<1>t. /\ schema \subseteq Object /\ next[r] \in 1..Len(Files) /\ Len(Files) = 7
      /\ author \in [Run -> SUBSET Object]
      /\ next \in [Run -> 1..Len(Files)]
      /\ outcome \in [Run -> {"none", "running", "ok", "failed"}]
  BY FileBatches DEF MigrationsInv, MigrationsTypeOK
<1>2. MigrationsTypeOK'
  BY <1>1, <1>t DEF MigrationsTypeOK
<1>3. author'[r] = schema' /\ \A q \in Run \ {r} : author'[q] = author[q]
  BY <1>1, <1>t
<1>4. ASSUME NEW q \in Run \ {r} PROVE MadeNothing(q)'
  <2>1. MadeNothing(q)
    BY <1>1, <1>4 DEF MigrationsInv, MadeSchema
  <2>2. author'[q] = author[q] /\ next'[q] = next[q] /\ outcome'[q] = outcome[q]
    BY <1>3, <1>4, <1>t
  <2> QED BY <2>1, <2>2 DEF MadeNothing
<1>5. MadeSchema(r)'
  <2>1. outcome'[r] = result /\ next'[r] = n
    BY <1>t
  <2>2. Made(7) = Object
    BY <1>t, MadeByFiles
  <2>3. author'[r] = Made(next[r]) /\ author'[r] # {}
    BY <1>1, <1>3
  <2>4. result = "running" => next'[r] - 1 = next[r]
    BY <2>1, <1>t
  <2> QED BY <1>1, <1>3, <1>t, <2>1, <2>2, <2>3, <2>4 DEF MadeSchema
<1>6. \A p, q \in Run : author'[p] # {} /\ author'[q] # {} => p = q
  BY <1>4 DEF MadeNothing
<1>7. \E q \in Run : author'[q] # {}
  BY <1>1, <1>3
<1> QED BY <1>2, <1>4, <1>5, <1>6, <1>7 DEF MigrationsInv

(* A step that commits nothing, and leaves the work of its run where it is.*)
LEMMA NothingCommitted ==
  ASSUME MigrationsInv, UNCHANGED <<schema, next, author>>, NEW r \in Run,
         \/ outcome[r] = "none" /\ outcome' = [outcome EXCEPT ![r] = "running"]
         \/ outcome[r] = "running" /\ outcome' = [outcome EXCEPT ![r] = "failed"]
  PROVE  MigrationsInv'
<1>t. outcome \in [Run -> {"none", "running", "ok", "failed"}]
  BY DEF MigrationsInv, MigrationsTypeOK
<1>1. MigrationsTypeOK'
  BY <1>t DEF MigrationsInv, MigrationsTypeOK
<1>2. \A q \in Run \ {r} : outcome'[q] = outcome[q]
  BY <1>t
<1>3. \A q \in Run \ {r} : MadeNothing(q)' \/ MadeSchema(q)'
  BY <1>2 DEF MigrationsInv, MadeNothing, MadeSchema, Made, Creates
<1>4. MadeNothing(r)' \/ MadeSchema(r)'
  <2>1. CASE MadeNothing(r)
    BY <1>t, <2>1 DEF MadeNothing
  <2>2. CASE MadeSchema(r)
    <3>1. outcome[r] = "running" /\ outcome'[r] = "failed"
      BY <1>t, <2>2 DEF MadeSchema
    <3> QED BY <2>2, <3>1 DEF MadeSchema
  <2> QED BY <2>1, <2>2 DEF MigrationsInv
<1> QED BY <1>1, <1>3, <1>4 DEF MigrationsInv

LEMMA MigrationsInvStep == MigrationsInv /\ [MigrationsNext]_migrationVars => MigrationsInv'
<1> SUFFICES ASSUME MigrationsInv, [MigrationsNext]_migrationVars PROVE MigrationsInv'
  OBVIOUS
<1>t. \A r \in Run : next[r] \in 1..Len(Files)
  BY DEF MigrationsInv, MigrationsTypeOK
<1>n. next \in [Run -> 1..Len(Files)] /\ Len(Files) = 7
  BY FileBatches DEF MigrationsInv, MigrationsTypeOK
<1>o. outcome \in [Run -> {"none", "running", "ok", "failed"}]
  BY DEF MigrationsInv, MigrationsTypeOK
<1>1. CASE UNCHANGED migrationVars
  BY <1>1 DEF migrationVars, MigrationsInv, MigrationsTypeOK, MadeNothing, MadeSchema
<1>2. ASSUME NEW r \in Run, Begin(r) PROVE MigrationsInv'
  BY <1>2, NothingCommitted DEF Begin
<1>3. ASSUME NEW r \in Run, Migrate(r) PROVE MigrationsInv'
  <2>1. CASE ~Exec(Files[next[r]]).ok
    BY <1>3, <2>1, NothingCommitted DEF Migrate
  <2>2. CASE Exec(Files[next[r]]).ok /\ next[r] = Len(Files)
    <3>1. /\ outcome[r] = "running" /\ outcome' = [outcome EXCEPT ![r] = "ok"]
          /\ Becomes(r, Exec(Files[next[r]]).schema) /\ next' = next
      BY <1>3, <2>2 DEF Migrate
    <3>2. next' = [next EXCEPT ![r] = next[r]]
      BY <3>1, <1>n
    <3> QED BY <1>t, <2>2, <3>1, <3>2, BatchKept
  <2>3. CASE Exec(Files[next[r]]).ok /\ next[r] # Len(Files)
    <3>1. /\ outcome[r] = "running" /\ outcome' = outcome
          /\ Becomes(r, Exec(Files[next[r]]).schema)
          /\ next' = [next EXCEPT ![r] = next[r] + 1]
      BY <1>3, <2>3 DEF Migrate
    <3>2. outcome' = [outcome EXCEPT ![r] = "running"]
      BY <3>1, <1>o
    <3>3. next[r] + 1 \in 1..Len(Files)
      BY <1>t, <1>n, <2>3
    <3> QED BY <2>3, <3>1, <3>2, <3>3, BatchKept
  <2> QED BY <2>1, <2>2, <2>3
<1>4. ASSUME NEW r \in Run, Interrupted(r) PROVE MigrationsInv'
  <2>1. CASE UNCHANGED <<schema, author>>
    BY <1>4, <2>1, NothingCommitted DEF Interrupted
  <2>2. CASE /\ Exec(Files[next[r]]).ok
             /\ Becomes(r, Exec(Files[next[r]]).schema)
    <3>1. /\ outcome[r] = "running" /\ outcome' = [outcome EXCEPT ![r] = "failed"]
          /\ next' = [next EXCEPT ![r] = next[r]]
      BY <1>4, <1>n DEF Interrupted
    <3> QED BY <1>t, <2>2, <3>1, BatchKept
  <2> QED BY <1>4, <2>1, <2>2 DEF Interrupted
<1> QED BY <1>1, <1>2, <1>3, <1>4 DEF MigrationsNext

LEMMA MigrationsHold == Spec => []MigrationsInv
<1>1. Init => MigrationsInv
  BY MigrationsInvInit DEF Init
<1>2. [Next]_vars => [MigrationsNext]_migrationVars
  BY DEF Next, vars, MigrationStep, Load, AttemptHangs, AttemptSucceeds, AttemptFails,
       PauseOver, ContextDone, NewRedpandaPublisher, NewPGListener, Serve, StartOutbox,
       Scan, HandleNotification, CreateEvent, UpdateEventStatus, LockRows,
       DatabaseChanges, Tick
<1> QED BY <1>1, <1>2, MigrationsInvStep, PTL DEF Spec

(* However many runs overlap and wherever they are interrupted, no         *)
(* database is patched together from two of them, and success means the    *)
(* whole schema.                                                           *)
THEOREM OneRunMakesTheSchema == Spec => []SchemaOfOneRun
<1>1. MigrationsInv => SchemaOfOneRun
  <2> SUFFICES ASSUME MigrationsInv PROVE SchemaOfOneRun
    OBVIOUS
  <2>t. schema \subseteq Object /\ \A r \in Run : next[r] \in 1..7
    BY FileBatches DEF MigrationsInv, MigrationsTypeOK
  <2>1. ASSUME NEW r \in Run, outcome[r] = "ok"
        PROVE  author[r] = Object /\ schema = Object
    BY <2>1 DEF MigrationsInv, MadeNothing, MadeSchema
  <2>2. ASSUME NEW r \in Run, NEW i \in DOMAIN Files, i < next[r]
        PROVE  Creates(Files[i]) \subseteq schema \cap author[r]
    <3>1. i \in 1..(next[r] - 1) /\ i \in 1..7
      BY <2>t, <2>2, FileBatches DEF Files
    <3>2. MadeSchema(r)
      BY <2>2, <3>1 DEF MigrationsInv, MadeNothing
    <3>3. /\ Creates(Files[i]) \subseteq Made(next[r] - 1)
          /\ Creates(Files[i]) \subseteq Made(next[r])
      BY <2>t, <3>1 DEF Made
    <3>4. Creates(Files[i]) \subseteq Object
      BY <2>t, <3>1, MadeByFiles
    <3> QED BY <3>2, <3>3, <3>4 DEF MadeSchema
  <2> QED BY <2>1, <2>2 DEF SchemaOfOneRun, MigrationsInv
<1> QED BY <1>1, MigrationsHold, PTL

(* Once the run that began the schema has failed, no run changes it.       *)
THEOREM FailedIsNotRepaired == Spec => NeverRepaired
<1>1. ASSUME MigrationsInv, [Next]_vars, NEW r \in Run,
             outcome[r] = "failed", author[r] # {}
      PROVE  schema' = schema
  <2>1. ASSUME NEW q \in Run, outcome[q] = "running", Exec(Files[next[q]]).ok,
               Becomes(q, Exec(Files[next[q]]).schema)
        PROVE  FALSE
    BY <1>1, <2>1, Committed
  <2>2. CASE UNCHANGED migrationVars
    BY <2>2 DEF migrationVars
  <2>3. ASSUME NEW q \in Run, Begin(q) \/ Migrate(q) \/ Interrupted(q)
        PROVE  schema' = schema
    BY <2>1, <2>3 DEF Begin, Migrate, Interrupted
  <2>4. MigrationsNext \/ UNCHANGED migrationVars
    BY <1>1 DEF Next, vars, MigrationStep, Load, AttemptHangs, AttemptSucceeds,
         AttemptFails, PauseOver, ContextDone, NewRedpandaPublisher, NewPGListener,
         Serve, StartOutbox, Scan, HandleNotification, CreateEvent,
         UpdateEventStatus, LockRows, DatabaseChanges, Tick
  <2> QED BY <2>2, <2>3, <2>4 DEF MigrationsNext
<1>2. MigrationsInv /\ [Next]_vars
        => [\A r \in Run : outcome[r] = "failed" /\ author[r] # {}
              => schema' = schema]_migrationVars
  BY <1>1
<1> QED BY <1>2, MigrationsHold, PTL DEF Spec, NeverRepaired

-----------------------------------------------------------------------------
(* What TypeOK says besides the wait and the migrations.                   *)
EventTypeOK ==
  /\ changes \in 0..MaxChanges /\ dsn \in {"good", "bad", "escaped"}
  /\ poller \in {"none", "off", "scan", "listen"}
  /\ committed \subseteq Event
  /\ noticed \subseteq committed /\ queue \subseteq committed
  /\ locked \subseteq pending /\ pending \subseteq committed
  /\ stranded \subseteq committed
  /\ poller # "none" <=> main = "running"

LEMMA EventTypeStep ==
  ASSUME EventTypeOK, [Next]_vars
  PROVE  EventTypeOK'
<1> USE DEF rowVars
<1>b. MaxChanges \in Nat
  BY BootAssumption
<1>1. CASE UNCHANGED <<eventVars, changes>>
  <2>1. CASE Load
    BY <1>1, <2>1 DEF EventTypeOK, eventVars, Load
  <2>2. CASE AttemptHangs \/ AttemptSucceeds \/ AttemptFails \/ PauseOver \/ ContextDone
    <3>1. main \in Waiting /\ main # "running" /\ main' # "running" /\ dsn' = dsn
      BY <2>2 DEF AttemptHangs, AttemptSucceeds, AttemptFails, PauseOver, ContextDone,
           Waiting, waitVars
    <3> QED BY <1>1, <3>1 DEF EventTypeOK, eventVars
  <2>3. CASE NewRedpandaPublisher \/ NewPGListener \/ Serve
    BY <1>1, <2>3 DEF EventTypeOK, eventVars, waitVars, NewRedpandaPublisher,
         NewPGListener, Serve, Goto
  <2>4. CASE UNCHANGED <<main, dsn>>
    BY <1>1, <2>4 DEF EventTypeOK, eventVars
  <2>5. ~StartOutbox
    BY <1>1 DEF EventTypeOK, eventVars, StartOutbox, Goto
  <2> QED
    BY <2>1, <2>2, <2>3, <2>4, <2>5 DEF Next, vars, waitVars, Scan, HandleNotification,
         CreateEvent, UpdateEventStatus, LockRows, DatabaseChanges, MigrationStep, Tick
<1>2. CASE StartOutbox
  BY <1>2 DEF StartOutbox, Goto, EventTypeOK, timeVars, waitVars
<1>3. CASE Scan
  BY <1>3 DEF Scan, EventTypeOK, timeVars, waitVars
<1>4. ASSUME NEW e \in Event, HandleNotification(e) PROVE EventTypeOK'
  BY <1>4 DEF HandleNotification, EventTypeOK, timeVars, waitVars
<1>5. ASSUME NEW e \in Event, CreateEvent(e) PROVE EventTypeOK'
  BY <1>5 DEF CreateEvent, Unannounced, EventTypeOK, timeVars, waitVars
<1>6. ASSUME NEW e \in Event, UpdateEventStatus(e) PROVE EventTypeOK'
  BY <1>6 DEF UpdateEventStatus, Unannounced, EventTypeOK, timeVars, waitVars
<1>7. CASE LockRows
  BY <1>7 DEF LockRows, EventTypeOK, timeVars, waitVars
<1>8. CASE DatabaseChanges
  BY <1>b, <1>8 DEF DatabaseChanges, EventTypeOK, eventVars, waitVars
<1> QED
  BY <1>1, <1>2, <1>3, <1>4, <1>5, <1>6, <1>7, <1>8 DEF Next, vars, timeVars, Load,
     AttemptHangs, AttemptSucceeds, AttemptFails, PauseOver, ContextDone,
     NewRedpandaPublisher, NewPGListener, Serve, MigrationStep, Tick

(* The types of Boot, for any number of runs, events and attempts.         *)
THEOREM TypeCorrect == Spec => []TypeOK
<1>1. Init => EventTypeOK
  <2> SUFFICES ASSUME Init PROVE EventTypeOK
    OBVIOUS
  <2>1. 0 \in 0..MaxChanges
    BY BootAssumption
  <2> QED BY <2>1 DEF Init, EventTypeOK
<1>2. EventTypeOK /\ [Next]_vars => EventTypeOK'
  BY EventTypeStep
<1>3. WaitInv /\ MigrationsInv /\ EventTypeOK => TypeOK
  BY DEF WaitInv, PoolInv, WaitTypeOK, MigrationsInv, EventTypeOK, TypeOK
<1> QED BY <1>1, <1>2, <1>3, WaitHolds, MigrationsHold, PTL DEF Spec

=============================================================================
