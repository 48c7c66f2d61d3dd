-------------------------- MODULE EventTableProofs --------------------------
(***************************************************************************)
(* Lemmas about the events table and the topics which the proofs about one *)
(* poller (OutboxProofs) and about several (ReplicaProofs) share.          *)
(***************************************************************************)
EXTENDS EventTable, RedpandaPublisher, SequenceTheorems,
        FiniteSetTheorems, TLAPS

-----------------------------------------------------------------------------
(* The members of a sequence, as the actions take and add them.            *)

LEMMA ToSetAppend ==
  ASSUME NEW S, NEW s \in Seq(S), NEW e \in S
  PROVE  ToSet(Append(s, e)) = ToSet(s) \cup {e}
BY AppendProperties DEF ToSet

LEMMA ToSetHeadTail ==
  ASSUME NEW S, NEW s \in Seq(S), s # <<>>
  PROVE  /\ Head(s) \in ToSet(s)
         /\ ToSet(s) = {Head(s)} \cup ToSet(Tail(s))
<1>1. /\ Len(s) \in Nat /\ Len(s) > 0
      /\ DOMAIN s = 1..Len(s)
      /\ Head(s) = s[1]
      /\ Len(Tail(s)) = Len(s) - 1
      /\ DOMAIN Tail(s) = 1..(Len(s) - 1)
      /\ \A i \in 1..(Len(s) - 1) : Tail(s)[i] = s[i + 1]
  BY HeadTailProperties, EmptySeq, LenProperties
<1>2. \A x \in ToSet(s) : x = Head(s) \/ x \in ToSet(Tail(s))
  <2>1. SUFFICES ASSUME NEW i \in DOMAIN s, i # 1
                 PROVE  s[i] \in ToSet(Tail(s))
    BY <1>1 DEF ToSet
  <2>2. i - 1 \in DOMAIN Tail(s) /\ Tail(s)[i - 1] = s[i]
    BY <1>1, <2>1
  <2> QED BY <2>2 DEF ToSet
<1>3. \A x \in ToSet(Tail(s)) : x \in ToSet(s)
  BY <1>1 DEF ToSet
<1> QED BY <1>1, <1>2, <1>3 DEF ToSet

LEMMA ToSetSingle == \A e : ToSet(<<e>>) = {e} /\ <<e>> # <<>>
BY DEF ToSet

LEMMA ToSetEmpty == ToSet(<<>>) = {}
BY DEF ToSet

LEMMA PollResultsAreRows ==
  ASSUME NEW limit \in Nat, NEW b \in PollResults(limit)
  PROVE  /\ b \in Seq(Event)
         /\ ToSet(b) \subseteq Pending
<1>1. PICK n \in 0..limit : b \in [1..n -> Pending \ locked]
  BY DEF PollResults
<1>2. b \in Seq(Pending)
  BY <1>1
<1> QED BY <1>1, <1>2 DEF ToSet, Pending

LEMMA PrefixIsSeq ==
  ASSUME NEW s \in Seq(Event), NEW n \in 0..Len(s)
  PROVE  SubSeq(s, 1, n) \in Seq(Event) /\ ToSet(SubSeq(s, 1, n)) \subseteq ToSet(s)
<1>1. /\ SubSeq(s, 1, n) \in Seq(Event)
      /\ Len(SubSeq(s, 1, n)) = n
      /\ \A i \in 1..n : SubSeq(s, 1, n)[i] = s[i]
  BY SubSeqProperties, ElementOfSeq, LenProperties
<1> QED BY <1>1, LenProperties DEF ToSet

(* The sequences of events the poller keeps have no event twice.           *)

LEMMA AppendKeepsInjective ==
  ASSUME NEW S, NEW s \in Seq(S), NEW e \in S, IsInjective(s), e \notin ToSet(s)
  PROVE  IsInjective(Append(s, e))
<1>1. /\ Len(s) \in Nat /\ DOMAIN s = 1..Len(s)
      /\ DOMAIN Append(s, e) = 1..(Len(s) + 1)
      /\ \A i \in 1..Len(s) : Append(s, e)[i] = s[i] /\ s[i] # e
      /\ Append(s, e)[Len(s) + 1] = e
  BY AppendProperties, LenProperties DEF ToSet
<1> QED BY <1>1 DEF IsInjective

LEMMA TailKeepsInjective ==
  ASSUME NEW S, NEW s \in Seq(S), s # <<>>, IsInjective(s)
  PROVE  /\ IsInjective(Tail(s))
         /\ Head(s) \notin ToSet(Tail(s))
<1>1. /\ Len(s) \in Nat /\ Len(s) > 0
      /\ DOMAIN s = 1..Len(s)
      /\ Head(s) = s[1]
      /\ DOMAIN Tail(s) = 1..(Len(s) - 1)
      /\ \A i \in 1..(Len(s) - 1) : Tail(s)[i] = s[i + 1]
  BY HeadTailProperties, EmptySeq, LenProperties
<1>2. ASSUME NEW i \in 1..(Len(s) - 1) PROVE i + 1 \in 1..Len(s) /\ i + 1 # 1
  BY <1>1
<1>3. Head(s) \notin ToSet(Tail(s))
  BY <1>1, <1>2 DEF ToSet, IsInjective
<1>4. ASSUME NEW i \in 1..(Len(s) - 1), NEW j \in 1..(Len(s) - 1),
             Tail(s)[i] = Tail(s)[j]
      PROVE  i = j
  <2>1. s[i + 1] = s[j + 1]
    BY <1>1, <1>4
  <2>2. i + 1 = j + 1
    BY <1>1, <1>2, <2>1 DEF IsInjective
  <2> QED BY <2>2
<1> QED BY <1>1, <1>3, <1>4 DEF IsInjective

LEMMA PrefixKeepsInjective ==
  ASSUME NEW s \in Seq(Event), NEW n \in 0..Len(s), IsInjective(s)
  PROVE  IsInjective(SubSeq(s, 1, n))
<1>1. /\ DOMAIN SubSeq(s, 1, n) = 1..n
      /\ DOMAIN s = 1..Len(s) /\ Len(s) \in Nat
      /\ \A i \in 1..n : SubSeq(s, 1, n)[i] = s[i]
  BY SubSeqProperties, ElementOfSeq, LenProperties
<1> QED BY <1>1 DEF IsInjective

LEMMA SingleIsInjective == \A e : IsInjective(<<e>>)
BY DEF IsInjective

LEMMA EmptyIsInjective == IsInjective(<<>>)
BY DEF IsInjective

LEMMA PollResultsAreInjective ==
  ASSUME NEW limit \in Nat, NEW b \in PollResults(limit)
  PROVE  IsInjective(b)
BY DEF PollResults

-----------------------------------------------------------------------------
(* Producing a record.                                                     *)

LEMMA ProduceType ==
  ASSUME TopicsTypeOK, NEW e \in Event, Produce(e)
  PROVE  TopicsTypeOK'
<1>1. /\ topics \in [EventType -> Seq(Event)]
      /\ TopicForEventType(e) \in EventType
  BY EventsAssumption DEF TopicsTypeOK, TopicForEventType
<1>2. Append(topics[TopicForEventType(e)], e) \in Seq(Event)
  BY <1>1, AppendProperties
<1> QED BY <1>1, <1>2 DEF Produce, TopicsTypeOK

LEMMA ProduceDelivers ==
  ASSUME TopicsTypeOK, NEW e \in Event, Produce(e)
  PROVE  /\ Delivered(e)'
         /\ \A f \in Event : Delivered(f) => Delivered(f)'
<1>1. /\ topics \in [EventType -> Seq(Event)]
      /\ \A f \in Event : TypeOf[f] \in EventType
  BY EventsAssumption DEF TopicsTypeOK
<1>2. \A f \in Event :
        ToSet(topics'[TypeOf[f]]) = IF TypeOf[f] = TypeOf[e]
                                      THEN ToSet(topics[TypeOf[f]]) \cup {e}
                                      ELSE ToSet(topics[TypeOf[f]])
  <2> TAKE f \in Event
  <2>1. CASE TypeOf[f] = TypeOf[e]
    BY <1>1, <2>1, ToSetAppend DEF Produce, TopicForEventType
  <2>2. CASE TypeOf[f] # TypeOf[e]
    BY <1>1, <2>2 DEF Produce, TopicForEventType
  <2> QED BY <2>1, <2>2
<1> QED BY <1>2 DEF Delivered, TopicForEventType

LEMMA ProduceDeliversOnly ==
  ASSUME TopicsTypeOK, NEW e \in Event, Produce(e), NEW f \in Event, Delivered(f)'
  PROVE  f = e \/ Delivered(f)
<1>1. topics \in [EventType -> Seq(Event)] /\ TypeOf[e] \in EventType
  BY EventsAssumption DEF TopicsTypeOK
<1>2. CASE TypeOf[f] = TypeOf[e]
  BY <1>1, <1>2, ToSetAppend DEF Produce, Delivered, TopicForEventType
<1>3. CASE TypeOf[f] # TypeOf[e]
  BY <1>1, <1>3 DEF Produce, Delivered, TopicForEventType
<1> QED BY <1>2, <1>3

(* A topic is finite: an event has a number of records, none if it was     *)
(* never delivered, and Produce adds one of one event.                     *)
LEMMA RecordsNat ==
  ASSUME NEW log \in Seq(Event), NEW e \in Event
  PROVE  /\ Cardinality({i \in DOMAIN log : log[i] = e}) \in Nat
         /\ e \notin ToSet(log) => Cardinality({i \in DOMAIN log : log[i] = e}) = 0
<1> DEFINE At == {i \in DOMAIN log : log[i] = e}
<1>1. DOMAIN log = 1..Len(log) /\ Len(log) \in Nat
  BY LenProperties
<1>2. IsFiniteSet(DOMAIN log)
  BY <1>1, FS_Interval
<1>3. IsFiniteSet(At)
  BY <1>2, FS_Subset
<1>4. Cardinality(At) \in Nat
  BY <1>3, FS_CardinalityType
<1>5. e \notin ToSet(log) => At = {}
  BY DEF ToSet
<1> QED BY <1>4, <1>5, FS_EmptySet

LEMMA CopiesNat ==
  ASSUME TopicsTypeOK, NEW e \in Event
  PROVE  /\ Copies(e) \in Nat
         /\ ~Delivered(e) => Copies(e) = 0
<1>1. topics[TypeOf[e]] \in Seq(Event)
  BY EventsAssumption DEF TopicsTypeOK
<1> QED BY <1>1, RecordsNat DEF Copies, Delivered, TopicForEventType

LEMMA CopiesNatNext ==
  ASSUME TopicsTypeOK', NEW e \in Event
  PROVE  Copies(e)' \in Nat
<1>1. topics'[TypeOf[e]] \in Seq(Event)
  BY EventsAssumption DEF TopicsTypeOK
<1> QED BY <1>1, RecordsNat DEF Copies, TopicForEventType

LEMMA CopiesUnchanged ==
  ASSUME UNCHANGED topics, NEW e \in Event
  PROVE  Copies(e)' = Copies(e) /\ Delivered(e)' = Delivered(e)
BY DEF Copies, Delivered, TopicForEventType

LEMMA ProduceCopies ==
  ASSUME TopicsTypeOK, NEW e \in Event, Produce(e), NEW f \in Event
  PROVE  Copies(f)' = IF f = e THEN Copies(f) + 1 ELSE Copies(f)
<1>1. topics \in [EventType -> Seq(Event)] /\ TypeOf[e] \in EventType
  BY EventsAssumption DEF TopicsTypeOK
<1>2. CASE TypeOf[f] # TypeOf[e]
  <2>1. topics'[TypeOf[f]] = topics[TypeOf[f]] /\ f # e
    BY <1>1, <1>2 DEF Produce, TopicForEventType
  <2> QED BY <2>1 DEF Copies, TopicForEventType
<1>3. CASE TypeOf[f] = TypeOf[e]
  <2> DEFINE log == topics[TypeOf[e]]
             At == {i \in DOMAIN log : log[i] = f}
             AtP == {i \in DOMAIN log' : log'[i] = f}
  <2>1. log' = Append(log, e)
    BY <1>1 DEF Produce, TopicForEventType
  <2>2. log \in Seq(Event) /\ Len(log) \in Nat /\ DOMAIN log = 1..Len(log)
    BY <1>1, LenProperties
  <2>3. /\ DOMAIN log' = 1..(Len(log) + 1)
        /\ \A i \in 1..Len(log) : log'[i] = log[i]
        /\ log'[Len(log) + 1] = e
    BY <2>1, <2>2, AppendProperties
  <2>4. AtP = IF f = e THEN At \cup {Len(log) + 1} ELSE At
    BY <2>2, <2>3
  <2>5. IsFiniteSet(DOMAIN log)
    BY <2>2, FS_Interval
  <2>6. IsFiniteSet(At)
    BY <2>5, FS_Subset
  <2>7. Len(log) + 1 \notin At
    BY <2>2
  <2>8. Cardinality(AtP) = IF f = e THEN Cardinality(At) + 1 ELSE Cardinality(At)
    <3> HIDE DEF At, AtP
    <3> QED BY <2>4, <2>6, <2>7, FS_AddElement
  <2> QED BY <1>3, <2>8 DEF Copies, TopicForEventType
<1> QED BY <1>2, <1>3

(* A record once before another stays before it, and the first record of f *)
(* comes after those the topic has.                                        *)
LEMMA ProduceKeepsOrder ==
  ASSUME TopicsTypeOK, NEW g \in Event, Produce(g),
         NEW e \in Event, NEW f \in Event, TypeOf[e] = TypeOf[f],
         DeliveredBefore(e, f) \/ (Delivered(e) /\ ~Delivered(f))
  PROVE  DeliveredBefore(e, f)'
<1> DEFINE log == topics[TypeOf[e]]
<1>1. topics \in [EventType -> Seq(Event)] /\ TypeOf[e] \in EventType
  BY EventsAssumption DEF TopicsTypeOK
<1>2. log \in Seq(Event) /\ Len(log) \in Nat /\ DOMAIN log = 1..Len(log)
  BY <1>1, LenProperties
<1>3. PICK i \in DOMAIN log : log[i] = e /\ \A j \in 1..i : log[j] # f
  <2>1. CASE DeliveredBefore(e, f)
    BY <2>1 DEF DeliveredBefore, TopicForEventType
  <2>2. CASE Delivered(e) /\ ~Delivered(f)
    <3>1. PICK i \in DOMAIN log : log[i] = e
      BY <2>2 DEF Delivered, TopicForEventType, ToSet
    <3>2. \A j \in DOMAIN log : log[j] # f
      BY <2>2 DEF Delivered, TopicForEventType, ToSet
    <3> QED BY <1>2, <3>1, <3>2
  <2> QED BY <2>1, <2>2
<1>4. i \in DOMAIN log' /\ \A j \in 1..i : log'[j] = log[j]
  <2>1. CASE TypeOf[g] = TypeOf[e]
    <3>1. log' = Append(log, g)
      BY <1>1, <2>1 DEF Produce, TopicForEventType
    <3> QED BY <1>2, <3>1, AppendProperties
  <2>2. CASE TypeOf[g] # TypeOf[e]
    BY <1>1, <1>2, <2>2 DEF Produce, TopicForEventType
  <2> QED BY <2>1, <2>2
<1>5. i \in 1..i
  BY <1>2
<1> QED BY <1>3, <1>4, <1>5 DEF DeliveredBefore, TopicForEventType

=============================================================================
