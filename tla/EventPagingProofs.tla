-------------------------- MODULE EventPagingProofs -------------------------
(***************************************************************************)
(* For every number of events, limit and default limit, ties included: a   *)
(* client that pages to the end has missed no row that was there when it   *)
(* began and ties with no other, has received no more such rows twice than *)
(* rows were inserted meanwhile, and has missed no more rows of any kind   *)
(* than it has received twice.                                             *)
(*                                                                         *)
(* The first two rest on the rank of a row, the number of newer rows in    *)
(* the table: a row alone at its created_at is where its rank says, in     *)
(* every order the ORDER BY admits.  Pages are windows that follow each    *)
(* other without a gap, and an insert can only raise a rank, by one.  So a *)
(* row not yet received is never above the next window (Ahead), and the    *)
(* rows that will be received again are those that inserts have pushed     *)
(* into it (Beyond).  The third is counting: the page that comes back      *)
(* empty says that the table has no more than offset rows.                 *)
(***************************************************************************)
EXTENDS EventPaging, FiniteSetTheorems, TLAPS

Newer(e) == {f \in Committed : createdAt[f] > createdAt[e]}
Rank(e) == Cardinality(Newer(e))

(* Rows received whose rank is in the next window, or further down.        *)
Beyond == {e \in seen \cap Alone : Rank(e) >= offset}

Ahead == \A e \in (first \cap Alone) \ seen : Rank(e) >= offset

PagingInv ==
  /\ TypeOK
  /\ IsFiniteSet(Committed)
  /\ Ahead
  /\ NothingMissed /\ RepeatsBounded /\ MissesShow
  /\ ~done => Cardinality(Beyond) + repeats <= arrivals

-----------------------------------------------------------------------------
(* Ranks.                                                                  *)

LEMMA RankIsNat ==
  ASSUME NEW e, IsFiniteSet(Committed)
  PROVE  IsFiniteSet(Newer(e)) /\ Rank(e) \in Nat
BY FS_Subset, FS_CardinalityType DEF Newer, Rank

(* A row that ties with no other has a rank of its own.                    *)
LEMMA RanksDiffer ==
  ASSUME TypeOK, IsFiniteSet(Committed),
         NEW e \in Alone, NEW f \in Alone, Rank(e) = Rank(f)
  PROVE  e = f
<1> USE DEF TypeOK, TableTypeOK, Committed, EventStatus
<1>1. \A g, h \in Committed : createdAt[g] < createdAt[h] => Rank(g) # Rank(h)
  <2>1. SUFFICES ASSUME NEW g \in Committed, NEW h \in Committed,
                        createdAt[g] < createdAt[h], Rank(g) = Rank(h)
                 PROVE  FALSE
    OBVIOUS
  <2>2. Newer(h) \subseteq Newer(g) /\ h \in Newer(g) /\ h \notin Newer(h)
    BY <2>1 DEF Newer
  <2> QED BY <2>1, <2>2, RankIsNat, FS_Subset DEF Rank
<1>2. e \in Committed /\ f \in Committed
  BY DEF Alone
<1>3. createdAt[e] \in Nat /\ createdAt[f] \in Nat
  BY <1>2
<1>4. createdAt[e] = createdAt[f]
  BY <1>1, <1>2, <1>3
<1> QED BY <1>2, <1>4 DEF Alone

(* A page, the rows before it, and where they are.                         *)
LEMMA PageRanks ==
  ASSUME TypeOK, IsFiniteSet(Committed),
         NEW limit \in Nat \ {0}, NEW skip \in Nat, NEW page,
         ListEvents(page, limit, skip)
  PROVE  /\ page \subseteq Committed /\ IsFiniteSet(page)
         /\ Cardinality(page) \in Nat
         /\ \A e \in page \cap Alone :
              Rank(e) >= skip /\ Rank(e) < skip + Cardinality(page)
         /\ \A e \in Alone \ page :
              Rank(e) >= skip => page # {} /\ Rank(e) >= skip + Cardinality(page)
         /\ page = {} => Cardinality(Committed) <= skip
<1> USE DEF TypeOK, TableTypeOK
<1>1. PICK skipped \in SUBSET Committed :
        /\ Newest(skipped, skip, Committed)
        /\ page \subseteq Committed \ skipped
        /\ Newest(page, limit, Committed \ skipped)
  BY DEF ListEvents
<1> DEFINE left == Committed \ skipped
<1>2. /\ IsFiniteSet(skipped) /\ IsFiniteSet(page) /\ IsFiniteSet(left)
      /\ Cardinality(skipped) \in Nat /\ Cardinality(page) \in Nat
      /\ Cardinality(left) \in Nat /\ Cardinality(Committed) \in Nat
  BY <1>1, FS_Subset, FS_CardinalityType, FS_Difference
<1>3. Cardinality(skipped) <= skip
  BY <1>1, <1>2 DEF Newest, Least
<1>4. left # {} => Cardinality(skipped) = skip
  BY <1>1, <1>2, FS_Subset DEF Newest, Least
<1>5. ASSUME NEW S \in SUBSET Committed, NEW e, S \subseteq Newer(e)
      PROVE  Cardinality(S) <= Rank(e)
  BY <1>5, RankIsNat, FS_Subset DEF Rank
<1>6. ASSUME NEW e \in left \cap Alone PROVE skipped \subseteq Newer(e)
  <2>1. ASSUME NEW f \in skipped PROVE f \in Newer(e)
    <3>1. createdAt[f] >= createdAt[e] /\ createdAt[f] # createdAt[e]
      BY <1>1 DEF Newest, Alone
    <3>2. createdAt[f] \in Nat /\ createdAt[e] \in Nat
      BY DEF Committed
    <3> QED BY <3>1, <3>2 DEF Newer
  <2> QED BY <2>1
<1>7. ASSUME NEW e \in (left \ page) \cap Alone PROVE page \subseteq Newer(e)
  <2>1. ASSUME NEW f \in page PROVE f \in Newer(e)
    <3>1. createdAt[f] >= createdAt[e] /\ createdAt[f] # createdAt[e]
      BY <1>1 DEF Newest, Alone
    <3>2. createdAt[f] \in Nat /\ createdAt[e] \in Nat
      BY <1>1 DEF Committed
    <3> QED BY <1>1, <3>1, <3>2 DEF Newer
  <2> QED BY <2>1
<1>8. skipped \cap page = {}
  BY <1>1
<1>9. /\ IsFiniteSet(skipped \cup page)
      /\ Cardinality(skipped \cup page) = Cardinality(skipped) + Cardinality(page)
  <2>1. /\ IsFiniteSet(skipped \cup page)
        /\ Cardinality(skipped \cup page) = Cardinality(skipped)
             + Cardinality(page) - Cardinality(skipped \cap page)
    BY <1>2, FS_Union
  <2>2. Cardinality(skipped \cap page) = 0
    BY <1>8, FS_EmptySet
  <2> QED BY <1>2, <2>1, <2>2
<1>10. ASSUME NEW e \in page \cap Alone
       PROVE  Rank(e) >= skip /\ Rank(e) < skip + Cardinality(page)
  <2>1. Rank(e) >= skip
    BY <1>1, <1>2, <1>4, <1>5, <1>6, RankIsNat
  <2>2. Newer(e) \subseteq (skipped \cup page) \ {e}
    BY <1>1 DEF Newest, Newer, Committed
  <2>3. /\ IsFiniteSet((skipped \cup page) \ {e})
        /\ Cardinality((skipped \cup page) \ {e})
             = Cardinality(skipped \cup page) - 1
    BY <1>9, FS_RemoveElement
  <2>4. Rank(e) <= Cardinality(skipped \cup page) - 1
    BY <2>2, <2>3, FS_Subset DEF Rank
  <2> QED BY <1>2, <1>3, <1>9, <2>1, <2>4, RankIsNat
<1>11. ASSUME NEW e \in Alone \ page, Rank(e) >= skip
       PROVE  page # {} /\ Rank(e) >= skip + Cardinality(page)
  <2>1. e \notin skipped
    <3>1. SUFFICES ASSUME e \in skipped PROVE FALSE
      OBVIOUS
    <3>2. Newer(e) \subseteq skipped \ {e}
      BY <1>1, <3>1 DEF Newest, Newer, Committed
    <3>3. /\ IsFiniteSet(skipped \ {e})
          /\ Cardinality(skipped \ {e}) = Cardinality(skipped) - 1
      BY <1>2, <3>1, FS_RemoveElement
    <3>4. Rank(e) <= Cardinality(skipped) - 1
      BY <3>2, <3>3, FS_Subset DEF Rank
    <3> QED BY <1>2, <1>3, <1>11, <3>4, RankIsNat
  <2>2. e \in (left \ page) \cap Alone
    BY <1>11, <2>1 DEF Alone
  <2>3. skipped \cup page \subseteq Newer(e)
    BY <1>6, <1>7, <2>2
  <2>4. Rank(e) >= Cardinality(skipped) + Cardinality(page)
    BY <1>1, <1>5, <1>9, <2>3
  <2>5. Cardinality(skipped) = skip
    BY <1>4, <2>2
  <2>6. Cardinality(left) # 0
    BY <1>2, <2>2, FS_EmptySet
  <2>7. Cardinality(page) # 0
    BY <1>1, <1>2, <2>6 DEF Newest, Least
  <2> QED BY <2>4, <2>5, <2>7, FS_EmptySet
<1>12. ASSUME page = {} PROVE Cardinality(Committed) <= skip
  <2>1. Cardinality(left) = 0
    BY <1>1, <1>2, <1>12, FS_EmptySet DEF Newest, Least
  <2>2. left = {}
    <3> HIDE DEF left
    <3> QED BY <1>2, <2>1, FS_EmptySet
  <2>3. Committed = skipped
    BY <2>2
  <2> QED BY <1>3, <2>3
<1> QED BY <1>1, <1>2, <1>10, <1>11, <1>12

-----------------------------------------------------------------------------
(* The invariant holds initially and is preserved by every step.           *)

LEMMA PagingInit == Init => PagingInv
<1> SUFFICES ASSUME Init PROVE PagingInv
  OBVIOUS
<1> USE DEF Init, TableInit
<1>1. Committed = {} /\ Beyond = {}
  BY DEF Committed, Beyond, EventStatus
<1>2. TypeOK
  <2>1. Cardinality(seen) = 0
    BY FS_EmptySet
  <2>2. offset = Cardinality(seen) + repeats
    BY <2>1
  <2>3. TableTypeOK
    BY DEF TableTypeOK
  <2>4. /\ offset \in Nat /\ repeats \in Nat /\ shuffled \in Nat /\ arrivals \in Nat
        /\ done \in BOOLEAN
        /\ seen \subseteq Committed /\ first \subseteq Committed
    OBVIOUS
  <2> QED BY <2>2, <2>3, <2>4 DEF TypeOK
<1>3. Cardinality(Beyond) + repeats <= arrivals
  BY <1>1, FS_EmptySet
<1> QED BY <1>1, <1>2, <1>3, FS_EmptySet
        DEF PagingInv, Ahead, NothingMissed, RepeatsBounded, MissesShow

LEMMA ReadPagePreserves ==
  ASSUME PagingInv, NEW page, NEW requested \in Requested,
         ReadPage(page, requested)
  PROVE  PagingInv'
<1> USE DEF PagingInv
<1>1. Limit(requested) \in Nat \ {0}
  BY PagingAssumption DEF Limit
<1>2. /\ page \subseteq Committed /\ IsFiniteSet(page)
      /\ Cardinality(page) \in Nat
      /\ \A e \in page \cap Alone :
           Rank(e) >= offset /\ Rank(e) < offset + Cardinality(page)
      /\ \A e \in Alone \ page :
           Rank(e) >= offset => page # {} /\ Rank(e) >= offset + Cardinality(page)
      /\ page = {} => Cardinality(Committed) <= offset
  <2>1. offset \in Nat /\ ListEvents(page, Limit(requested), offset)
    BY DEF ReadPage, TypeOK
  <2> QED BY <1>1, <2>1, PageRanks
<1>3. /\ Committed' = Committed /\ Alone' = Alone
      /\ \A e : Rank(e)' = Rank(e)
  BY DEF ReadPage, tableVars, Committed, Alone, Rank, Newer
<1> DEFINE again == page \cap seen \cap Alone
           tied == (page \cap seen) \ Alone
<1>4. /\ seen \subseteq Committed /\ IsFiniteSet(seen)
      /\ Cardinality(seen) \in Nat
      /\ Cardinality(again) \in Nat /\ Cardinality(tied) \in Nat
      /\ Cardinality(page \cap seen) = Cardinality(again) + Cardinality(tied)
      /\ IsFiniteSet(seen \cup page) /\ Cardinality(seen \cup page) \in Nat
      /\ Cardinality(seen \cup page)
           = Cardinality(seen) + Cardinality(page) - Cardinality(page \cap seen)
  <2>1. seen \subseteq Committed /\ IsFiniteSet(seen) /\ seen \cap page = page \cap seen
    BY FS_Subset DEF TypeOK
  <2>2. /\ Cardinality(seen) \in Nat
        /\ IsFiniteSet(page \cap seen) /\ Cardinality(page \cap seen) \in Nat
    BY <2>1, FS_Intersection, FS_CardinalityType
  <2>3. /\ IsFiniteSet(seen \cup page)
        /\ Cardinality(seen \cup page)
             = Cardinality(seen) + Cardinality(page) - Cardinality(seen \cap page)
    BY <1>2, <2>1, FS_Union
  <2>4. Cardinality(seen \cup page) \in Nat
    BY <2>3, FS_CardinalityType
  <2>5. /\ IsFiniteSet(again) /\ Cardinality(again) \in Nat
        /\ again = (page \cap seen) \cap Alone
    BY <2>2, FS_Subset, FS_CardinalityType
  <2>6. /\ Cardinality(tied)
             = Cardinality(page \cap seen) - Cardinality((page \cap seen) \cap Alone)
        /\ IsFiniteSet(tied) /\ Cardinality(tied) \in Nat
    BY <2>2, FS_Difference, FS_Subset, FS_CardinalityType
  <2>7. Cardinality(page \cap seen) = Cardinality(again) + Cardinality(tied)
    BY <2>2, <2>5, <2>6
  <2> QED BY <2>1, <2>2, <2>3, <2>4, <2>5, <2>6, <2>7
<1>5. TypeOK'
  <2>1. TableTypeOK'
    BY DEF TypeOK, TableTypeOK, ReadPage, tableVars
  <2>2. offset' \in Nat /\ repeats' \in Nat /\ shuffled' \in Nat /\ arrivals' \in Nat
    BY <1>2, <1>4 DEF TypeOK, ReadPage
  <2>3. done' \in BOOLEAN
    BY DEF ReadPage
  <2>4. seen' \subseteq Committed' /\ first' \subseteq Committed'
    BY <1>2, <1>3 DEF TypeOK, ReadPage
  <2>5. offset' = Cardinality(seen') + repeats' + shuffled'
    BY <1>2, <1>4 DEF TypeOK, ReadPage
  <2> QED BY <2>1, <2>2, <2>3, <2>4, <2>5 DEF TypeOK
<1>6. ASSUME NEW e \in (first' \cap Alone) \ seen'
      PROVE  page # {} /\ Rank(e) >= offset + Cardinality(page)
  <2>1. e \in Alone \ page
    BY <1>6 DEF ReadPage
  <2>2. Rank(e) >= offset
    <3>1. CASE offset = 0
      BY <3>1, RankIsNat
    <3>2. CASE offset # 0
      BY <1>6, <3>2 DEF ReadPage, Ahead
    <3> QED BY <3>1, <3>2
  <2> QED BY <1>2, <2>1, <2>2
<1>7. Ahead' /\ NothingMissed'
  BY <1>3, <1>6 DEF ReadPage, Ahead, NothingMissed
<1>8. /\ IsFiniteSet(Beyond) /\ Cardinality(Beyond) \in Nat
      /\ again \subseteq Beyond
      /\ Beyond' \subseteq Beyond \ again
  <2>1. IsFiniteSet(Beyond) /\ Cardinality(Beyond) \in Nat
    BY <1>4, FS_Subset, FS_CardinalityType DEF Beyond
  <2>2. again \subseteq Beyond
    BY <1>2 DEF Beyond
  <2>3. ASSUME NEW e \in Beyond'
        PROVE  e \in Beyond \ again
    <3>1. e \in (seen \cup page) \cap Alone /\ Rank(e) >= offset + Cardinality(page)
      BY <1>3, <2>3 DEF Beyond, ReadPage
    <3>2. Rank(e) \in Nat /\ offset \in Nat
      BY RankIsNat DEF TypeOK
    <3> QED BY <1>2, <3>1, <3>2 DEF Beyond
  <2> QED BY <2>1, <2>2, <2>3
<1>9. Cardinality(Beyond') + Cardinality(again) <= Cardinality(Beyond)
  <2>1. /\ IsFiniteSet(Beyond \ again)
        /\ Cardinality(Beyond \ again)
             = Cardinality(Beyond) - Cardinality(Beyond \cap again)
    BY <1>8, FS_Difference
  <2>2. Beyond \cap again = again
    BY <1>8
  <2>3. /\ Cardinality(Beyond') <= Cardinality(Beyond \ again)
        /\ Cardinality(Beyond') \in Nat
    <3>1. Beyond' \in SUBSET (Beyond \ again)
      BY <1>8
    <3> HIDE DEF Beyond, again
    <3>2. /\ IsFiniteSet(Beyond')
          /\ Cardinality(Beyond') <= Cardinality(Beyond \ again)
      BY <2>1, <3>1, FS_Subset
    <3> QED BY <3>2, FS_CardinalityType
  <2>4. Cardinality(Beyond \cap again) = Cardinality(again)
    BY <2>2
  <2> HIDE DEF again
  <2> QED BY <1>4, <1>8, <2>1, <2>3, <2>4
<1>10. /\ Cardinality(Beyond') \in Nat
       /\ Cardinality(Beyond') + repeats' <= arrivals'
       /\ repeats' <= arrivals'
  <2>1. Cardinality(Beyond') \in Nat
    BY <1>8, FS_Subset, FS_Difference, FS_CardinalityType
  <2>2. /\ ~done /\ arrivals' = arrivals
        /\ repeats' = repeats + Cardinality(again)
        /\ arrivals \in Nat /\ repeats \in Nat
    BY DEF ReadPage, TypeOK
  <2> HIDE DEF again
  <2> QED BY <1>4, <1>8, <1>9, <2>1, <2>2
<1>11. MissesShow'
  <2>1. SUFFICES ASSUME page = {}
                 PROVE  Cardinality(first' \ seen') <= repeats' + shuffled'
    BY DEF ReadPage, MissesShow
  <2>2. seen' = seen /\ first' \subseteq Committed
    BY <2>1 DEF ReadPage, TypeOK
  <2>3. repeats <= repeats' /\ shuffled <= shuffled'
    BY <1>4 DEF ReadPage, TypeOK
  <2>4. Cardinality(Committed) <= Cardinality(seen) + repeats + shuffled
    BY <1>2, <2>1 DEF TypeOK
  <2>5. /\ IsFiniteSet(Committed \ seen) /\ Committed \cap seen = seen
        /\ Cardinality(Committed \ seen)
             = Cardinality(Committed) - Cardinality(Committed \cap seen)
    BY <1>4, FS_Difference
  <2>6. /\ Cardinality(first' \ seen') <= Cardinality(Committed \ seen)
        /\ Cardinality(first' \ seen') \in Nat
    <3>1. first' \ seen' \in SUBSET (Committed \ seen)
      BY <2>2
    <3> QED BY <2>5, <3>1, FS_Subset, FS_CardinalityType
  <2>7. Cardinality(Committed \ seen) = Cardinality(Committed) - Cardinality(seen)
    BY <2>5
  <2>8. /\ repeats \in Nat /\ shuffled \in Nat
        /\ repeats' \in Nat /\ shuffled' \in Nat
        /\ Cardinality(seen) \in Nat /\ Cardinality(Committed) \in Nat
        /\ Cardinality(Committed \ seen) \in Nat
    BY <1>4, <1>5, <2>5, FS_CardinalityType DEF TypeOK
  <2> HIDE DEF again, tied, PagingInv
  <2>9. Cardinality(first' \ seen') <= repeats + shuffled
    BY <2>4, <2>6, <2>7, <2>8
  <2> QED BY <2>3, <2>6, <2>8, <2>9
<1> QED BY <1>3, <1>5, <1>7, <1>10, <1>11 DEF RepeatsBounded

LEMMA BeginPreserves ==
  ASSUME PagingInv, NEW e \in Event, BeginCreateEvent(e)
  PROVE  PagingInv'
<1> USE DEF PagingInv, BeginCreateEvent, CreateEventBegin
<1>1. /\ Committed' = Committed /\ e \notin Committed
      /\ \A f \in Committed : createdAt'[f] = createdAt[f]
  BY DEF Committed, TypeOK, TableTypeOK, EventStatus
<1>2. /\ \A f \in Committed : Newer(f)' = Newer(f)
      /\ Alone' = Alone
  BY <1>1 DEF Newer, Alone
<1>3. \A f \in Committed : Rank(f)' = Rank(f)
  BY <1>2 DEF Rank
<1>4. TypeOK'
  <2>1. clock' \in Nat
    BY DEF TypeOK, TableTypeOK
  <2> QED BY <1>1, <2>1 DEF TypeOK, TableTypeOK, pagerVars
<1>5. /\ first' = first /\ seen' = seen /\ offset' = offset /\ done' = done
      /\ repeats' = repeats /\ shuffled' = shuffled /\ arrivals' = arrivals
      /\ first \subseteq Committed /\ seen \subseteq Committed
  BY DEF TypeOK, pagerVars
<1>6. Beyond' = Beyond
  BY <1>2, <1>3, <1>5 DEF Beyond
<1>7. Ahead' /\ NothingMissed' /\ RepeatsBounded' /\ MissesShow'
  BY <1>2, <1>3, <1>5 DEF Ahead, NothingMissed, RepeatsBounded, MissesShow
<1> QED BY <1>1, <1>4, <1>5, <1>6, <1>7

LEMMA CommitPreserves ==
  ASSUME PagingInv, NEW e \in Event, CommitCreateEvent(e)
  PROVE  PagingInv'
<1> USE DEF PagingInv
<1>1. /\ Committed' = Committed \cup {e} /\ e \notin Committed
      /\ createdAt' = createdAt
  BY DEF CommitCreateEvent, CreateEventCommit, Committed, TypeOK, TableTypeOK,
         EventStatus
<1>2. IsFiniteSet(Committed')
  BY <1>1, FS_AddElement
<1>3. /\ first' = first /\ seen' = seen /\ offset' = offset /\ done' = done
      /\ repeats' = repeats /\ shuffled' = shuffled
      /\ arrivals' = IF offset > 0 /\ ~done THEN arrivals + 1 ELSE arrivals
      /\ first \subseteq Committed /\ seen \subseteq Committed
      /\ offset \in Nat /\ repeats \in Nat /\ arrivals \in Nat
  BY DEF TypeOK, CommitCreateEvent
<1>4. TypeOK'
  BY <1>1, <1>3 DEF TypeOK, TableTypeOK, CommitCreateEvent, CreateEventCommit,
                    EventStatus
<1>5. Alone' \subseteq Alone \cup {e}
  BY <1>1 DEF Alone
<1>6. \A f : Rank(f) \in Nat /\ Rank(f)' \in Nat
  <2>1. \A f : Rank(f) \in Nat
    BY RankIsNat
  <2>2. \A f : IsFiniteSet(Newer(f)') /\ Cardinality(Newer(f)') \in Nat
    BY <1>2, FS_Subset, FS_CardinalityType DEF Newer
  <2> QED BY <2>1, <2>2 DEF Rank
<1>7. \A f : Rank(f)' = Rank(f) \/ Rank(f)' = Rank(f) + 1
  <2>1. SUFFICES ASSUME NEW f PROVE Rank(f)' = Rank(f) \/ Rank(f)' = Rank(f) + 1
    OBVIOUS
  <2>2. Newer(f)' = Newer(f) \/ Newer(f)' = Newer(f) \cup {e}
    BY <1>1 DEF Newer
  <2>3. IsFiniteSet(Newer(f)) /\ e \notin Newer(f)
    BY <1>1, RankIsNat DEF Newer
  <2> QED BY <2>2, <2>3, FS_AddElement DEF Rank
<1>8. Ahead' /\ NothingMissed'
  BY <1>1, <1>3, <1>5, <1>6, <1>7 DEF Ahead, NothingMissed
<1>9. RepeatsBounded' /\ MissesShow'
  BY <1>3 DEF RepeatsBounded, MissesShow
<1>10. ASSUME ~done PROVE Cardinality(Beyond') + repeats <= arrivals'
  <2>1. IsFiniteSet(seen) /\ Cardinality(seen) \in Nat
    BY <1>3, FS_Subset, FS_CardinalityType
  <2>2. IsFiniteSet(Beyond) /\ Cardinality(Beyond) \in Nat
    BY <2>1, FS_Subset, FS_CardinalityType DEF Beyond
  <2>3. CASE offset = 0
    <3>1. seen = {}
      <4>1. Cardinality(seen) = 0
        BY <1>3, <2>1, <2>3 DEF TypeOK
      <4> QED BY <2>1, <4>1, FS_EmptySet
    <3>2. Beyond' = {} /\ Beyond = {}
      BY <1>3, <3>1 DEF Beyond
    <3> QED BY <1>3, <1>10, <2>3, <3>2
  <2>4. CASE offset # 0
    <3> DEFINE pushed == {f \in seen \cap Alone : Rank(f) = offset - 1}
    <3>1. Beyond' \subseteq Beyond \cup pushed
      <4>1. SUFFICES ASSUME NEW f \in seen \cap Alone,
                            Rank(f)' >= offset, ~(Rank(f) >= offset)
                     PROVE  Rank(f) = offset - 1
        BY <1>1, <1>3, <1>5 DEF Beyond
      <4> QED BY <1>3, <1>6, <1>7, <4>1
    <3>2. IsFiniteSet(pushed) /\ Cardinality(pushed) \in Nat /\ Cardinality(pushed) <= 1
      <4>1. \A f, g \in pushed : f = g
        <5>1. IsFiniteSet(Committed) /\ TypeOK
          OBVIOUS
        <5>2. \A f, g \in Alone : Rank(f) = Rank(g) => f = g
          <6> HIDE DEF PagingInv
          <6> QED BY <5>1, RanksDiffer
        <5> QED BY <5>2
      <4>2. CASE pushed = {}
        <5> HIDE DEF pushed
        <5> QED BY <4>2, FS_EmptySet
      <4>3. CASE pushed # {}
        <5>1. PICK f : pushed = {f}
          BY <4>1, <4>3
        <5>2. IsFiniteSet({f}) /\ Cardinality({f}) = 1
          BY FS_Singleton
        <5> QED BY <5>1, <5>2
      <4> QED BY <4>2, <4>3
    <3>3. /\ IsFiniteSet(Beyond \cup pushed)
          /\ Cardinality(Beyond \cup pushed) <= Cardinality(Beyond) + 1
      <4>1. Cardinality(Beyond \cap pushed) \in Nat
        BY <2>2, FS_Intersection, FS_CardinalityType
      <4>2. /\ IsFiniteSet(Beyond \cup pushed)
            /\ Cardinality(Beyond \cup pushed) = Cardinality(Beyond)
                 + Cardinality(pushed) - Cardinality(Beyond \cap pushed)
        BY <2>2, <3>2, FS_Union
      <4> QED BY <2>2, <3>2, <4>1, <4>2
    <3>4. /\ Cardinality(Beyond') <= Cardinality(Beyond \cup pushed)
          /\ Cardinality(Beyond') \in Nat /\ Cardinality(Beyond \cup pushed) \in Nat
      BY <3>1, <3>3, FS_Subset, FS_CardinalityType
    <3> QED BY <1>3, <1>10, <2>2, <2>4, <3>3, <3>4
  <2> QED BY <2>3, <2>4
<1> QED BY <1>2, <1>3, <1>4, <1>5, <1>8, <1>9, <1>10

LEMMA WriteStatusPreserves ==
  ASSUME PagingInv, NEW e \in Event, NEW s \in ClientStatuses, WriteStatus(e, s)
  PROVE  PagingInv'
<1> USE DEF PagingInv
<1>1. /\ s \in EventStatus /\ "absent" \notin EventStatus
  BY TableAssumption DEF EventStatus
<1>2. Committed' = Committed /\ createdAt' = createdAt
  BY <1>1 DEF WriteStatus, SetStatus, Committed, TypeOK, TableTypeOK
<1>3. Alone' = Alone /\ \A f : Rank(f)' = Rank(f)
  BY <1>2 DEF Alone, Rank, Newer
<1>4. UNCHANGED pagerVars
  BY DEF WriteStatus
<1>5. TypeOK'
  BY <1>1, <1>2, <1>4 DEF TypeOK, TableTypeOK, WriteStatus, SetStatus, pagerVars
<1>6. Beyond' = Beyond
  BY <1>3, <1>4 DEF Beyond, pagerVars
<1>7. Ahead' /\ NothingMissed' /\ RepeatsBounded' /\ MissesShow'
  BY <1>3, <1>4 DEF Ahead, NothingMissed, RepeatsBounded, MissesShow, pagerVars
<1> QED BY <1>2, <1>4, <1>5, <1>6, <1>7 DEF pagerVars

LEMMA StutterPreserves == PagingInv /\ UNCHANGED vars => PagingInv'
<1> SUFFICES ASSUME PagingInv, UNCHANGED vars PROVE PagingInv'
  OBVIOUS
<1> USE DEF PagingInv, vars, tableVars, pagerVars
<1>1. Committed' = Committed /\ Alone' = Alone /\ \A e : Rank(e)' = Rank(e)
  BY DEF Committed, Alone, Rank, Newer
<1>2. TypeOK'
  BY <1>1 DEF TypeOK, TableTypeOK
<1>3. Beyond' = Beyond
  BY <1>1 DEF Beyond
<1>4. Ahead' /\ NothingMissed' /\ RepeatsBounded' /\ MissesShow'
  BY <1>1 DEF Ahead, NothingMissed, RepeatsBounded, MissesShow
<1> QED BY <1>1, <1>2, <1>3, <1>4

LEMMA PagingInductive == PagingInv /\ [Next]_vars => PagingInv'
<1> SUFFICES ASSUME PagingInv, [Next]_vars PROVE PagingInv'
  OBVIOUS
<1>1. ASSUME NEW page \in SUBSET Event, NEW requested \in Requested,
             ReadPage(page, requested)
      PROVE  PagingInv'
  BY <1>1, ReadPagePreserves
<1>2. ASSUME NEW e \in Event, BeginCreateEvent(e) PROVE PagingInv'
  BY <1>2, BeginPreserves
<1>3. ASSUME NEW e \in Event, CommitCreateEvent(e) PROVE PagingInv'
  BY <1>3, CommitPreserves
<1>4. ASSUME NEW e \in Event, NEW s \in ClientStatuses, WriteStatus(e, s)
      PROVE  PagingInv'
  BY <1>4, WriteStatusPreserves
<1>5. CASE UNCHANGED vars
  BY <1>5, StutterPreserves
<1> QED BY <1>1, <1>2, <1>3, <1>4, <1>5 DEF Next

LEMMA PagingSafe == Spec => []PagingInv
BY PagingInit, PagingInductive, PTL DEF Spec

-----------------------------------------------------------------------------
(* The state of a client that pages, and of the table it reads, is what    *)
(* TypeOK says; in particular its OFFSET counts what it has received.      *)
THEOREM TypeCorrect == Spec => []TypeOK
<1>1. PagingInv => TypeOK
  BY DEF PagingInv
<1> QED BY <1>1, PagingSafe, PTL

(* ListEvents pages lose no row that was there at the start and ties with  *)
(* no other, however many rows are inserted between the pages and wherever *)
(* they are sorted in.                                                     *)
THEOREM PagingIsComplete == Spec => []NothingMissed
<1>1. PagingInv => NothingMissed
  BY DEF PagingInv
<1> QED BY <1>1, PagingSafe, PTL

(* Such a row received twice has been pushed there by a row of its own.    *)
THEOREM RepeatsArePaidFor == Spec => []RepeatsBounded
<1>1. PagingInv => RepeatsBounded
  BY DEF PagingInv
<1> QED BY <1>1, PagingSafe, PTL

(* Whatever ties, and whatever commits meanwhile, there is a row received  *)
(* twice for every row missed.                                             *)
THEOREM MissesAreNoticed == Spec => []MissesShow
<1>1. PagingInv => MissesShow
  BY DEF PagingInv
<1> QED BY <1>1, PagingSafe, PTL

=============================================================================
