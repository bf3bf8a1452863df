---------------------- MODULE ContentResolverQueryProofs ----------------------
(***************************************************************************)
(* Theorems about ContentResolverQuery, for any provider, mappers, channel *)
(* capacity and number of changes: the types, that a collector which is    *)
(* behind runs again, that one at rest shows what there is, and that one   *)
(* that is over stays quiet.                                               *)
(***************************************************************************)
EXTENDS ContentResolverQuery, SequenceTheorems, TLAPS

(* No more onChange calls wait than there were changes. *)
PostedBounded == posted <= changes

TypeInv == TypeOK /\ PostedBounded

(* What the steps below need of ObserveAssumption. *)
LEMMA Bounds ==
  /\ Capacity \in Nat \ {0} /\ MaxChanges \in Nat
  /\ 0 \in 0..Capacity /\ 0 \in 0..MaxChanges
BY ObserveAssumption

-----------------------------------------------------------------------------
(* Row mappers *)

(* What a mapper emits is a sequence of rows, or the default. *)
LEMMA OutcomeType ==
  ASSUME TypeOK, mapper # "asRows", NEW rows \in {content, NoCursor}
  PROVE  /\ Outcome(rows).emits \in BOOLEAN /\ Outcome(rows).fails \in BOOLEAN
         /\ Outcome(rows).emits => Outcome(rows).value \in Seq(Rows \cup {Default})
<1>1. content \in Seq(Rows)
  BY ObserveAssumption DEF TypeOK
<1>2. Seq(Rows) \subseteq Seq(Rows \cup {Default})
  OBVIOUS
<1>3. <<>> \in Seq(Rows \cup {Default}) /\ <<Default>> \in Seq(Rows \cup {Default})
  OBVIOUS
<1>4. ~IsEmpty(rows) => rows \in Seq(Rows \cup {Default})
  BY <1>1, <1>2 DEF IsEmpty
<1>5. mapper \in {"mapToOne", "mapToOneOrDefault", "mapToList"}
  BY ObserveAssumption DEF TypeOK
<1>6. CASE mapper = "mapToOne"
  BY <1>4, <1>6 DEF Outcome, MapToOne, SingleRow, Nothing, Fails, Emits
<1>7. CASE mapper = "mapToOneOrDefault"
  BY <1>3, <1>4, <1>7 DEF Outcome, MapToOneOrDefault, SingleRow, Fails, Emits
<1>8. CASE mapper = "mapToList"
  BY <1>3, <1>4, <1>8 DEF Outcome, MapToList, Fails, Emits
<1> QED
  BY <1>5, <1>6, <1>7, <1>8

(* A mapper that does not fail emits all rows there are, except that       *)
(* mapToOne says nothing of none and mapToOneOrDefault gives its default.  *)
LEMMA OutcomeShowsAll ==
  ASSUME TypeOK, mapper # "asRows", ~Outcome(content).fails
  PROVE  \/ Outcome(content).emits /\ Outcome(content).value = content
         \/ content = <<>> /\ mapper = "mapToOne"
         \/ /\ content = <<>> /\ mapper = "mapToOneOrDefault"
            /\ Outcome(content).emits /\ Outcome(content).value = <<Default>>
<1>1. content # NoCursor
  BY ObserveAssumption DEF TypeOK
<1>2. mapper \in {"mapToOne", "mapToOneOrDefault", "mapToList"}
  BY ObserveAssumption DEF TypeOK
<1>3. CASE mapper = "mapToOne"
  BY <1>1, <1>3 DEF Outcome, MapToOne, SingleRow, IsEmpty, Nothing, Fails, Emits
<1>4. CASE mapper = "mapToOneOrDefault"
  BY <1>1, <1>4 DEF Outcome, MapToOneOrDefault, SingleRow, IsEmpty, Fails, Emits
<1>5. CASE mapper = "mapToList"
  BY <1>1, <1>5 DEF Outcome, MapToList, IsEmpty, Fails, Emits
<1> QED
  BY <1>2, <1>3, <1>4, <1>5

-----------------------------------------------------------------------------
(* The steps of the collector that are over in one go. *)
LEMMA RunTypes ==
  ASSUME TypeInv, RunQuery
  PROVE  TypeInv'
<1>1. PICK rows \in {content, NoCursor} :
        /\ ReadRows(rows)
        /\ shown' = IF Outcome(rows).emits THEN Outcome(rows).value ELSE shown
        /\ IF Outcome(rows).fails
             THEN Close
             ELSE hand' = FALSE /\ UNCHANGED <<phase, cursor, buffer>>
  BY DEF RunQuery
<1>2. TypeOK /\ mapper # "asRows"
  BY DEF TypeInv, RunQuery
<1>3. shown' \in Seq(Rows \cup {Default})
  BY <1>1, <1>2, OutcomeType DEF TypeOK
<1>4. /\ phase' \in {"idle", "open", "closed"} /\ buffer' \in 0..Capacity
      /\ hand' \in BOOLEAN /\ cursor' \in Seq(Rows) \cup {NoCursor}
  BY <1>1, <1>2, Bounds DEF Close, TypeOK
<1> QED
  BY <1>1, <1>2, <1>3, <1>4 DEF TypeInv, TypeOK, PostedBounded, ReadRows

(* The steps of asRows, row by row. *)
LEMMA CursorTypes ==
  ASSUME TypeInv, OpenCursor \/ EmitRow \/ CloseCursor
  PROVE  TypeInv'
<1>1. TypeOK
  BY DEF TypeInv
<1>2. CASE OpenCursor
  <2>1. PICK rows \in {content, NoCursor} : ReadRows(rows) /\ cursor' = rows
    BY <1>2 DEF OpenCursor
  <2>2. cursor' \in Seq(Rows) \cup {NoCursor}
    BY <1>1, <2>1, ObserveAssumption DEF TypeOK
  <2>3. shown' \in Seq(Rows \cup {Default}) /\ hand' = FALSE
    BY <1>2 DEF OpenCursor
  <2> QED
    BY <1>1, <1>2, <2>1, <2>2, <2>3
    DEF OpenCursor, ReadRows, TypeInv, TypeOK, PostedBounded
<1>3. CASE EmitRow
  <2>1. /\ cursor \in Seq(Rows) /\ cursor # <<>>
    BY <1>1, <1>3 DEF EmitRow, TypeOK
  <2>2. Head(cursor) \in Rows /\ Tail(cursor) \in Seq(Rows)
    BY <2>1
  <2>3. Append(shown, Head(cursor)) \in Seq(Rows \cup {Default})
    BY <1>1, <2>2 DEF TypeOK
  <2>4. CASE Head(cursor) = BadRow
    <3>1. Close /\ shown' = shown
      BY <1>3, <2>4 DEF EmitRow
    <3> QED
      BY <1>1, <1>3, <3>1, Bounds
      DEF EmitRow, Close, TypeInv, TypeOK, PostedBounded
  <2>5. CASE Head(cursor) # BadRow
    <3>1. /\ shown' = Append(shown, Head(cursor)) /\ cursor' = Tail(cursor)
          /\ UNCHANGED <<phase, hand, buffer>>
      BY <1>3, <2>5 DEF EmitRow
    <3> QED
      BY <1>1, <1>3, <2>2, <2>3, <3>1 DEF EmitRow, TypeInv, TypeOK, PostedBounded
  <2> QED
    BY <2>4, <2>5
<1>4. CASE CloseCursor
  BY <1>1, <1>4 DEF CloseCursor, TypeInv, TypeOK, PostedBounded
<1> QED
  BY <1>2, <1>3, <1>4

(* Everything else that happens. *)
LEMMA OtherTypes ==
  ASSUME TypeInv,
         \/ Change \/ Collect \/ Cancel \/ OnChange \/ StartProducer \/ Receive
         \/ RegisterContentObserver \/ UnregisterContentObserver
  PROVE  TypeInv'
<1>1. TypeOK /\ PostedBounded
  BY DEF TypeInv
<1>2. CASE Change
  BY <1>1, <1>2, ObserveAssumption DEF Change, collection, TypeInv, TypeOK, PostedBounded
<1>3. CASE Collect
  BY <1>1, <1>3 DEF Collect, TypeInv, TypeOK, PostedBounded
<1>4. CASE Cancel
  BY <1>1, <1>4, Bounds DEF Cancel, Close, TypeInv, TypeOK, PostedBounded
<1>5. CASE OnChange
  BY <1>1, <1>5, ObserveAssumption DEF OnChange, collection, TypeInv, TypeOK, PostedBounded
<1>6. CASE StartProducer
  BY <1>1, <1>6 DEF StartProducer, collection, TypeInv, TypeOK, PostedBounded
<1>7. CASE Receive
  BY <1>1, <1>7, ObserveAssumption DEF Receive, TypeInv, TypeOK, PostedBounded
<1>8. CASE RegisterContentObserver \/ UnregisterContentObserver
  BY <1>1, <1>8 DEF RegisterContentObserver, UnregisterContentObserver, collection, TypeInv,
     TypeOK, PostedBounded
<1> QED
  BY <1>2, <1>3, <1>4, <1>5, <1>6, <1>7, <1>8

(* The types hold, and no more onChange calls wait than changes were made. *)
LEMMA TypesInvariant == Spec => []TypeInv
<1>1. Init => TypeInv
  <2> SUFFICES ASSUME Init PROVE TypeInv
    OBVIOUS
  <2>1. shown \in Seq(Rows \cup {Default})
    BY DEF Init
  <2>2. /\ changes = 0 /\ posted = 0 /\ buffer = 0 /\ seen = 0
        /\ phase = "idle" /\ producer = "none" /\ cursor = NoCursor
        /\ hand = FALSE /\ answered = FALSE /\ unheard = FALSE
        /\ content \in Contents /\ mapper \in Mappers
    BY DEF Init
  <2>3. 0 \in 0..MaxChanges /\ 0 \in 0..Capacity /\ 0 <= 0
    BY Bounds
  <2> QED
    BY <2>1, <2>2, <2>3 DEF TypeInv, TypeOK, PostedBounded
<1>2. TypeInv /\ [Next]_vars => TypeInv'
  <2> SUFFICES ASSUME TypeInv, [Next]_vars PROVE TypeInv'
    OBVIOUS
  <2>1. CASE UNCHANGED vars
    BY <2>1 DEF vars, collection, TypeInv, TypeOK, PostedBounded
  <2> QED
    BY <2>1, RunTypes, CursorTypes, OtherTypes DEF Next, CollectorStep, ProducerStep
<1> QED
  BY <1>1, <1>2, PTL DEF Spec

(* Types, for any contents and mappers: the channel never holds more than  *)
(* its capacity (callbackFlow's default buffer), however many changes come. *)
THEOREM TypeCorrect == Spec => []TypeOK
<1>1. TypeInv => TypeOK
  BY DEF TypeInv
<1> QED
  BY <1>1, TypesInvariant, PTL

-----------------------------------------------------------------------------
(* A collector that is behind has a run before it, or the change came      *)
(* before the observer was there: a trySend that fails finds queries in    *)
(* the channel that were not run yet (ContentResolverExt.kt, onChange).    *)
THEOREM StaleCollectorsRun == Spec => []StaleRunsAgain
<1>1. Init => StaleRunsAgain
  BY DEF Init, StaleRunsAgain
<1>2. TypeInv /\ StaleRunsAgain /\ [Next]_vars => StaleRunsAgain'
  <2> SUFFICES ASSUME TypeOK, StaleRunsAgain, [Next]_vars PROVE StaleRunsAgain'
    BY DEF TypeInv
  <2>1. posted \in Nat /\ buffer \in Nat /\ Capacity \in Nat \ {0}
    BY ObserveAssumption DEF TypeOK
  <2>2. CASE Change
    <3>1. CASE producer = "registered"
      BY <2>1, <2>2, <3>1 DEF Change, StaleRunsAgain
    <3>2. CASE producer # "registered"
      BY <2>2, <3>2 DEF Change, collection, StaleRunsAgain
    <3> QED
      BY <3>1, <3>2
  <2>3. CASE Collect
    BY <2>3 DEF Collect, StaleRunsAgain
  <2>4. CASE Cancel
    BY <2>4 DEF Cancel, Close, StaleRunsAgain
  <2>5. CASE OnChange
    BY <2>1, <2>5 DEF OnChange, collection, StaleRunsAgain
  <2>6. CASE RunQuery
    BY <2>6 DEF RunQuery, ReadRows, StaleRunsAgain
  <2>7. CASE OpenCursor
    BY <2>7 DEF OpenCursor, ReadRows, StaleRunsAgain
  <2>8. CASE EmitRow
    BY <2>8 DEF EmitRow, Close, StaleRunsAgain
  <2>9. CASE CloseCursor
    BY <2>9 DEF CloseCursor, StaleRunsAgain
  <2>10. CASE Receive
    BY <2>10 DEF Receive, StaleRunsAgain
  <2>11. CASE StartProducer \/ ProducerStep
    BY <2>11 DEF StartProducer, ProducerStep, RegisterContentObserver,
       UnregisterContentObserver, collection, StaleRunsAgain
  <2>12. CASE UNCHANGED vars
    BY <2>12 DEF vars, collection, StaleRunsAgain
  <2> QED
    BY <2>2, <2>3, <2>4, <2>5, <2>6, <2>7, <2>8, <2>9, <2>10, <2>11, <2>12
    DEF Next, CollectorStep
<1> QED
  BY <1>1, <1>2, TypesInvariant, PTL DEF Spec

-----------------------------------------------------------------------------
(* No run is ahead of the changes. *)
SeenBounded == seen <= changes

(* While asRows emits, what it has emitted and what is left in its cursor  *)
(* are together the rows there are, unless they changed since.             *)
CursorComplete ==
  cursor # NoCursor => (seen = changes /\ answered => shown \o cursor = content)

(* No query is run, and none is waited for, while a cursor is open. *)
CursorAlone == cursor # NoCursor => phase = "open" /\ ~hand

ShownInv == SeenBounded /\ CursorComplete /\ CursorAlone /\ ShownIsCurrent

(* One row moves from the cursor to the collector. *)
LEMMA MovedRow ==
  ASSUME NEW S, NEW s \in Seq(S), NEW u \in Seq(S), u # <<>>
  PROVE  Append(s, Head(u)) \o Tail(u) = s \o u
<1>1. Len(u) \in Nat \ {0} /\ Len(s) \in Nat
  BY EmptySeq, LenProperties
<1>2. /\ Tail(u) \in Seq(S) /\ Len(Tail(u)) = Len(u) - 1
      /\ \A i \in 1..(Len(u) - 1) : Tail(u)[i] = u[i + 1]
      /\ Head(u) = u[1] /\ Head(u) \in S
  BY <1>1, HeadTailProperties
<1>3. /\ Append(s, Head(u)) \in Seq(S) /\ Len(Append(s, Head(u))) = Len(s) + 1
      /\ \A i \in 1..Len(s) : Append(s, Head(u))[i] = s[i]
      /\ Append(s, Head(u))[Len(s) + 1] = Head(u)
  BY <1>1, <1>2, AppendProperties
<1> DEFINE l == Append(s, Head(u)) \o Tail(u)
           r == s \o u
<1>4. /\ l \in Seq(S) /\ Len(l) = Len(s) + Len(u)
      /\ \A i \in 1..Len(l) : l[i] = IF i <= Len(s) + 1 THEN Append(s, Head(u))[i]
                                     ELSE Tail(u)[i - (Len(s) + 1)]
  BY <1>1, <1>2, <1>3, ConcatProperties
<1>5. /\ r \in Seq(S) /\ Len(r) = Len(s) + Len(u)
      /\ \A i \in 1..Len(r) : r[i] = IF i <= Len(s) THEN s[i] ELSE u[i - Len(s)]
  BY <1>1, ConcatProperties
<1> HIDE DEF l, r
<1>6. ASSUME NEW i \in 1..Len(l) PROVE l[i] = r[i]
  <2>1. i \in 1..Len(r) /\ i \in Nat
    BY <1>1, <1>4, <1>5
  <2>2. CASE i <= Len(s)
    <3>1. i <= Len(s) + 1 /\ i \in 1..Len(s)
      BY <1>1, <2>1, <2>2
    <3> QED
      BY <1>3, <1>4, <1>5, <2>1, <2>2, <3>1
  <2>3. CASE i = Len(s) + 1
    <3>1. ~(i <= Len(s)) /\ i - Len(s) = 1 /\ i <= Len(s) + 1
      BY <1>1, <2>3
    <3>2. l[i] = Append(s, Head(u))[i] /\ r[i] = u[1]
      BY <1>4, <1>5, <2>1, <3>1
    <3> QED
      BY <1>2, <1>3, <2>3, <3>2
  <2>4. CASE i > Len(s) + 1
    <3> DEFINE j == i - (Len(s) + 1)
    <3>1. /\ ~(i <= Len(s)) /\ ~(i <= Len(s) + 1)
          /\ j \in 1..(Len(u) - 1) /\ j + 1 = i - Len(s)
      BY <1>1, <1>4, <2>1, <2>4
    <3>2. l[i] = Tail(u)[j] /\ r[i] = u[j + 1]
      BY <1>4, <1>5, <2>1, <3>1
    <3> HIDE DEF j
    <3> QED
      BY <1>2, <3>1, <3>2
  <2> QED
    BY <1>1, <2>1, <2>2, <2>3, <2>4
<1>7. l = r
  BY <1>4, <1>5, <1>6, SeqEqual
<1> QED
  BY <1>7 DEF l, r

(* A run at once shows all rows there are, or nothing new of none, or ends *)
(* the collection.                                                         *)
LEMMA RunShows ==
  ASSUME TypeOK, ShownInv, RunQuery
  PROVE  ShownInv'
<1>1. PICK rows \in {content, NoCursor} :
        /\ ReadRows(rows)
        /\ shown' = IF Outcome(rows).emits THEN Outcome(rows).value ELSE shown
        /\ IF Outcome(rows).fails
             THEN Close
             ELSE hand' = FALSE /\ UNCHANGED <<phase, cursor, buffer>>
  BY DEF RunQuery
<1>2. mapper # "asRows"
  BY DEF RunQuery
<1>3. /\ UNCHANGED <<content, changes, mapper>>
      /\ seen' = changes /\ (answered' <=> rows # NoCursor)
  BY <1>1 DEF ReadRows
<1>4. SeenBounded'
  BY <1>3 DEF SeenBounded, TypeOK
<1>5. cursor' = NoCursor
  BY <1>1 DEF ReadRows, Close, ShownInv, CursorAlone
<1>6. ShownIsCurrent'
  <2> SUFFICES ASSUME Idle', answered'
               PROVE  \/ shown' = content
                      \/ content = <<>> /\ mapper = "mapToOne"
                      \/ content = <<>> /\ mapper = "mapToOneOrDefault" /\ shown' = <<Default>>
    BY <1>3 DEF ShownIsCurrent
  <2>1. rows = content
    BY <1>3
  <2>2. ~Outcome(rows).fails
    BY <1>1 DEF Close, Idle
  <2> QED
    BY <1>1, <1>2, <2>1, <2>2, OutcomeShowsAll
<1> QED
  BY <1>4, <1>5, <1>6 DEF ShownInv, CursorComplete, CursorAlone

(* Row by row, the rows shown and those the cursor has still to give are   *)
(* all there are.                                                          *)
LEMMA CursorShows ==
  ASSUME TypeOK, ShownInv, OpenCursor \/ EmitRow \/ CloseCursor
  PROVE  ShownInv'
<1>1. SeenBounded /\ CursorComplete /\ CursorAlone /\ ShownIsCurrent /\ changes \in Nat
  BY DEF ShownInv, TypeOK
<1>2. content \in Seq(Rows)
  BY ObserveAssumption DEF TypeOK
<1>3. CASE OpenCursor
  <2>1. PICK rows \in {content, NoCursor} : ReadRows(rows) /\ cursor' = rows
    BY <1>3 DEF OpenCursor
  <2>2. /\ UNCHANGED <<content, changes, mapper, phase>> /\ phase = "open"
        /\ seen' = changes /\ (answered' <=> rows # NoCursor)
        /\ shown' = <<>> /\ hand' = FALSE
    BY <1>3, <2>1 DEF OpenCursor, ReadRows
  <2>3. <<>> \o content = content
    BY <1>2
  <2>4. content # NoCursor
    BY <1>2, ObserveAssumption
  <2>5. SeenBounded' /\ CursorComplete' /\ CursorAlone'
    BY <1>1, <2>1, <2>2, <2>3 DEF SeenBounded, CursorComplete, CursorAlone
  <2>6. ShownIsCurrent'
    BY <2>1, <2>2, <2>4 DEF ShownIsCurrent, Idle
  <2> QED
    BY <2>5, <2>6 DEF ShownInv
<1>4. CASE EmitRow
  <2>1. UNCHANGED <<content, changes, mapper, seen, answered>> /\ cursor # NoCursor
    BY <1>4 DEF EmitRow
  <2>2. CASE Head(cursor) = BadRow
    <3>1. Close
      BY <1>4, <2>2 DEF EmitRow
    <3> QED
      BY <1>1, <2>1, <3>1
      DEF Close, ShownInv, SeenBounded, CursorComplete, CursorAlone, ShownIsCurrent, Idle
  <2>3. CASE Head(cursor) # BadRow
    <3>1. /\ shown' = Append(shown, Head(cursor)) /\ cursor' = Tail(cursor)
          /\ UNCHANGED <<phase, hand, buffer>>
      BY <1>4, <2>3 DEF EmitRow
    <3>2. cursor \in Seq(Rows \cup {Default}) /\ cursor # <<>>
      <4>1. cursor \in Seq(Rows)
        BY <1>4 DEF EmitRow, TypeOK
      <4> QED
        BY <1>4, <4>1 DEF EmitRow
    <3>3. shown' \o cursor' = shown \o cursor
      BY <3>1, <3>2, MovedRow DEF TypeOK
    <3>4. CursorComplete'
      BY <1>1, <2>1, <3>3 DEF CursorComplete
    <3>5. cursor' # NoCursor
      <4>1. cursor \in Seq(Rows) /\ cursor # <<>>
        BY <1>4 DEF EmitRow, TypeOK
      <4>2. Tail(cursor) \in Seq(Rows)
        BY <4>1
      <4> QED
        BY <3>1, <4>2, ObserveAssumption
    <3>6. SeenBounded' /\ CursorAlone' /\ ShownIsCurrent'
      BY <1>1, <2>1, <3>1, <3>5 DEF SeenBounded, CursorAlone, ShownIsCurrent, Idle
    <3> QED
      BY <3>4, <3>6 DEF ShownInv
  <2> QED
    BY <2>2, <2>3
<1>5. CASE CloseCursor
  <2>1. /\ cursor = <<>> /\ cursor' = NoCursor
        /\ UNCHANGED <<content, changes, mapper, phase, hand, shown, seen, answered>>
    BY <1>5 DEF CloseCursor
  <2>2. shown \o <<>> = shown /\ <<>> # NoCursor
    <3>1. <<>> \in Seq(Rows) /\ shown \in Seq(Rows \cup {Default})
      BY DEF TypeOK
    <3>2. <<>> # NoCursor
      BY <3>1, ObserveAssumption
    <3>3. shown \o <<>> = shown
      BY <3>1
    <3> QED
      BY <3>2, <3>3
  <2>3. seen = changes /\ answered => shown = content
    BY <1>1, <2>1, <2>2 DEF CursorComplete
  <2> QED
    BY <1>1, <2>1, <2>3
    DEF ShownInv, SeenBounded, CursorComplete, CursorAlone, ShownIsCurrent
<1> QED
  BY <1>3, <1>4, <1>5

(* At rest a collector shows what it read; with a cursor in hand, what the *)
(* cursor has passed of it.                                                *)
LEMMA ShownInvariant == Spec => []ShownInv
<1>1. Init => ShownInv
  BY DEF Init, ShownInv, SeenBounded, CursorComplete, CursorAlone, ShownIsCurrent, Idle
<1>2. TypeOK /\ ShownInv /\ [Next]_vars => ShownInv'
  <2> SUFFICES ASSUME TypeOK, ShownInv, [Next]_vars PROVE ShownInv'
    OBVIOUS
  <2>1. /\ SeenBounded /\ CursorComplete /\ CursorAlone /\ ShownIsCurrent
        /\ changes \in Nat /\ seen \in Nat
    BY Bounds DEF ShownInv, TypeOK
  <2> USE DEF ShownInv, SeenBounded, CursorComplete, CursorAlone, ShownIsCurrent, Idle
  <2>2. CASE Change
    <3>1. changes' = changes + 1 /\ UNCHANGED <<cursor, phase, hand, seen>>
      BY <2>2 DEF Change, collection
    <3>2. seen' # changes' /\ seen' <= changes'
      BY <2>1, <3>1
    <3> QED
      BY <2>1, <3>1, <3>2
  <2>3. CASE Collect
    BY <2>1, <2>3 DEF Collect
  <2>4. CASE Cancel
    BY <2>1, <2>4 DEF Cancel, Close
  <2>5. CASE Receive
    BY <2>1, <2>5 DEF Receive
  <2>6. CASE OnChange \/ StartProducer \/ ProducerStep \/ UNCHANGED vars
    <3>1. UNCHANGED <<content, changes, mapper, collection>>
      BY <2>6 DEF OnChange, StartProducer, ProducerStep, RegisterContentObserver,
         UnregisterContentObserver, vars
    <3> QED
      BY <2>1, <3>1 DEF collection
  <2> QED
    BY <2>2, <2>3, <2>4, <2>5, <2>6, RunShows, CursorShows DEF Next, CollectorStep
<1> QED
  BY <1>1, <1>2, TypeCorrect, PTL DEF Spec

(* A collector at rest that has seen the last change was given all the     *)
(* rows there are, by whichever mapper, row by row or at once.             *)
THEOREM RestShowsContent == Spec => []ShownIsCurrent
<1>1. ShownInv => ShownIsCurrent
  BY DEF ShownInv
<1> QED
  BY <1>1, ShownInvariant, PTL

-----------------------------------------------------------------------------
(* After the end *)

(* What is left to do when a collection is over: the observer is there or  *)
(* will be, and the producer's coroutine has to remove it.                 *)
ProducerLeft == producer \in {"started", "registered"}

(* A collection that is over holds no query, no cursor and none in its     *)
(* channel, whatever ended it.                                             *)
ClosedHoldsNothing == phase = "closed" => ~hand /\ cursor = NoCursor /\ buffer = 0

(* No step of the collector, the producer or the main thread, late         *)
(* onChange calls among them, gives a collection that is over anything.    *)
LEMMA ClosedKept ==
  TypeInv /\ ClosedHoldsNothing /\ [Next]_vars =>
    ClosedHoldsNothing' /\ (phase = "closed" => phase' = "closed")
<1> SUFFICES ASSUME TypeInv, ClosedHoldsNothing, [Next]_vars
             PROVE  ClosedHoldsNothing' /\ (phase = "closed" => phase' = "closed")
  OBVIOUS
<1>1. CASE Change
  BY <1>1 DEF Change, ClosedHoldsNothing, collection
<1>2. CASE Collect
  BY <1>2 DEF Collect, ClosedHoldsNothing
<1>3. CASE Cancel
  BY <1>3 DEF Cancel, Close, ClosedHoldsNothing
<1>4. CASE OnChange
  BY <1>4 DEF OnChange, ClosedHoldsNothing, collection
<1>5. CASE RunQuery
  <2>1. phase = "open" /\ (Close \/ UNCHANGED phase)
    BY <1>5 DEF RunQuery, ReadRows
  <2> QED
    BY <2>1 DEF Close, ClosedHoldsNothing
<1>6. CASE OpenCursor
  BY <1>6 DEF OpenCursor, ReadRows, ClosedHoldsNothing
<1>7. CASE EmitRow
  <2>1. phase # "closed" /\ (Close \/ UNCHANGED phase)
    BY <1>7 DEF EmitRow, ClosedHoldsNothing
  <2> QED
    BY <2>1 DEF Close, ClosedHoldsNothing
<1>8. CASE CloseCursor
  BY <1>8 DEF CloseCursor, ClosedHoldsNothing
<1>9. CASE StartProducer \/ ProducerStep
  BY <1>9 DEF StartProducer, ProducerStep, RegisterContentObserver, UnregisterContentObserver,
              ClosedHoldsNothing, collection
<1>10. CASE Receive
  BY <1>10 DEF Receive, Idle, ClosedHoldsNothing
<1>11. CASE UNCHANGED vars
  BY <1>11 DEF vars, collection, ClosedHoldsNothing
<1> QED
  BY <1>1, <1>2, <1>3, <1>4, <1>5, <1>6, <1>7, <1>8, <1>9, <1>10, <1>11
     DEF Next, CollectorStep

(* A collection that is over is quiet but for its observer, which the      *)
(* producer then can still remove, even one that registers it after the    *)
(* end (ContentResolverExt.kt, awaitClose).                                *)
THEOREM ClosedLeavesObserver == Spec => [](phase = "closed" => Quiet \/ ProducerLeft)
<1>1. Init => ClosedHoldsNothing
  BY DEF Init, ClosedHoldsNothing
<1>2. TypeInv /\ ClosedHoldsNothing => (phase = "closed" => Quiet \/ ProducerLeft)
  BY DEF TypeInv, TypeOK, ClosedHoldsNothing, Quiet, ProducerLeft
<1> QED
  BY <1>1, <1>2, TypesInvariant, ClosedKept, PTL DEF Spec

(* Once the observer is gone nothing wakes the collection again: the part  *)
(* of ClosedIsQuiet that needs no fairness.                                *)
THEOREM QuietForGood ==
  Spec => [][phase = "closed" /\ Quiet => (phase = "closed" /\ Quiet)']_vars
<1>1. Init => ClosedHoldsNothing
  BY DEF Init, ClosedHoldsNothing
<1>2. TypeInv /\ ClosedHoldsNothing /\ [Next]_vars =>
        [phase = "closed" /\ Quiet => (phase = "closed" /\ Quiet)']_vars
  <2> SUFFICES ASSUME TypeInv, ClosedHoldsNothing, [Next]_vars, phase = "closed", Quiet
               PROVE  phase' = "closed" /\ Quiet'
    OBVIOUS
  <2>1. phase' = "closed" /\ ~hand' /\ cursor' = NoCursor /\ buffer' = 0
    BY ClosedKept DEF ClosedHoldsNothing
  <2>2. producer' = producer
    BY DEF Next, CollectorStep, ProducerStep, Change, Collect, Cancel, OnChange, RunQuery,
           OpenCursor, ReadRows, EmitRow, CloseCursor, StartProducer, Receive, Idle,
           RegisterContentObserver, UnregisterContentObserver, Quiet, vars
  <2> QED
    BY <2>1, <2>2 DEF Quiet
<1> QED
  BY <1>1, <1>2, TypesInvariant, ClosedKept, PTL DEF Spec

=============================================================================
