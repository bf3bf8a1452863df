------------------------- MODULE ContentResolverQuery -------------------------
(***************************************************************************)
(* ContentResolver.observeQuery (ContentResolverExt.kt) collected through  *)
(* one of the row mappers of extensions.kt: a query that is run once and   *)
(* then again for every change a ContentObserver is told of.               *)
(*                                                                         *)
(* The flow emits the query from onStart, before it is collected itself:   *)
(* the producer of the callbackFlow, which registers the observer, starts  *)
(* when the first run is over.  onChange runs on the main thread, behind a *)
(* Handler, and offers the query to the channel of the callbackFlow; the   *)
(* result of trySend is not looked at.                                     *)
(***************************************************************************)
EXTENDS Naturals, Sequences

CONSTANTS
  Rows,
  BadRow,      \* a row whose mapping throws
  Contents,    \* what the provider may hold: sequences of rows
  Mappers,     \* the mappers a collection may use
  Capacity,    \* of the callbackFlow's channel (64)
  MaxChanges,  \* bound: changes of the content
  NoCursor,    \* no cursor: none is open, or run() returned null
  Default      \* mapToOneOrDefault's default value

ASSUME ObserveAssumption ==
  /\ BadRow \in Rows
  /\ Contents \subseteq Seq(Rows)
  /\ Mappers \subseteq {"mapToOne", "mapToOneOrDefault", "mapToList", "asRows"}
  /\ Capacity \in Nat \ {0} /\ MaxChanges \in Nat
  /\ NoCursor \notin Seq(Rows) /\ Default \notin Rows

VARIABLES
  content,   \* the provider's rows
  changes,   \* how often they changed
  mapper,    \* the mapper of the collection
  phase,     \* the collection
  producer,  \* the callbackFlow's coroutine; "registered" while the observer is
  posted,    \* onChange calls waiting in the main thread's Handler
  buffer,    \* queries in the channel
  hand,      \* the collector holds a query it has not run
  cursor,    \* asRows: the rows left in its open cursor
  shown,     \* what the collector was last given, one or more rows
  seen,      \* history: the changes its last run came after
  answered,  \* history: the last run got a cursor
  unheard    \* history: something changed, unseen, before the observer was there

collection == <<phase, hand, cursor, shown, seen, answered>>
vars == <<content, changes, mapper, collection, producer, posted, buffer, unheard>>

Init ==
  /\ content \in Contents
  /\ changes = 0
  /\ mapper \in Mappers
  /\ phase = "idle"
  /\ producer = "none"
  /\ posted = 0
  /\ buffer = 0
  /\ hand = FALSE
  /\ cursor = NoCursor
  /\ shown = <<>>
  /\ seen = 0
  /\ answered = FALSE
  /\ unheard = FALSE

-----------------------------------------------------------------------------
(* What each mapper makes of a cursor *)

Nothing == [fails |-> FALSE, emits |-> FALSE, value |-> <<>>]
Fails   == [fails |-> TRUE, emits |-> FALSE, value |-> <<>>]
Emits(rows) == [fails |-> FALSE, emits |-> TRUE, value |-> rows]

(* Faulty variants: definitions named Faulty... are plausible mistakes in  *)
(* the definition that follows them, and are never part of Next.           *)
FaultySingleRow(rows) == IF rows[1] = BadRow THEN Fails ELSE Emits(<<rows[1]>>)

(* One row is mapped, and a second one, even if it is never mapped, is an  *)
(* error.                                                                  *)
SingleRow(rows) == IF rows[1] = BadRow \/ Len(rows) > 1 THEN Fails ELSE Emits(rows)

IsEmpty(rows) == rows = NoCursor \/ rows = <<>>

MapToOne(rows) == IF IsEmpty(rows) THEN Nothing ELSE SingleRow(rows)

MapToOneOrDefault(rows) == IF IsEmpty(rows) THEN Emits(<<Default>>) ELSE SingleRow(rows)

(* A null cursor leaves the list empty, and the list is emitted.           *)
MapToList(rows) ==
  IF IsEmpty(rows) THEN Emits(<<>>)
  ELSE IF \E i \in DOMAIN rows : rows[i] = BadRow THEN Fails ELSE Emits(rows)

Outcome(rows) ==
  CASE mapper = "mapToOne" -> MapToOne(rows)
    [] mapper = "mapToOneOrDefault" -> MapToOneOrDefault(rows)
    [] mapper = "mapToList" -> MapToList(rows)

-----------------------------------------------------------------------------
(* The provider *)

(* The content changes and the provider notifies: every registered         *)
(* observer's onChange is posted to the Handler.                           *)
Change ==
  /\ changes < MaxChanges
  /\ changes' = changes + 1
  /\ content' \in Contents \ {content}
  /\ posted' = IF producer = "registered" THEN posted + 1 ELSE posted
  /\ unheard' = (unheard \/ (phase = "open" /\ producer # "registered"))
  /\ UNCHANGED <<mapper, collection, producer, buffer>>

FaultyOnChange ==
  /\ posted > 0
  /\ posted' = posted - 1
  /\ buffer' = buffer + 1
  /\ UNCHANGED <<content, changes, mapper, collection, producer, unheard>>

FaultyOnChangeConflates ==
  /\ posted > 0
  /\ posted' = posted - 1
  /\ buffer' = IF phase = "open" /\ ~hand /\ cursor = NoCursor /\ buffer < Capacity
                 THEN buffer + 1 ELSE buffer
  /\ UNCHANGED <<content, changes, mapper, collection, producer, unheard>>

(* onChange, on the main thread: trySend fails on a full or closed channel.*)
OnChange ==
  /\ posted > 0
  /\ posted' = posted - 1
  /\ buffer' = IF phase = "open" /\ buffer < Capacity THEN buffer + 1 ELSE buffer
  /\ UNCHANGED <<content, changes, mapper, collection, producer, unheard>>

-----------------------------------------------------------------------------
(* The collection *)

(* collect: onStart emits the query. *)
Collect ==
  /\ phase = "idle"
  /\ phase' = "open"
  /\ hand' = TRUE
  /\ UNCHANGED <<content, changes, mapper, cursor, shown, seen, answered, producer,
                 posted, buffer, unheard>>

(* The collection is over: the channel is cancelled. *)
Close ==
  /\ phase' = "closed"
  /\ hand' = FALSE
  /\ cursor' = NoCursor
  /\ buffer' = 0

(* query.run(): the rows of now, or null if the provider cannot answer.    *)
ReadRows(rows) ==
  /\ phase = "open"
  /\ hand
  /\ rows \in {content, NoCursor}
  /\ seen' = changes
  /\ answered' = (rows # NoCursor)
  /\ unheard' = FALSE
  /\ UNCHANGED <<content, changes, mapper, producer, posted>>

(* A mapper that emits after the cursor is closed.  A failure ends the     *)
(* collection.                                                             *)
RunQuery ==
  /\ mapper # "asRows"
  /\ \E rows \in {content, NoCursor} :
       LET outcome == Outcome(rows)
       IN /\ ReadRows(rows)
          /\ shown' = IF outcome.emits THEN outcome.value ELSE shown
          /\ IF outcome.fails
               THEN Close
               ELSE hand' = FALSE /\ UNCHANGED <<phase, cursor, buffer>>

(* asRows keeps the cursor open while it emits. *)
OpenCursor ==
  /\ mapper = "asRows"
  /\ \E rows \in {content, NoCursor} : ReadRows(rows) /\ cursor' = rows
  /\ shown' = <<>>
  /\ hand' = FALSE
  /\ UNCHANGED <<phase, buffer>>

(* The next row is mapped and emitted; the collector may be slow. *)
EmitRow ==
  /\ cursor \notin {NoCursor, <<>>}
  /\ IF Head(cursor) = BadRow
       THEN Close /\ UNCHANGED shown
       ELSE /\ shown' = Append(shown, Head(cursor))
            /\ cursor' = Tail(cursor)
            /\ UNCHANGED <<phase, hand, buffer>>
  /\ UNCHANGED <<content, changes, mapper, producer, posted, seen, answered, unheard>>

(* The rows are exhausted, and the cursor is closed. *)
CloseCursor ==
  /\ cursor = <<>>
  /\ cursor' = NoCursor
  /\ UNCHANGED <<content, changes, mapper, phase, hand, shown, seen, answered, producer,
                 posted, buffer, unheard>>

Idle == phase = "open" /\ ~hand /\ cursor = NoCursor

(* onStart's emit has returned: the callbackFlow is collected. *)
StartProducer ==
  /\ Idle
  /\ producer = "none"
  /\ producer' = "started"
  /\ UNCHANGED <<content, changes, mapper, collection, posted, buffer, unheard>>

(* The producer's coroutine starts even if it was cancelled before. *)
RegisterContentObserver ==
  /\ producer = "started"
  /\ producer' = "registered"
  /\ UNCHANGED <<content, changes, mapper, collection, posted, buffer, unheard>>

FaultyReceive ==
  /\ Idle
  /\ buffer > 0
  /\ buffer' = 0
  /\ hand' = (buffer = 1)
  /\ UNCHANGED <<content, changes, mapper, phase, cursor, shown, seen, answered, producer,
                 posted, unheard>>

(* The next query is received from the channel. *)
Receive ==
  /\ Idle
  /\ buffer > 0
  /\ buffer' = buffer - 1
  /\ hand' = TRUE
  /\ UNCHANGED <<content, changes, mapper, phase, cursor, shown, seen, answered, producer,
                 posted, unheard>>

(* The collector is cancelled; `use` closes a cursor that is open. *)
Cancel ==
  /\ phase = "open"
  /\ Close
  /\ UNCHANGED <<content, changes, mapper, shown, seen, answered, producer, posted, unheard>>

FaultyUnregisterContentObserver ==
  /\ phase = "closed"
  /\ producer = "registered"
  /\ buffer > 0
  /\ producer' = "ended"
  /\ UNCHANGED <<content, changes, mapper, collection, posted, buffer, unheard>>

(* awaitClose, when the producer's coroutine learns of the end. *)
UnregisterContentObserver ==
  /\ phase = "closed"
  /\ producer = "registered"
  /\ producer' = "ended"
  /\ UNCHANGED <<content, changes, mapper, collection, posted, buffer, unheard>>

-----------------------------------------------------------------------------
(* The collector's coroutine, the producer's and the main thread. *)
CollectorStep == RunQuery \/ OpenCursor \/ EmitRow \/ CloseCursor \/ StartProducer \/ Receive
ProducerStep  == RegisterContentObserver \/ UnregisterContentObserver

Next == Change \/ Collect \/ Cancel \/ OnChange \/ CollectorStep \/ ProducerStep

Spec == Init /\ [][Next]_vars

FairSpec == Spec /\ WF_vars(CollectorStep) /\ WF_vars(ProducerStep) /\ WF_vars(OnChange)

-----------------------------------------------------------------------------
TypeOK ==
  /\ content \in Contents
  /\ changes \in 0..MaxChanges
  /\ mapper \in Mappers
  /\ phase \in {"idle", "open", "closed"}
  /\ producer \in {"none", "started", "registered", "ended"}
  /\ posted \in 0..MaxChanges
  /\ buffer \in 0..Capacity
  /\ hand \in BOOLEAN
  /\ cursor \in Seq(Rows) \cup {NoCursor}
  /\ shown \in Seq(Rows \cup {Default})
  /\ seen \in 0..MaxChanges
  /\ answered \in BOOLEAN
  /\ unheard \in BOOLEAN

(* A change reaches the collector through a Handler, a channel that may    *)
(* refuse it, and a collector that may be busy.  A collector that is       *)
(* behind has a run before it, unless the change came before the observer  *)
(* was registered: a refused trySend always leaves a query in the channel  *)
(* that was not run yet.                                                   *)
StaleRunsAgain ==
  phase = "open" /\ seen # changes => hand \/ buffer > 0 \/ posted > 0 \/ unheard

(* What the mappers promise of a flow at rest: the collector was last      *)
(* given the rows there are, or the default for none.  mapToOne says       *)
(* nothing of an empty result, so its collector keeps the row before; and  *)
(* no mapper says anything when the provider did not answer.               *)
ShownIsCurrent ==
  Idle /\ seen = changes /\ answered =>
    \/ shown = content
    \/ content = <<>> /\ mapper = "mapToOne"
    \/ content = <<>> /\ mapper = "mapToOneOrDefault" /\ shown = <<Default>>

(* While the observer is registered, every change is read in the end, or   *)
(* the collection is over.                                                 *)
ChangesAreRead ==
  \A n \in 1..MaxChanges :
    phase = "open" /\ changes = n /\ ~unheard ~> phase = "closed" \/ seen >= n

(* Whatever ends a collection (the error of a second row, a row that cannot *)
(* be mapped, cancellation), it ends up quiet and stays so: the observer is *)
(* unregistered, though the producer may register it after the end, late   *)
(* onChange calls find the channel closed, and no cursor is left open.     *)
Quiet ==
  producer \in {"none", "ended"} /\ ~hand /\ buffer = 0 /\ cursor = NoCursor

ClosedIsQuiet == phase = "closed" ~> [](phase = "closed" /\ Quiet)

=============================================================================
