--------------------------- MODULE ObservableQuery ---------------------------
(***************************************************************************)
(* The observable queries of KiteDatabase: writers that change tables and  *)
(* then announce the change on the `triggers` shared flow, and collectors  *)
(* of createQuery(...) that re-run their SQL when a trigger names one of   *)
(* their tables.                                                           *)
(*                                                                         *)
(* One collector is one collection of the cold flow built at               *)
(* KiteDatabase.kt:260-266:                                                *)
(*                                                                         *)
(*   triggers.onSubscription{..}.filter{..}.map{..}.onStart{emit(query)}   *)
(*           .flowOn(queryDispatcher)                                      *)
(*                                                                         *)
(* The part before flowOn (the upstream) runs on the query dispatcher; the *)
(* collector that runs the query is the downstream.  A channel joins them, *)
(* unless the collector already is on the query dispatcher: then the       *)
(* upstream calls the collector directly, the capacity 0 here.             *)
(*                                                                         *)
(* Rows are abstracted to a version number per table, which counts the     *)
(* committed changes of the table.  A transaction is one write: its commit *)
(* changes its tables at once and announces them afterwards (module        *)
(* SuspendingTransaction has the inside of it).                            *)
(***************************************************************************)
EXTENDS Integers, Sequences, FiniteSets

CONSTANTS
  Tables,               \* the tables of the schema
  Collectors,           \* collections of observable queries
  Writers,              \* coroutines that write
  QueryTables,          \* the tables each collector's query was created with
  ChannelCapacity,      \* flowOn's channel per collector; 0: no channel
  ExtraBufferCapacity,  \* of the triggers flow
  TriggerSets,          \* the sets of tables a single trigger may name
  WriteKinds,           \* which of the API's ways to write are in use
  MaxVersion            \* bound on the changes of a table

(* "suspending": insert, update, delete and executeAndTrigger, which reach *)
(*     a suspension point between the write and its trigger;               *)
(* "statement": executeInsert, executeUpdateDelete and the commit of a     *)
(*     transaction, which send the trigger with no suspension in between;  *)
(* "execute": execute, which sends no trigger at all.                      *)
Kinds == {"suspending", "statement", "execute"}

ASSUME QueryAssumption ==
  /\ QueryTables \in [Collectors -> SUBSET Tables]
  /\ ChannelCapacity \in [Collectors -> Nat]
  /\ ExtraBufferCapacity \in Nat \ {0}
  /\ TriggerSets \subseteq SUBSET Tables
  /\ WriteKinds \subseteq Kinds
  /\ MaxVersion \in Nat

VARIABLES
  version,   \* committed changes of each table
  writer,    \* what each writer is in the middle of
  owed,      \* the tables each writer has still to announce
  phase,     \* life of each collection
  inTx,      \* is it collected from inside a transaction block?
  slots,     \* the collectors that have a slot of the triggers flow
  checked,   \* those of them that onSubscription has let pass
  inbox,     \* the triggers buffered for a subscribed collector
  queued,    \* queries emitted by the upstream, not yet received
  running,   \* has the collector received a query it has not yet run?
  seen,      \* the versions its last run read
  base,      \* history: the versions when it subscribed
  missed     \* history: tables it was not told of since its last run

writeVars   == <<version, writer, owed>>
upstream    == <<slots, checked, inbox>>
vars == <<version, writer, owed, phase, inTx, slots, checked, inbox, queued, running,
          seen, base, missed>>

NothingRead == [t \in Tables |-> -1]

-----------------------------------------------------------------------------
(* DatabaseQuery.selectsFor *)
SelectsFor(c, trigger) == QueryTables[c] \cap trigger # {}

IsOpen(c) == phase[c] \in {"starting", "collecting"}

(* A run of the query is certain to follow, unless the collection ends.    *)
Pending(c) ==
  \/ running[c]
  \/ queued[c] > 0
  \/ \E i \in 1..Len(inbox[c]) : SelectsFor(c, inbox[c][i])

(* Faulty variants: definitions named Faulty... are plausible mistakes in  *)
(* the definition that follows them.  They are never part of Next; the     *)
(* properties have to fail when one takes its definition's place.          *)
FaultyUpstreamFree(c) == queued[c] <= ChannelCapacity[c] + 1

(* The upstream is not inside emit(): a collector called directly has      *)
(* returned, a channel has taken everything it was sent.                   *)
UpstreamFree(c) ==
  IF ChannelCapacity[c] = 0 THEN queued[c] = 0 /\ ~running[c]
                            ELSE queued[c] <= ChannelCapacity[c]

(* MutableSharedFlow.tryEmit: all subscribers have room, or nobody gets it *)
HasRoom == \A c \in slots : Len(inbox[c]) < ExtraBufferCapacity

Reaches(c, trigger) == c \in slots /\ HasRoom /\ SelectsFor(c, trigger)

Stale(c, t) == t \in QueryTables[c] /\ seen[c][t] < version[t]

(* Bookkeeping: tables T of a write will not be announced to collector c.  *)
Missing(c, T) ==
  IF IsOpen(c) /\ ~Pending(c) THEN missed[c] \cup {t \in T : Stale(c, t)}
                              ELSE missed[c]

-----------------------------------------------------------------------------
Init ==
  /\ version = [t \in Tables |-> 0]
  /\ writer = [w \in Writers |-> "idle"]
  /\ owed = [w \in Writers |-> {}]
  /\ phase = [c \in Collectors |-> "none"]
  /\ inTx = [c \in Collectors |-> FALSE]
  /\ slots = {}
  /\ checked = {}
  /\ inbox = [c \in Collectors |-> <<>>]
  /\ queued = [c \in Collectors |-> 0]
  /\ running = [c \in Collectors |-> FALSE]
  /\ seen = [c \in Collectors |-> NothingRead]
  /\ base = [c \in Collectors |-> [t \in Tables |-> 0]]
  /\ missed = [c \in Collectors |-> {}]

-----------------------------------------------------------------------------
(* Collectors *)

(* createQuery: refused by check(!inSuspendingTransaction). *)
CreateQuery(c, tx) ==
  /\ phase[c] = "none"
  /\ phase' = [phase EXCEPT ![c] = IF tx THEN "rejected" ELSE "created"]
  /\ UNCHANGED <<writeVars, upstream, inTx, queued, running, seen, base, missed>>

(* collect: onStart emits the query before the trigger flow is subscribed. *)
Collect(c, tx) ==
  /\ phase[c] = "created"
  /\ phase' = [phase EXCEPT ![c] = "starting"]
  /\ inTx' = [inTx EXCEPT ![c] = tx]
  /\ queued' = [queued EXCEPT ![c] = 1]
  /\ UNCHANGED <<writeVars, upstream, running, seen, base, missed>>

(* The collection ends; a slot it holds is freed by the upstream later.    *)
EndCollection(c) ==
  /\ phase' = [phase EXCEPT ![c] = "closed"]
  /\ queued' = [queued EXCEPT ![c] = 0]
  /\ running' = [running EXCEPT ![c] = FALSE]
  /\ missed' = [missed EXCEPT ![c] = {}]
  /\ base' = [base EXCEPT ![c] = [t \in Tables |-> 0]]

(* emit() of onStart has returned: collect() of the shared flow allocates  *)
(* a slot, which triggers are buffered for from now on, before it runs     *)
(* onSubscription.                                                         *)
AllocateSlot(c) ==
  /\ phase[c] = "starting"
  /\ c \notin slots
  /\ UpstreamFree(c)
  /\ slots' = slots \cup {c}
  /\ base' = [base EXCEPT ![c] = version]
  /\ UNCHANGED <<writeVars, phase, inTx, checked, inbox, queued, running, seen, missed>>

FaultySubscribeEmitsAgain(c) ==
  /\ c \in slots \ checked
  /\ ~inTx[c]
  /\ checked' = checked \cup {c}
  /\ phase' = [phase EXCEPT ![c] = IF @ = "starting" THEN "collecting" ELSE @]
  /\ queued' = [queued EXCEPT ![c] = @ + 1]
  /\ UNCHANGED <<writeVars, inTx, slots, inbox, running, seen, base, missed>>

(* onSubscription: ensureNotInTransaction lets the collection pass.  It    *)
(* does not suspend, so it runs to its end even if the collection has been *)
(* cancelled since.                                                        *)
Subscribe(c) ==
  /\ c \in slots \ checked
  /\ ~inTx[c]
  /\ checked' = checked \cup {c}
  /\ phase' = [phase EXCEPT ![c] = IF @ = "starting" THEN "collecting" ELSE @]
  /\ UNCHANGED <<writeVars, inTx, slots, inbox, queued, running, seen, base, missed>>

FaultyRefuseKeepsSlot(c) ==
  /\ c \in slots \ checked
  /\ inTx[c]
  /\ EndCollection(c)
  /\ UNCHANGED <<writeVars, inTx, upstream, seen>>

(* onSubscription throws when the collection runs in a transaction; the    *)
(* finally clause of collect() gives the slot back.                        *)
RefuseSubscription(c) ==
  /\ c \in slots \ checked
  /\ inTx[c]
  /\ EndCollection(c)
  /\ slots' = slots \ {c}
  /\ inbox' = [inbox EXCEPT ![c] = <<>>]
  /\ UNCHANGED <<writeVars, inTx, checked, seen>>

FaultyTakeTriggerAllTables(c) ==
  /\ phase[c] = "collecting"
  /\ inbox[c] # <<>>
  /\ UpstreamFree(c)
  /\ inbox' = [inbox EXCEPT ![c] = Tail(@)]
  /\ queued' = IF QueryTables[c] \subseteq Head(inbox[c])
                 THEN [queued EXCEPT ![c] = @ + 1] ELSE queued
  /\ UNCHANGED <<writeVars, phase, inTx, slots, checked, running, seen, base, missed>>

(* The upstream takes a trigger, filters it, and emits the query. *)
TakeTrigger(c) ==
  /\ phase[c] = "collecting"
  /\ inbox[c] # <<>>
  /\ UpstreamFree(c)
  /\ inbox' = [inbox EXCEPT ![c] = Tail(@)]
  /\ queued' = IF SelectsFor(c, Head(inbox[c]))
                 THEN [queued EXCEPT ![c] = @ + 1] ELSE queued
  /\ UNCHANGED <<writeVars, phase, inTx, slots, checked, running, seen, base, missed>>

FaultyReceiveUnguarded(c) ==
  /\ IsOpen(c)
  /\ ~running[c]
  /\ queued' = [queued EXCEPT ![c] = @ - 1]
  /\ running' = [running EXCEPT ![c] = TRUE]
  /\ UNCHANGED <<writeVars, phase, inTx, upstream, seen, base, missed>>

FaultyReceiveKeepsOne(c) ==
  /\ IsOpen(c)
  /\ queued[c] > 1
  /\ ~running[c]
  /\ queued' = [queued EXCEPT ![c] = @ - 1]
  /\ running' = [running EXCEPT ![c] = TRUE]
  /\ UNCHANGED <<writeVars, phase, inTx, upstream, seen, base, missed>>

(* The collector receives the query. *)
Receive(c) ==
  /\ IsOpen(c)
  /\ queued[c] > 0
  /\ ~running[c]
  /\ queued' = [queued EXCEPT ![c] = @ - 1]
  /\ running' = [running EXCEPT ![c] = TRUE]
  /\ UNCHANGED <<writeVars, phase, inTx, upstream, seen, base, missed>>

(* DatabaseQuery.run: one consistent read of the committed rows. *)
RunQuery(c) ==
  /\ running[c]
  /\ ~inTx[c]
  /\ seen' = [seen EXCEPT ![c] = version]
  /\ missed' = [missed EXCEPT ![c] = {}]
  /\ running' = [running EXCEPT ![c] = FALSE]
  /\ UNCHANGED <<writeVars, phase, inTx, upstream, queued, base>>

(* DatabaseQuery.run throws in a transaction. *)
RefuseRun(c) ==
  /\ running[c]
  /\ inTx[c]
  /\ EndCollection(c)
  /\ UNCHANGED <<writeVars, inTx, upstream, seen>>

(* The collector is cancelled, or its query or mapper throws. *)
Cancel(c) ==
  /\ IsOpen(c)
  /\ EndCollection(c)
  /\ UNCHANGED <<writeVars, inTx, upstream, seen>>

(* The upstream coroutine of a subscribed collection notices the end where *)
(* it is suspended: the slot is freed.                                     *)
FreeSlot(c) ==
  /\ phase[c] = "closed"
  /\ c \in checked
  /\ slots' = slots \ {c}
  /\ checked' = checked \ {c}
  /\ inbox' = [inbox EXCEPT ![c] = <<>>]
  /\ UNCHANGED <<writeVars, phase, inTx, queued, running, seen, base, missed>>

-----------------------------------------------------------------------------
(* Writers *)

(* A write that changed rows of the tables T is committed. *)
Write(w, T, kind) ==
  /\ writer[w] = "idle"
  /\ kind \in WriteKinds \ {"execute"}
  /\ T # {}
  /\ \A t \in T : version[t] < MaxVersion
  /\ version' = [t \in Tables |-> IF t \in T THEN version[t] + 1 ELSE version[t]]
  /\ writer' = [writer EXCEPT ![w] = kind]
  /\ owed' = [owed EXCEPT ![w] = T]
  /\ UNCHANGED <<phase, inTx, upstream, queued, running, seen, base, missed>>

(* executeAndTrigger of SQL that changes nothing the model counts, and     *)
(* the public sendTableTrigger: a trigger of its own, T may be empty.      *)
Announce(w, T) ==
  /\ writer[w] = "idle"
  /\ writer' = [writer EXCEPT ![w] = "statement"]
  /\ owed' = [owed EXCEPT ![w] = T]
  /\ UNCHANGED <<version, phase, inTx, upstream, queued, running, seen, base, missed>>

(* sendTableTrigger outside a transaction: the result of tryEmit is not    *)
(* looked at.                                                              *)
SendTableTrigger(w) ==
  /\ writer[w] # "idle"
  /\ inbox' = IF HasRoom
                THEN [c \in Collectors |-> IF c \in slots
                                             THEN Append(inbox[c], owed[w])
                                             ELSE inbox[c]]
                ELSE inbox
  /\ missed' = [c \in Collectors |-> IF Reaches(c, owed[w])
                                       THEN missed[c]
                                       ELSE Missing(c, owed[w])]
  /\ writer' = [writer EXCEPT ![w] = "idle"]
  /\ owed' = [owed EXCEPT ![w] = {}]
  /\ UNCHANGED <<version, phase, inTx, slots, checked, queued, running, seen, base>>

(* The caller is cancelled while it is suspended after the write:          *)
(* withContext throws instead of returning, the trigger is never sent.     *)
CancelWrite(w) ==
  /\ writer[w] = "suspending"
  /\ missed' = [c \in Collectors |-> Missing(c, owed[w])]
  /\ writer' = [writer EXCEPT ![w] = "idle"]
  /\ owed' = [owed EXCEPT ![w] = {}]
  /\ UNCHANGED <<version, phase, inTx, upstream, queued, running, seen, base>>

(* execute: changes tables, announces nothing. *)
Execute(T) ==
  /\ "execute" \in WriteKinds
  /\ T # {}
  /\ \A t \in T : version[t] < MaxVersion
  /\ version' = [t \in Tables |-> IF t \in T THEN version[t] + 1 ELSE version[t]]
  /\ missed' = [c \in Collectors |-> IF IsOpen(c) /\ ~Pending(c)
                                       THEN missed[c] \cup (T \cap QueryTables[c])
                                       ELSE missed[c]]
  /\ UNCHANGED <<writer, owed, phase, inTx, upstream, queued, running, seen, base>>

-----------------------------------------------------------------------------
CollectorStep(c) ==
  \/ AllocateSlot(c)
  \/ Subscribe(c) \/ RefuseSubscription(c)
  \/ TakeTrigger(c)
  \/ Receive(c)
  \/ RunQuery(c) \/ RefuseRun(c)
  \/ FreeSlot(c)

Next ==
  \/ \E c \in Collectors :
       \/ \E tx \in BOOLEAN : CreateQuery(c, tx) \/ Collect(c, tx)
       \/ CollectorStep(c)
       \/ Cancel(c)
  \/ \E w \in Writers :
       \/ \E T \in TriggerSets :
            Announce(w, T) \/ \E kind \in WriteKinds : Write(w, T, kind)
       \/ SendTableTrigger(w)
       \/ CancelWrite(w)
  \/ \E T \in TriggerSets : Execute(T)

Spec == Init /\ [][Next]_vars

(* Coroutines that are ready are dispatched; clients owe nothing. *)
Fairness ==
  /\ \A c \in Collectors : /\ WF_vars(AllocateSlot(c))
                           /\ WF_vars(Subscribe(c) \/ RefuseSubscription(c))
                           /\ WF_vars(TakeTrigger(c))
                           /\ WF_vars(Receive(c))
                           /\ WF_vars(RunQuery(c) \/ RefuseRun(c))
                           /\ WF_vars(FreeSlot(c))
  /\ \A w \in Writers : WF_vars(SendTableTrigger(w))

FairSpec == Spec /\ Fairness

-----------------------------------------------------------------------------
(* The variables have the types the code gives them. *)
TypeOK ==
  /\ version \in [Tables -> Nat]
  /\ writer \in [Writers -> {"idle", "suspending", "statement"}]
  /\ owed \in [Writers -> SUBSET Tables]
  /\ phase \in [Collectors -> {"none", "rejected", "created", "starting",
                               "collecting", "closed"}]
  /\ inTx \in [Collectors -> BOOLEAN]
  /\ slots \subseteq Collectors
  /\ checked \subseteq slots
  /\ inbox \in [Collectors -> Seq(SUBSET Tables)]
  /\ queued \in [Collectors -> Nat]
  /\ running \in [Collectors -> BOOLEAN]
  /\ seen \in [Collectors -> [Tables -> Int]]
  /\ base \in [Collectors -> [Tables -> Nat]]
  /\ missed \in [Collectors -> SUBSET Tables]

BeingAnnounced(t) == \E w \in Writers : t \in owed[w]

(* What an open collector last read is out of date only while a writer has *)
(* yet to announce the change, while a run of the query is under way, or   *)
(* because one of the losses counted in `missed` happened: there is no     *)
(* other way for an update to disappear.  (sendTableTrigger and the        *)
(* operators of createQuery, whatever the interleaving.)                   *)
StalenessExplained ==
  \A c \in Collectors : \A t \in Tables :
    IsOpen(c) /\ Stale(c, t) =>
      Pending(c) \/ BeingAnnounced(t) \/ t \in missed[c]

(* However fast writers are and however slow a collector is, what piles up *)
(* for it is bounded: extraBufferCapacity triggers, and the channel of     *)
(* flowOn plus the one query its upstream is suspended on.                 *)
BoundedBacklog ==
  \A c \in Collectors :
    /\ Len(inbox[c]) <= ExtraBufferCapacity
    /\ queued[c] <= ChannelCapacity[c] + 1
    /\ c \notin slots => inbox[c] = <<>>

(* The triggers that select a collector's query, by their place in line.   *)
Selecting(c, triggers) == {i \in 1..Len(triggers) : SelectsFor(c, triggers[i])}

(* The runs of the query a collector still has before it. *)
Backlog(c) ==
  queued[c] + (IF running[c] THEN 1 ELSE 0) + Cardinality(Selecting(c, inbox[c]))

(* A trigger makes a collector run its query at most once, however many of *)
(* the query's tables it names, and without a trigger that names one of    *)
(* them nothing does (the test queryMultipleTablesObservesChangesOnlyOnce).*)
OneRunPerTrigger ==
  [][\A c \in Collectors :
       Backlog(c)' > Backlog(c) =>
         /\ Backlog(c)' = Backlog(c) + 1
         /\ \/ phase[c] = "created"
            \/ \E w \in Writers : SelectsFor(c, owed[w]) /\ owed'[w] = {}]_vars

(* The triggers flow tells either everybody or nobody, so one slot whose   *)
(* buffer stays full would silence all queries: whatever becomes of the    *)
(* collections that hold slots (they are slow, are cancelled, or are       *)
(* refused because they run in a transaction) there is room again for a    *)
(* trigger sooner or later.                                                *)
RoomComesBack == ~HasRoom ~> HasRoom

(* README: "when you insert, update, or delete data, any subscribed        *)
(* queries will update with the new data": a subscribed collector whose    *)
(* tables changed after it got its slot is up to date, about to run, or    *)
(* the writer is about to tell it.                                         *)
SubscribedQueriesUpdate ==
  \A c \in Collectors : \A t \in Tables :
    IsOpen(c) /\ c \in slots /\ Stale(c, t) /\ base[c][t] < version[t] =>
      Pending(c) \/ BeingAnnounced(t)

(* Every version of a table of its query is eventually read by an open     *)
(* collector, or a later one, unless it was missed; with version 0 this is *)
(* the first run.                                                          *)
ChangesAreEventuallyRead ==
  \A c \in Collectors : \A t \in QueryTables[c] : \A v \in 0..MaxVersion :
    (IsOpen(c) /\ version[t] >= v)
      ~> (seen[c][t] >= v \/ ~IsOpen(c) \/ t \in missed[c])

=============================================================================
