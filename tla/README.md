# SQL Kite in TLA+

This directory is a verification development beside SQL Kite, a Kotlin wrapper
around `SupportSQLiteOpenHelper` that adds suspending queries and writes,
coroutine transactions, and *observable queries*: flows that run a SQL query
again whenever a write names one of its tables. It also covers the scripts of
the documentation site kept in `docs/`. Everything here is written from the
code. Paths without a directory are those of
`sqlkite/src/main/java/com/frankegan/sqlkite/` or of `docs/scripts/`.

## Inventory

| component | code | state it keeps | operations |
|---|---|---|---|
| observable queries | `KiteDatabase.kt` 52, 128-143, 181-267, 658-684 | the `triggers` shared flow and its one-slot buffer, the subscribers, flowOn's channel | `createQuery`, collect, cancel, `sendTableTrigger`, `DatabaseQuery.run` |
| writes | `KiteDatabase.kt` 289-535 | committed rows (in SQLite) | `insert`, `update`, `delete`, `execute`, `executeAndTrigger`, `executeUpdateDelete`, `executeInsert`, `query` |
| transactions | `KiteDatabase.kt` 537-624, 643-656 | the `suspendingTransactions` thread-local, a `SqliteTransaction` per level (tables, commit flag, parent), SQLite's per-thread frame stack | `withTransaction`, `withNonExclusiveTransaction`, nesting, coroutines started in the block |
| transaction thread | `extensions.kt` 155-230, `KiteDatabase.kt` 537-553, 704-711 | `TransactionElement`'s reference count, the control job, the pool of four threads and its queue | acquire, nested acquire, release, cancel while waiting, refusal |
| dispatchers | `KiteDatabase.kt` 273-313, 352 | which coroutine holds which thread | `withQueryOrTransactionContext`, `withContext(queryDispatcher)` |
| row mappers | `extensions.kt` 43-147 | the open cursor of `asRows` | `mapToOne`, `mapToOneOrDefault`, `mapToList`, `asRows` |
| content resolver queries | `ContentResolverExt.kt` | a content observer per collection, a callback channel | `observeQuery` |
| handle life cycle | `KiteDatabase.kt` 94-123, 145-152 | the helper's open database | `readableDatabase`, `writableDatabase`, `close` |
| argument-count lint | `sqlkite-lint/.../SqlKiteArgCountDetector.kt` | none | `visitMethodCall` |
| builder and logging | `SqlKite.kt`, `log`, `indentSql` | logger, transformer | `Builder`, `wrapDatabaseHelper` |
| sample application | `sample/` | the to-do tables, view models | screens |
| source set filter | `platform-content-handler.js` 183-248, 273-358 | `filteringContext` of each page, `localStorage` shared by all | load, filter, unfilter, choose a bookmark |
| documentation pages | the rest of that script, `navigation-loader.js`, `clipboard.js`, the script in a page's head | tabs, anchor, scroll timers, theme, menu, popups; stored tab and theme | load, `hashchange`, clicks, timers, the fetched menu |

### How the parts interact

A write method changes rows on a thread of the query dispatcher, or on the
transaction's own thread when its coroutine carries a `TransactionElement`, and
calls `sendTableTrigger` when it is back in its caller's context. Outside a
transaction `sendTableTrigger` hands the set of tables to `triggers.tryEmit`, a
shared flow without replay and with one extra slot of buffer; inside one
(`suspendingTransactions` is a thread-local installed as a context element) it
adds them to the innermost `SqliteTransaction`. When a nested transaction has
committed its set goes to its parent, and the outermost one's goes to `triggers`
after the database's own `endTransaction`. Each collection of a query subscribes
to `triggers` after its first emission, keeps the triggers that name one of its
tables, and passes the query through `flowOn`'s channel to a collector that runs
it.

An outermost transaction puts a task into the executor's queue and suspends; the
task, once a thread runs it, hands its event loop to the caller and waits for a
control job, which the last `release()`, the cancellation of the waiting caller
or the completion of the caller's Job cancels. Transactions share that pool of
four threads and the one write connection of SQLite, which a thread keeps from
its first frame to its last. `delete`, `update` and `query(SupportSQLiteQuery)`
go through the query dispatcher even inside a transaction, and so share its
threads with the writes outside that wait for the connection.

Content resolver queries use none of this but the row mappers: a
`ContentObserver` puts the query into a callback channel. The documentation's
scripts are a system of their own: every open page has its state, and all write
the same `localStorage`.

What the code takes from others and the models restate: `tryEmit` accepts a
value only if every subscriber has room, a slot is freed by the upstream
coroutine; an Android `SQLiteSession` belongs to a thread and is a stack of
frames, `setTransactionSuccessful` and `endTransaction` act on the top one, the
listener called is the one of the frame popped, and a failed frame makes the
frame below fail; `withContext` in a cancelled coroutine throws before its
block; the browser delivers `hashchange` late. Where such a thing is a
definition of its own it is an external row of the map.

### What is hard here

* Every notification is a separate step after the change it announces, and there
  are three places where it can be lost: the refused trigger, the window
  between the first emission and the subscription, the writer cancelled between
  its write and its trigger.
* The read a trigger causes comes behind a buffer, a channel and a slow
  collector; an update must not be taken for covered by a run that began before
  it, and a trigger must not cause two.
* A transaction's bookkeeping is kept twice, as a tree of coroutines
  (`SqliteTransaction`) and as a stack per thread (`SQLiteSession`). They agree
  only while nested calls follow each other.
* Cancellation can strike at every suspension, the `finally` clause of
  `withTransaction` included, and between getting a thread and using it.
* Calls wait for three resources in turn: a pool thread, the connection, and
  threads of the query dispatcher.
* `trySend` in `observeQuery` may be refused, and the observer is registered by
  a producer that starts after the first run and may outlive the collection.
* The pages of the site change a shared store without looking at it again, and
  their scripts run at any moment of a page's loading.

What has to hold, component by component:

| component | properties |
|---|---|
| observable queries | a stale collector is always accounted for; backlogs are bounded; one run per trigger; what changed is eventually read; nobody, a collection refused in a transaction included, leaves the buffer full for all |
| transactions | the stack is the chain of open calls; all levels share one fate; the notifications sent are those owed by what was committed, exactly, and only then; one transaction at a time; every call ends |
| transaction thread | a thread is taken only as long as its call, or the Job of a call cancelled before it used it; none serves two transactions; release once per acquire; a caller cancelled while it waits leaves nothing behind |
| dispatchers | a transaction never waits for a thread held by someone who waits for it (it may: see below), and nothing else makes all calls wait for one another |
| row mappers | an element per row, a default or nothing for none, an error for more than one; null cursors as documented |
| content resolver queries | no change after the observer's registration is missed; the observer and the cursor do not outlive the collection |
| source set filter, documentation pages | what is shown is what is stored; the parts of a page agree with each other; the anchor is shown and reached |
| argument-count lint | the count of placeholders agrees with the arguments passed |
| handle life cycle | no write on a closed handle |

## Modules

| module | role |
|---|---|
| `ObservableQuery` | collectors, the trigger flow and the writers |
| `AtomicTransaction` | what an outermost `withTransaction` promises |
| `ThreadLease` | what an outermost call may rely on about the executor's threads |
| `SuspendingTransaction` | `withTransaction`, nested, concurrent and cancelled, over SQLite's frame stacks; refines `AtomicTransaction` and `ThreadLease` |
| `TransactionThread` | how a transaction gets a thread of the executor and gives it back; refines `ThreadLease` |
| `QueryDispatch` | writes, transactions and the threads and connection they wait for |
| `ContentResolverQuery` | `observeQuery` collected through a row mapper |
| `SourceSetFilter` | the filter of the documentation site, in several pages |
| `DocumentationPage` | one window of the site: tabs, anchor, theme, menu, copying |
| `MC...` | values of a module's constants for TLC (`QueryDispatch` needs none) |
| `...Proofs` | theorems about the module each is named after |
| `TransactionChainProofs` | further theorems about `SuspendingTransaction`, up to its refinement of `AtomicTransaction` |

`AcquireThread` and `Finish` of `SuspendingTransaction`, and `AcquireThread` and
`End` of `QueryDispatch`, are what `TransactionThread` shows in detail: a thread
is in use by one call in progress, and comes back when the call is over.
`ThreadLease` is where the two meet. In `TransactionThread` the executor's queue,
the control job and the reference count implement it; in `SuspendingTransaction`
the calls ask for threads and give them back as it says, in every use. Both
refinements are theorems.

Definitions named `Faulty...` are plausible mistakes in the definition that
follows them. `Next` never uses them; each is there to show that some property
fails when it takes that definition's place.

### ObservableQuery

| state | code |
|---|---|
| `version` | the committed rows of a table, as a count of its changes |
| `writer`, `owed` | a coroutine between its write and its trigger, and the tables it will name |
| `phase`, `inTx` | life of one collection; whether its context is a transaction's |
| `slots`, `checked`, `inbox` | subscribers of `triggers`, those that `onSubscription` has let pass, and what each has not taken of its buffer |
| `queued` | queries emitted upstream of `flowOn` and not yet received; one more than the channel's capacity when the upstream is suspended in `emit` |
| `running`, `seen` | the collector has a query in hand; the versions its last run read |
| `base`, `missed` | history: versions at the subscription; tables whose change will never be announced to this collector |

| actions | code |
|---|---|
| `CreateQuery`, `Collect` | `createQuery`'s check; `collect` up to `onStart`'s `emit` |
| `AllocateSlot` | the shared flow's `collect`, up to `onSubscription`: the collection is a subscriber from here on |
| `Subscribe`, `RefuseSubscription` | `onSubscription` and its `ensureNotInTransaction`: the collection goes on, or ends and gives the slot back |
| `TakeTrigger`, `Receive` | `filter`, `map` and `emit` upstream; the collector's side of the channel |
| `RunQuery`, `RefuseRun` | `DatabaseQuery.run` |
| `Cancel`, `FreeSlot` | the end of a collection; the upstream giving its slot back, later |
| `Write`, `SendTableTrigger`, `CancelWrite` | `insert`, `update`, `delete`, `executeAndTrigger` ("suspending": cancellable after the write), `executeInsert`, `executeUpdateDelete`, a transaction's commit ("statement") |
| `Announce`, `Execute` | a trigger with no change behind it; `execute`, a change with no trigger |

`ChannelCapacity[c] = 0` stands for a collector that is already on the query
dispatcher, where `flowOn` adds no channel and the upstream calls the collector
directly.

### SuspendingTransaction

| state | code |
|---|---|
| `status`, `outcome` | how far a call of `withTransaction` has come, and how it ended |
| `parent`, `tables`, `commit` | the fields of its `SqliteTransaction` |
| `element`, `thread`, `owner` | its `TransactionElement` (named by the outermost call) and the pool thread behind the dispatcher in it |
| `session`, `connection` | SQLite's frames per thread; the thread that has the write connection |
| `dirty` | tables changed by the SQLite transaction |
| `inflight` | tables a block is to notify, on their way to `sendTableTrigger` |
| `due` | history: tables the SQLite transaction owes a notification when it commits |
| `members`, `fate`, `unannounced`, `unfounded` | history the properties are stated with |

| actions | code |
|---|---|
| `Request`, `AcquireThread`, `Nest` | `createTransactionContext` and `acquireTransactionThread`, or the inherited element |
| `Begin`, `BeginFails` | `beginStatement` |
| `WriteRow`, `Notify`, `Execute` | what a block does: a write that notifies (it changes a table and owes a notification); the public `sendTableTrigger` or an `executeAndTrigger` that changes no row (it only owes); `execute` or a write through `writableDatabase` (it only changes) |
| `QueueTrigger`, `QueueTriggersRacing`, `CancelWrite` | `sendTableTrigger` in a transaction; `addAll` on an unsynchronised set; a write cancelled before its trigger |
| `Return`, `Throw`, `CommitFails` | the end of the block and the whole `finally` clause, through `endTransaction`, the passing on of tables, and `release` |
| `CancelBeforeBegin`, `AbandonThread` | cancellation before the inner `try`: while waiting, or after `acquire()`, where `release()` follows; after the thread was acquired and before `acquire()`, where nothing releases it |
| `CompleteJob` | the completion of the caller's Job, whose handler frees an abandoned thread |
| `CancelInBlock` | cancellation in or after the block, where `withContext` in `finally` throws before `endTransaction` runs |

`Usage` says what callers do beyond calling one transaction after another:
nested transactions started concurrently, writes of one block on several
threads, single writes cancelled, whole transactions cancelled. It is a constant
so that each promise is checked under the widest use that keeps it.

What is changed and what is announced are not the same set. `execute` is
documented to notify nobody, and a trigger may be sent for a table nothing
changed, so the properties speak of the notifications *owed* (`due`): those of
the methods that notify, and those the block asks for. When the block is rolled
back, nothing is owed.

`AtomicTransaction` is the view of an outermost call: start; change, notify or
write (both); and then in one step commit and announce exactly the tables due, or
roll back. The refinement maps an outermost call's `members` and `fate` to its
state, `dirty` and `due` to what it changed and owes, and its committed set of
tables to what it announced; a nested call is idle.

### TransactionThread

| state | code |
|---|---|
| `job` | the Job of a coroutine that calls `withTransaction`, perhaps several times |
| `call` | suspended in `acquireTransactionThread`; resumed, not yet run; entering `withContext`; inside; over |
| `control` | its `controlJob` |
| `refs`, `nested`, `begun` | `referenceCount`; transactions in progress inside, and all there were |
| `queue`, `worker` | tasks the executor has not started; the call whose task a thread runs |

| actions | code |
|---|---|
| `Call`, `Reject` | the control job, the completion handler, `suspendCancellableCoroutine` up to `execute`; `RejectedExecutionException` |
| `RunTask`, `FinishTask` | the task: `resume` with the event loop; `controlJob.join()` returns |
| `Resume`, `Enter`, `AbortEntry` | the caller runs again, or was cancelled first; `withContext` starts its block and `acquire`s, or throws |
| `NestedAcquire`, `NestedRelease`, `Leave` | `acquire` and `release` of nested calls and of the outermost one |
| `Cancel`, `Complete` | the Job is cancelled (`invokeOnCancellation` of a waiting caller); it completes (`invokeOnCompletion`) |

### QueryDispatch

`at` is where a call is: a writer outside is dispatched, blocked in SQLite on a
query thread, or done; a transaction waits for a pool thread, waits for the
connection, is inside its block, or has a `delete` hopping to a query thread,
executing on its own thread, or returning through a query thread. `RunDelete`,
`ExecuteDelete` and `ReturnDelete` are the three parts of `delete` (and of
`update` and `query(SupportSQLiteQuery)`); `Insert` stays on the transaction's
thread, as do `execute...` and `query(String)`. `connection` is SQLite's;
`statements` counts what a transaction executed and bounds its block. Triggers
are not part of this module: whether the last part of `delete` sends one makes no
difference to who waits for what.
Without write-ahead logging a reader waits for the connection like a writer.

### ContentResolverQuery

`Collect` is `onStart`'s emission; `RunQuery` (or, for `asRows`, `OpenCursor`,
`EmitRow`, `CloseCursor`) is `Query.run` and the mapper; `StartProducer` and
`RegisterContentObserver` the callbackFlow's coroutine; `Change` and `OnChange`
the provider and the main thread's Handler, `OnChange` with its unchecked
`trySend`; `Cancel` and `UnregisterContentObserver` the end. `MapToOne`,
`MapToOneOrDefault` and `MapToList` are the mappers as functions of the rows.
`seen`, `answered` and `unheard` are history.

### SourceSetFilter

An array of source sets is a bag. `shared` says whether `activeFilters` and
`restrictedDependencies` are still one array, as `initializeFiltering` leaves
them when nothing is stored; `UnfilterSourceset` pushes onto whichever it is.
`Load` reads the store, `FilterSourceset`, `UnfilterSourceset` and
`UnfilterFirst` are the three ways of a click on a button, each with
`RefreshPage` (buttons, bookmarks, notice) and the store's update at its end;
`TogglePlatformDependent` is a click on a bookmark. `foreign` is history: what
other pages chose since.

### DocumentationPage

`Open` is a new document with the script in its head; `EvaluateHandler`,
`EvaluateNavigation`, `DOMContentLoaded` and `Load` the stages of its loading;
`ClickTab`, `ChangeHash`, `HashChange`, `ScrollTimer`, `ToggleTheme`,
`DisplayNavigation`, `Copy` and `PopupTimer` the handlers; `OtherPage` what
another page stores. `HandleAnchor` is `handleAnchor` with `scrollToElement` or
its 50 ms timer. The load handler handles the anchor before it sets
`topNavbarOffset`, so a page opened at an anchor is always scrolled by timer.

## Runs

| run | what is asked | bounds |
|---|---|---|
| `query_pair` | types, staleness accounted for, backlogs, one run per trigger, with collections in transactions among them | two collectors, one on both tables through a channel and one on a single table called directly; two writers, every kind of write, empty triggers; one change per table |
| `query_live` | does a lone collector whose tables every trigger names see all changes, and read them in the end? It does: the trigger that fills the buffer covers the refused one. Is there always room again in the buffer, though collections are slow, cancelled or refused? | one collector, two writers that are not cancelled, two changes per table, fair |
| `query_refused` | finding | one collector, two writers, two tables |
| `txn_nested` | frames are call chains, every notification owed is sent, `AtomicTransaction` is implemented, does every call end? | three calls, two threads, one table; sequential nesting, fair |
| `txn_concurrent` | nothing announced that no commit owed, all or nothing, one at a time | three calls, two threads, two tables; concurrent nested calls, racing sets, cancelled writes |
| `txn_any_use` | sessions and threads kept | four calls, two threads, one table; cancelled transactions too |
| `txn_cancelled` | finding | two calls, one thread |
| `thread` | is a thread kept while used, released once, never lost, and does every waiting caller get one? | four calls of three Jobs, one thread, one nested call in each block, fair |
| `dispatch` | who can wait for ever, and for what? | three writers, three transactions of which one only inserts, two query threads, two pool threads, two statements each, fair |
| `observe` | does a collector behind the content run again, what does it hold at rest, is the end of a collection clean? | four mappers, four contents, four changes, a channel of two, fair |
| `docs_filter` | do store, filters, buttons, bookmarks and notice of each page agree? | two pages (symmetric), four source sets, one without a button, two rows of bookmarks |
| `docs_page` | do tab, anchor, scroll position, theme and menu come out right? | four pages, three tabs, four anchors, a menu of five parts, two hash events or timers and two popup timers at a time, fair |

### Bounds

One trigger in the buffer is the code's own value. A channel of one stands for
`flowOn`'s 64, and of two for the callbackFlow's 64: the capacity matters only
at empty, partly full, full with the upstream suspended or the offer refused.
Two collectors are needed for one to make `tryEmit` refuse for the other; two
writers for a second change to come between a change and its trigger.
`MaxVersion` bounds the changes of a table; two let a change follow one a run
has covered, and one is enough where two writers, two tables and two collectors
give the overlaps. `MaxChanges` is four: one change read by a run, two to fill
the channel, one refused.

Three calls give a chain of three levels, two siblings under one parent, and a
nested call beside another transaction; a second thread lets another transaction
wait for the connection. The fourth call of `txn_any_use` gives two outermost
transactions that are both nested, and three levels next to another transaction.
`txn_nested` has one table: without concurrent calls and cancelled writes every
step treats each table alone, so a second one would only repeat the first.
`txn_concurrent` has two: one table is owed by one level and not by the other,
and one of two racing entries is lost. `txn_nested` checks liveness, so it has
no symmetry. A notification of a table
is asked for once per call until it is queued, because adding it again changes no
set. `thread` has one executor thread so that a place in the queue matters; two
calls of one Job are needed to see the control job of the first outlive it, and
`MaxNested` is one because deeper levels change the count alone (the theorem is
for any depth). `dispatch` needs as many writers as query threads to starve a
transaction and one more to wait; two pool threads let two transactions wait for
the connection in turn; with `MaxOps` two a block inserts before or after a
`delete`.

`MaxTimers` two lets a timer of an earlier anchor fire after a later one was
handled; `MaxPopups` two lets the first of two timers hide the second popup. The
published site has one source set and `sourceset_dependencies.js` gives no
dependencies, so `docs_filter` runs the script on what it is written for: several
source sets, with dependencies. (Nor has any published page the
`#filter-section` the script fills with its buttons, so there its filter code
never comes to run.) Pages and menu in `docs_page` are like those of
the site: the index, a class with tabs, a member without, an extension of a
nested type.

Writers, calls, threads, tables and pages are permuted by symmetry in runs
without liveness; the collectors are not alike and are not permuted.
`CHECK_DEADLOCK FALSE` is set everywhere: clients may stop, calls are finite, so
a state without a step is a normal end; what must not stop is a liveness
property.

### Fairness

Every `FairSpec` is weakly fair for what runs by itself and says nothing of
clients: they need not write, collect, call, click or cancel.

* `ObservableQuery`: each step of a coroutine that is ready. The dispatchers of
  kotlinx.coroutines and the executor run what is dispatched; a query's run is
  assumed to return.
* `SuspendingTransaction`: getting a free pool thread, beginning when the
  connection is free, queueing a trigger, ending a block. A block that never
  returns keeps its call open, and no library could do otherwise.
* `TransactionThread`: threads run their tasks, resumed callers run, blocks and
  nested calls end, and a *cancelled* Job completes. An active Job need not.
* `QueryDispatch`: each writer and transaction takes its next step when the
  thread or connection it waits for is free. SQLite hands the connection over,
  dispatchers and the executor serve their queues, a block ends.
* `ContentResolverQuery`: the collector, the producer and the main thread.
* `DocumentationPage`: parsing ends and the menu is served. Nothing is assumed
  of timers or of `hashchange`: what is said of them is said of states in which
  none waits.

Weak fairness is enough because calls are finite in number, so one that waits is
not overtaken for ever.

### Findings

* **A refused trigger is lost** (`query_refused`, `KiteDatabase.kt:141`). One
  table's trigger waits in the buffer for a collector that does not watch it;
  the next table's trigger is refused for all and `tryEmit`'s result is dropped.
  The watcher of that table stays on old rows.
* **A cancelled transaction is not ended** (`txn_cancelled`,
  `KiteDatabase.kt:610`): `endTransaction` is inside a `withContext` that throws
  at once in a cancelled coroutine.

### Limits the models describe

These are behaviours of the code that a property allows for, in its statement or
in the use it is checked under. They have no run of their own.

* The start-up window: a change after the first run and before the subscription
  is announced to nobody (`KiteDatabase.kt:264`). `StalenessExplained` counts it
  in `missed`, as it does a writer cancelled between a committed `insert`,
  `update`, `delete` or `executeAndTrigger` and its trigger.
* Nested transactions started concurrently pop each other's frames
  (`KiteDatabase.kt:612`): a nested call may take the other's fate for its own
  and its tables go unannounced. Concurrent writes of one
  block race in a `LinkedHashSet` (`KiteDatabase.kt:138`). For both, `Usage` of
  `EveryChangeAnnounced` and of the refinement is empty; no notification is sent
  that no commit owed, and all levels share one fate even so.
* `execute` in a transaction changes tables no collector is told of, as its KDoc
  says ("No notifications will be sent"); `sendTableTrigger` in one announces
  tables that nothing changed. Both are in the model in every use; the first owes
  no notification, the second owes one.
* A failed COMMIT (`CommitFails`) is taken to roll back. When SQLite is merely
  busy it may leave its transaction open, which is Android's to resolve and not
  modelled.
* **A starved delete.** Enough writers waiting for the connection on all threads
  of the query dispatcher starve the transaction that has the connection, if it
  calls `delete`, `update` or `query(SupportSQLiteQuery)` (`KiteDatabase.kt:352`,
  `:380`, `:305`). `StarvedForEver` says so and is proved. `Dispatchers.IO`, the sample's
  choice, makes that 64 writers, a dispatcher of few threads fewer. A timeout
  around the call does not help, because the cancelled coroutine needs a thread
  too to find that out; one around the writers does not, because they are blocked
  in SQLite. The test `suspendingTransactionsWontDeadlock`
  (`KiteDatabaseTest.kt:1139`) uses `insert` alone, which is never in this.
* A call cancelled after it got its thread and before its block leaves the
  thread to its Job's completion (`KiteDatabase.kt:543`, `:592`; `ControlJobInReach`
  says which calls, and `SessionsAndThreadsKept` allows them a thread after their
  end).
* A thread given back by a cancelled transaction has its frames still:
  `SessionsAndThreadsKept` says only that it is the thread with the connection.
  What follows from it is the finding `txn_cancelled`.
* `observeQuery` does not hear a change between its first run and the
  registration of its observer (`unheard`).
* `mapToOne` says nothing of an empty result, so its collector keeps the row
  before. `mapToList` emits an empty list for a null cursor, where its KDoc
  (`extensions.kt:131`) says null cursors are ignored.
* In the documentation, the 50 ms timer of an earlier anchor may fire after a
  later anchor was scrolled to, and moves the page again: to the earlier anchor,
  or to the top of the page when that anchor's tab is hidden (its `offsetTop` is
  0). `AnchorShown` says that the hash's anchor was scrolled to, not that the page
  still stands there.
* Pages of nested types and their members reveal no part of the menu (`MenuPart`
  0).

## Proofs

Everything below holds for every value of the constants that satisfies the
module's named assumption; the sets need not be finite unless it says so.

| assumption | what it asks |
|---|---|
| `QueryAssumption` | each query has a set of tables and a channel capacity; the trigger flow has at least one slot |
| `TransactionAssumption` | `NoTxn` and `NoThread` are not members; `Usage` is a set of the listed kinds |
| `ThreadAssumption` | each call has a Job; `MaxNested` is a number; `NoCaller` is no call |
| `DispatchAssumption` | writers and transactions are different calls; there are threads of both kinds |
| `ObserveAssumption` | contents are sequences of rows; the mappers are the four there are; the channel has room for one |
| `FilterAssumption` | buttons and bookmarks are of source sets, each row has a bookmark, no source set depends on itself; the pages that are open at a time are finitely many (their number bounds the copies in the store) |
| `PageAssumption` | tabs and anchors are those of pages, an anchor is in a tab of its own page; page ids and menu ids are made of the same atoms; a part's parents come before it |

Theorems about transactions that need more say so as a hypothesis on `Usage`:

* `NoCancellation`: "cancel" is not in it. With it the properties are false:
  `txn_cancelled` shows it for `AllOrNothing`, and the frames a cancelled call
  leaves behind keep the connection from all later ones, so `NoDeadlock` is too.
* `OneByOne`: neither "siblings" nor "cancel". Concurrent nested calls end each
  other's frames (see *Limits*).
* `PlainUse`: nothing at all. Racing or cancelled writes owe notifications that
  are not sent, the loss `EveryChangeAnnounced` is about; `QueuedAreAnnounced` says
  what remains true with them. `execute`, `sendTableTrigger` and statements that
  change nothing are plain use: blocks have them under every `Usage`.

`NeverDeadlocked` and `ExecutorNeverStuck` also suppose that there is a thread;
the code's executor has four. `MenuOpens` has a hypothesis on the
site, `MenuListsPages`, which `MCDocumentationPage` assumes and TLC evaluates for
the pages and the menu of the run.

`SoleObserver` is the hypothesis of `SubscribedUpdate`: one collector, all triggers
of interest to it, writers that do not suspend between write and trigger. Each of
the three is needed: `query_refused` shows the property false when a trigger that
is of no interest fills the buffer, a second collector may fill it too, and a
cancelled writer announces nothing.

### Observable queries (`ObservableQueryProofs`)

* `TypeCorrect`. `TypeOK` is inductive.
* `BacklogBounded`. Inductive with `TypeOK`: the upstream emits only when
  `UpstreamFree`, a trigger is appended only when `HasRoom`.
* `StalenessAccounted`. `StalenessExplained` is inductive with `TypeOK` and
  `IdleOwesNothing` (an idle writer has nothing to announce, without which the
  step of a writer could overwrite a debt). The step that matters is
  `SendTableTrigger`: delivered to a subscriber with a matching query it leaves
  a pending run; refused, filtered or sent before the subscription it is in
  `missed`, unless a run is pending already, which will read the change.
* `SubscribedUpdate`. With `AllOfInterest` (what is in the buffer and what
  writers owe selects the query) a trigger is refused only when the buffer holds
  one that causes a run, and that run reads later than the refused change.
* `OneRunEach`, an action property. The backlog counts the triggers in the buffer
  that select the query, so the lemmas are about that count: `Append` adds at
  most one to it, `Tail` takes away at most one, exactly the one that then is
  queued. `BacklogGrowth` goes through the steps.

### Transactions

`SuspendingTransactionProofs`, under every `Usage`:

* `CallsInvariant` and `TransactionTypes`. `TypeOK` alone is not inductive:
  `Return` takes `Head` and `Tail` of a stack nothing in `TypeOK` says is not
  empty, and under every usage frames and calls do not correspond, so the
  call's own frame need not be there. The invariant is a count: a thread has at
  least as many frames as open calls (`FramesSuffice`). A call ends by removing
  at most one frame and itself, so the count is kept whichever frame it was.
  `ElementsHaveThreads` says an active call's thread exists.
* `ThreadsKept`. With that, `FramesHoldConnection` (a thread has frames exactly
  when it holds the connection) and `OwnersKept` (a pool thread in use belongs
  to a call in progress on it or to one that abandoned it) are inductive, and together
  they are `SessionsAndThreadsKept`. A call that began gives its thread back with
  its end, so only one that did not begin can have abandoned it; `BegunInv` says
  which have.
* `TransactionsLeaseThreads`: the refinement of `ThreadLease`, with cancelled
  calls. An outermost call's lease follows from its status and from whether a
  thread is still taken for it; `owner` is the holder. `Finish` has to give back
  exactly the thread of the call, and all of its threads, `CompleteJob` that of a
  call that is over: that is `OwnersKept` with `OwnersOutermost`.
* `CallTrees`. `TreeInv`: a call's element is the root of its tree, a call above
  an active one is open, the thread of an active call is acquired for its root,
  and no set of calls but the empty one is closed under `parent` (`Acyclic`,
  the form of well-foundedness that is inductive without induction: a call that
  is nested has no calls below it). With `Acyclic`, an outermost call without
  active children is the only active call of its tree.

... and under `NoCancellation`:

* `FramesMatchCalls`. The count becomes exact (`FramesExact`), the frames of a
  thread are those of one tree and the last frame is the root's
  (`FramesOfTree`). So the call that ends with one frame left is the root,
  whoever popped which frame before.
* `OneAtATime`, `NothingAnnouncedUnfounded`, `TreesAreAtomic`, from
  `OutcomesInvariant`. What a call has queued or is about to queue is in `due`
  (`OpenQueuesDue`), which makes what the root announces part of what the COMMIT
  owes. A failure is never lost: some frame of the session has `childFailed`
  exactly when some call of the transaction has failed (`FailuresKnown`), though
  it need not be the frame of the failed call's parent; when one frame is left
  it is that one.
* `NeverDeadlocked`: as long as a call waits for a thread, is about to begin or
  is open, `CanGoOn` is true of some call; `CanGetThread`, `CanBegin`, `CanQueue`
  and `CanEnd` are the guards of the fair actions. If the connection is held, by
  a thread that has frames, then either a call is about to begin on that thread,
  or one of its open calls has no open call nested in it (`InnermostOpen`) and
  can queue or end. Such a call exists because `parent` cannot map a finite set
  of open calls onto itself (`Acyclic`), and it is finite because there are as
  many calls as frames. If the connection is free nothing is open, and if
  nothing is about to begin either, every thread is free.

`TransactionChainProofs`:

* `FramesAreChains`, under `OneByOne`. With a single active child per call
  (`SingleChild`) the top frame is that of the one open call without children,
  and popping it leaves its parent's on top. This is where frames and calls agree
  one by one.
* `ChangesAnnounced`, under `PlainUse`. `ChangesQueued`: each table due is in the
  set of an open call or on its way to it, unless a call of the transaction has
  failed; the passing on to the parent keeps it.
* `QueuedAreAnnounced`, under `OneByOne`, an action property: with racing and
  singly cancelled writes, a table whose notification a COMMIT owes and does not
  send was in no set of the transaction's calls. `QueuedPassed`: what a call has queued is in
  the set of some open call as long as the transaction is not doomed, because a
  nested call passes its set on in the same step in which its frame is popped.
* `TransactionIsAtomic`, under `PlainUse`: the refinement. `Begin` of a root is
  `Start`; `Execute`, `Notify` and `WriteRow` of any call of the tree are the
  root's `Change`, `Notify` and `Write`; the end of the root is `Commit` or
  `RollBack`, and all else stutters. The step that needs the invariants is
  `Commit`, whose announced set has to *equal* the one due: one inclusion is
  `OpenQueuesDue`, the other `ChangesQueued`.

### Threads and dispatchers

`TransactionThreadProofs`:

* `CountInvariant`, and from it `TypeCorrect` and `CountIsRight`. That the count
  is a natural number and that it is the number of transactions in progress
  (`ReleaseMatchesAcquire`) need each other: `release()` subtracts, and only a
  call or nested call in progress reaches it.
* `ThreadKept`, with `WaitingHasControl`: a caller that still waits has its
  control job, so the task that resumes it finds `ThreadKeptWhileUsed` true of
  it. A nested release leaves the count positive, a completed Job has no call in
  progress, and a thread finishes only a task whose control job is cancelled.
* `ControlJobReached`. Inductive with the count, which makes the last `Leave`
  cancel the control job.
* `TasksInvariant`: a task is in the queue once or on one thread, never both
  (`TasksOnce`); a suspended call has its task in the queue, and its Job is
  active (`TasksOfCalls`); a Job has one call in progress (`OneCallPerJob`).
* `ThreadsReturn`, what a comment in `acquireTransactionThread` fears
  (`extensions.kt`, "will forever wait"): a thread that is taken is done, or a
  call of its own caller's Job can take a step, or that Job can complete. A call
  of that Job which is suspended in turn would need an active Job
  (`TasksOfCalls`), and the control job of one that is over is left to a Job
  that is being cancelled (`ControlJobInReach`).
* `ExecutorNeverStuck`: as long as a call is in progress or has a task somewhere,
  a thread, a call or a Job can take a step. It follows from the two above: a
  suspended call's task is in the queue, and either a thread is free to run it or
  every thread is taken, by calls that can go on.
* `ExecutorLendsThreads`: the refinement of `ThreadLease`. A call holds its lease
  from the step in which a thread runs its task and resumes it, to the step in
  which it leaves or gives up; a thread whose call is over has finished with it
  for the lease, though its task may still wait for the control job.

`QueryDispatchProofs`:

* `DispatchInvariant`, and from it `TypeCorrect`: a transaction has the connection
  from `Begin` to `End`, through every hop of a delete (`ConnectionHeld`), and
  `RoomForStatement` carries the guard of `CallDelete` to the thread where the
  statement is executed.
* `StarvationIsFinal`, an action property: query threads are given back only
  when the connection is free, it becomes free only from inside the block, and
  the transaction that has it is not there.
* `StuckOnlyIfStarved` (`NeverStuckUnlessStarved`): as long as a call is in progress one can go on, or a
  delete is starved. A transaction that has the connection can go on unless it is
  starved; if nobody has it, whoever keeps a thread waits for the connection and
  may have it, and if nobody keeps a thread, one is free (`WhoKeepsThreads`).
* `InsertsNeverStuck`: if `Dispatching` is empty there is no deadlock at all.
  Only a call in `Dispatching` leaves its own thread (`HopsDispatching`), so none
  is starved, and `StuckOnlyIfStarved` does the rest.

### Content resolver queries (`ContentResolverQueryProofs`)

* `TypeCorrect`, with `PostedBounded` (no more `onChange` calls wait than there
  were changes).
* `StaleCollectorsRun`. `StaleRunsAgain` is inductive with it: a refused
  `trySend` finds the channel full, so a run is to come anyway.
* `RestShowsContent`. `ShownInv` adds what holds while a cursor is open: the rows
  given followed by the rows to come are the content, if nothing changed since
  (`CursorComplete`), and such a collector has no other query in hand. The lemma
  under it is that moving one row from the head of one sequence to the end of the
  other keeps their concatenation.
* `ClosedLeavesObserver` and `QuietForGood` (an action property), from
  `ClosedHoldsNothing`: however a collection ends, nothing is left of it but the
  observer, and when that is gone no late `onChange` brings anything back.

### The documentation site

`SourceSetFilterProofs`:

* `FilterInvariant`, and from it `TypeCorrect` and `PagesMatch`. For each page
  `ArraysFit` (what is active is on a button, once; `restricted` is all buttons;
  when the two arrays are still one, nothing was filtered) and `DisplayFits`
  (buttons, bookmarks, their tab and body, and the notice, row by row).
* `ShownIsStored`. Inductive with the above: each kind of click stores of one
  source set what the page then shows of it.
* `ArraysKept`. The bound is not inductive alone, because a page pushes onto the
  store without looking: the copies of a source set in the store *and* the pages
  that still show it are together no more than the pages (`Bounded`).

`DocumentationPageProofs`:

* `TypesInvariant`, and from it `TypeCorrect`. `Stages` (nothing happens before
  there is a document; a loaded one has its script) and `WorkBounded` (events and
  timers together are bounded, with one more timer from the load event on) are
  what bounds the timers. That `Revealed` returns parts of the menu needs that
  its two choices, a longest piece and a first part, exist.
* `StoredIsShown`. `TabsInv` says what holds before the load event too: an anchor
  handled early has shown its tab and body already, otherwise no body is shown;
  then the load event completes what is there.
* `AnchorIsShown`. The timers are part of the invariant (`AnchorInv`: scrolled to,
  or *some* waiting timer is for the hash), since other anchors' timers come
  first; and `HighlightInv` says that what is highlighted is what the script's
  variable remembers, so that handling an anchor takes the highlight off every
  other.
* `MenuOpens`. `MenuInv`: a menu that is shown is that of the document in the
  window. What it reveals is the part of the page if everything the menu lists
  under the page's id, or under the longest piece of it that it lists at all,
  is that part or inside it (`MenuListsPages`). The lemma `RevealsPart` follows
  the script's search: no two pieces are of the same length, so the one found is
  that piece, and the part stands before those inside it, so it is found first.
* `ListensInTime`: the listener is registered only while the event is to come.

### Only model-checked

Liveness: leads-to under fairness needs `ENABLED`, which is beyond the provers
installed. For each such property the table names the theorems that hold the part
of it that needs no fairness: that what is waited for is accounted for and that
somebody can always take a step. What remains for TLC is that fair steps add up
to an end.

| property | theorems under it |
|---|---|
| `ChangesAreEventuallyRead` | `SubscribedUpdate`, `StalenessAccounted` |
| `EveryCallEnds` | `NeverDeadlocked` |
| `ThreadsComeBack`, `CallersAreServed` | `ThreadsReturn`, `ExecutorNeverStuck` |
| `RoomComesBack` | `BacklogBounded` |
| `CallsEndUnlessStarved` | `StuckOnlyIfStarved`, `InsertsNeverStuck` |
| `ChangesAreRead` | `StaleCollectorsRun` |
| `ClosedIsQuiet` | `ClosedLeavesObserver`, `QuietForGood` |
| `MenuComesUp` | `ListensInTime` |

The other way round, the two refinements of `ThreadLease`, `QueuedAreAnnounced`
and the theorems of the right column are no properties of a run: they are proved
for all values of the constants.

## Not modelled

* Rows of the database, SQL, logging: no property depends on them.
* A coroutine that outlives the block it was started in, and the parent-level
  race of two nested calls passing tables on at once.
* The handle's life cycle: `readableDatabase`, `writableDatabase` and `close`
  delegate to the helper, and what a closed handle does is Android's. `insert`
  reads the handle before it switches context; a `close` in between is listed as
  a hazard.
* The lint check: a stateless visitor over a syntax tree, its count made by an
  SQL tokenizer; a model would restate it.
* Builder, sample application, build files: no state of their own, or a client
  of the library.
* `main.js` and `prism.js`, minified bundles of other projects. Of the site's own
  scripts: the playground of runnable samples (`initPlayground` returns at once,
  the site does not load it), the left column's `open` class, the footer's
  smooth scrolling, and the browser's own scrolling to a fragment. The scripts
  themselves are assumed to be served.

## Plan

Done: the trigger flow, because every user depends on it; transactions with
their abstract specification; the thread, the dispatchers, content resolver
queries with the mappers, and the documentation's scripts. Every safety property
the runs check is a theorem, as are the action properties and the refinement, and
the absence of deadlock in transactions, threads and dispatchers.

Next: a composition of transactions with collectors, for which a query that runs
because of a transaction's trigger reads the state after its commit.
