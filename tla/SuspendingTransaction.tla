------------------------- MODULE SuspendingTransaction -------------------------
(***************************************************************************)
(* KiteDatabase.withTransaction: coroutine transactions pinned to a thread *)
(* of the transaction executor, nested to any depth, that queue up the     *)
(* tables they change and announce them after the outermost one is         *)
(* committed.                                                              *)
(*                                                                         *)
(* One element of Txns is one call of withTransaction (a SqliteTransaction *)
(* object).  SQLite's own bookkeeping, which the code relies on, is the    *)
(* Android session of each thread: a stack of frames, innermost first,     *)
(* each with the listener it was begun with.  setTransactionSuccessful and *)
(* endTransaction act on the top frame, whoever began it.                  *)
(*                                                                         *)
(* `Usage` says what the callers do beyond nesting calls one after the     *)
(* other on the transaction's thread:                                      *)
(*   "siblings"     start nested transactions concurrently (async/launch), *)
(*   "parallel"     write from several threads of one block,               *)
(*   "cancelWrite"  cancel a single write of a block (withTimeoutOrNull),  *)
(*   "cancel"       cancel the coroutine of a transaction.                 *)
(***************************************************************************)
EXTENDS Naturals, Sequences

CONSTANTS
  Txns,       \* calls of withTransaction
  Threads,    \* threads of the transaction executor
  Tables,
  Usage,      \* see above
  NoTxn, NoThread

ASSUME TransactionAssumption ==
  /\ NoTxn \notin Txns
  /\ NoThread \notin Threads
  /\ Usage \subseteq {"siblings", "parallel", "cancelWrite", "cancel"}

VARIABLES
  status,      \* how far each call has come
  outcome,     \* how it ended
  parent,      \* SqliteTransaction.parent
  element,     \* the TransactionElement in its context: its outermost call
  thread,      \* the thread of that element's transaction dispatcher
  owner,       \* the outermost transaction each pool thread is acquired for
  session,     \* SQLite's frames of each thread, innermost first
  connection,  \* the thread that holds the write connection
  dirty,       \* tables changed by the SQLite transaction in progress
  due,         \* history: tables it owes a notification, on its commit
  inflight,    \* tables a block is to notify, not yet added to its set
  tables,      \* the set of tables a SqliteTransaction queues up
  commit,      \* SqliteTransaction.commit
  members,     \* history: calls whose frames are in that SQLite transaction
  fate,        \* history: what became of the writes of each call
  unannounced, \* history: notifications owed at a commit, but not sent
  unfounded    \* history: notifications sent that no commit owed

database == <<session, connection, dirty, due, members, fate>>
notices  == <<unannounced, unfounded>>
vars == <<status, outcome, parent, element, thread, owner, session, connection, dirty,
          due, inflight, tables, commit, members, fate, unannounced, unfounded>>

Frame == [txn: Txns, marked: BOOLEAN, childFailed: BOOLEAN]

(* The thread the call's SQL runs on. *)
Th(x) == thread[element[x]]

IsActive(x) == status[x] \in {"ready", "open"}

(* The calls nested directly in x that have not ended. *)
ActiveChildren(x) == {y \in Txns : parent[y] = x /\ IsActive(y)}

-----------------------------------------------------------------------------
Init ==
  /\ status = [x \in Txns |-> "none"]
  /\ outcome = [x \in Txns |-> "none"]
  /\ parent = [x \in Txns |-> NoTxn]
  /\ element = [x \in Txns |-> x]
  /\ thread = [x \in Txns |-> NoThread]
  /\ owner = [th \in Threads |-> NoTxn]
  /\ session = [th \in Threads |-> <<>>]
  /\ connection = NoThread
  /\ dirty = {}
  /\ due = {}
  /\ inflight = [x \in Txns |-> {}]
  /\ tables = [x \in Txns |-> {}]
  /\ commit = [x \in Txns |-> FALSE]
  /\ members = {}
  /\ fate = [x \in Txns |-> "idle"]
  /\ unannounced = {}
  /\ unfounded = {}

-----------------------------------------------------------------------------
(* Getting a thread *)

(* withTransaction called outside any transaction: createTransactionContext*)
(* asks the executor for a thread.                                         *)
Request(x) ==
  /\ status[x] = "none"
  /\ status' = [status EXCEPT ![x] = "waiting"]
  /\ UNCHANGED <<outcome, parent, element, thread, owner, database, inflight, tables,
                 commit, notices>>

(* Faulty variants: definitions named Faulty... are plausible mistakes in  *)
(* the definition that follows them.  They are never part of Next; the     *)
(* properties have to fail when one takes its definition's place.          *)
FaultyAcquireThread(x, th) ==
  /\ status[x] = "waiting"
  /\ owner' = [owner EXCEPT ![th] = x]
  /\ thread' = [thread EXCEPT ![x] = th]
  /\ status' = [status EXCEPT ![x] = "ready"]
  /\ UNCHANGED <<outcome, parent, element, database, inflight, tables, commit,
                 notices>>

(* acquireTransactionThread: a thread of the pool runs the queued task and *)
(* stays with the transaction.                                             *)
AcquireThread(x, th) ==
  /\ status[x] = "waiting"
  /\ owner[th] = NoTxn
  /\ owner' = [owner EXCEPT ![th] = x]
  /\ thread' = [thread EXCEPT ![x] = th]
  /\ status' = [status EXCEPT ![x] = "ready"]
  /\ UNCHANGED <<outcome, parent, element, database, inflight, tables, commit,
                 notices>>

(* withTransaction called in the block of p: the inherited                 *)
(* TransactionElement leads to the same thread, the inherited thread-local *)
(* makes p the parent.                                                     *)
Nest(x, p) ==
  /\ status[x] = "none"
  /\ status[p] = "open"
  /\ "siblings" \in Usage \/ ActiveChildren(p) = {}
  /\ status' = [status EXCEPT ![x] = "ready"]
  /\ parent' = [parent EXCEPT ![x] = p]
  /\ element' = [element EXCEPT ![x] = element[p]]
  /\ UNCHANGED <<outcome, thread, owner, database, inflight, tables, commit, notices>>

FaultyFinish(x, result) ==
  /\ status' = [status EXCEPT ![x] = "done"]
  /\ outcome' = [outcome EXCEPT ![x] = result]
  /\ UNCHANGED owner

(* The call is over: release() gives the thread back with the last         *)
(* reference, the one of the outermost call.                               *)
Finish(x, result) ==
  /\ status' = [status EXCEPT ![x] = "done"]
  /\ outcome' = [outcome EXCEPT ![x] = result]
  /\ owner' = [th \in Threads |-> IF owner[th] = x THEN NoTxn ELSE owner[th]]

-----------------------------------------------------------------------------
(* Begin *)

FaultyBegin(x) ==
  LET th == Th(x)
      frame == [txn |-> parent[x], marked |-> FALSE, childFailed |-> FALSE]
  IN /\ status[x] = "ready"
     /\ IF session[th] = <<>> THEN connection = NoThread
                              ELSE ~Head(session[th]).marked
     /\ connection' = th
     /\ session' = [session EXCEPT ![th] = <<frame>> \o @]
     /\ members' = members \cup {x}
     /\ status' = [status EXCEPT ![x] = "open"]
     /\ UNCHANGED <<outcome, parent, element, thread, owner, dirty, due, fate,
                    inflight, tables, commit, notices>>

(* beginTransactionWithListener: the first frame of a thread takes the     *)
(* connection, and waits for it; more frames are only counted.             *)
Begin(x) ==
  LET th == Th(x)
      frame == [txn |-> x, marked |-> FALSE, childFailed |-> FALSE]
  IN /\ status[x] = "ready"
     /\ IF session[th] = <<>> THEN connection = NoThread
                              ELSE ~Head(session[th]).marked
     /\ connection' = th
     /\ session' = [session EXCEPT ![th] = <<frame>> \o @]
     /\ members' = members \cup {x}
     /\ status' = [status EXCEPT ![x] = "open"]
     /\ UNCHANGED <<outcome, parent, element, thread, owner, dirty, due, fate,
                    inflight, tables, commit, notices>>

(* SQLite cannot begin (busy, closed), or the session's top frame already  *)
(* is marked successful: beginStatement throws before the inner try.       *)
BeginFails(x) ==
  /\ status[x] = "ready"
  /\ \/ session[Th(x)] = <<>> /\ connection = NoThread
     \/ session[Th(x)] # <<>> /\ Head(session[Th(x)]).marked
  /\ Finish(x, "threw")
  /\ UNCHANGED <<parent, element, thread, database, inflight, tables, commit, notices>>

-----------------------------------------------------------------------------
(* The block *)

(* An insert, update, delete, executeAndTrigger, ... of the block changes  *)
(* rows of t on the transaction's thread, and is to send a trigger.        *)
(* Queueing a table the call has queued already changes no set: one such   *)
(* write per table bounds the block.                                       *)
WriteRow(x, t) ==
  /\ status[x] = "open"
  /\ t \notin inflight[x] \cup tables[x]
  /\ dirty' = dirty \cup {t}
  /\ due' = due \cup {t}
  /\ inflight' = [inflight EXCEPT ![x] = @ \cup {t}]
  /\ UNCHANGED <<status, outcome, parent, element, thread, owner, session, connection,
                 members, fate, tables, commit, notices>>

(* The block asks for a trigger with no change of its own: the public      *)
(* sendTableTrigger, or executeAndTrigger of a statement that changes no   *)
(* row.                                                                    *)
Notify(x, t) ==
  /\ status[x] = "open"
  /\ t \notin inflight[x] \cup tables[x]
  /\ due' = due \cup {t}
  /\ inflight' = [inflight EXCEPT ![x] = @ \cup {t}]
  /\ UNCHANGED <<status, outcome, parent, element, thread, owner, session, connection,
                 dirty, members, fate, tables, commit, notices>>

(* A statement of the block changes rows of t and sends nothing: execute   *)
(* ("No notifications will be sent"), or any write of the block's own      *)
(* through writableDatabase.                                               *)
Execute(x, t) ==
  /\ status[x] = "open"
  /\ dirty' = dirty \cup {t}
  /\ UNCHANGED <<status, outcome, parent, element, thread, owner, session, connection,
                 due, members, fate, inflight, tables, commit, notices>>

(* sendTableTrigger in a transaction: suspendingTransaction.addAll(tables).*)
QueueTrigger(x, t) ==
  /\ t \in inflight[x]
  /\ inflight' = [inflight EXCEPT ![x] = @ \ {t}]
  /\ tables' = [tables EXCEPT ![x] = @ \cup {t}]
  /\ UNCHANGED <<status, outcome, parent, element, thread, owner, database, commit, notices>>

(* Two threads in addAll of the same LinkedHashSet, which nothing guards:  *)
(* one of the two entries may be lost.                                     *)
QueueTriggersRacing(x, t, u) ==
  /\ "parallel" \in Usage
  /\ t # u
  /\ {t, u} \subseteq inflight[x]
  /\ inflight' = [inflight EXCEPT ![x] = @ \ {t, u}]
  /\ tables' = [tables EXCEPT ![x] = @ \cup {t}]
  /\ UNCHANGED <<status, outcome, parent, element, thread, owner, database, commit, notices>>

(* The coroutine of one write is cancelled after the row is written: its   *)
(* withContext throws, sendTableTrigger is not reached, the block goes on. *)
CancelWrite(x, t) ==
  /\ "cancelWrite" \in Usage
  /\ t \in inflight[x]
  /\ inflight' = [inflight EXCEPT ![x] = @ \ {t}]
  /\ UNCHANGED <<status, outcome, parent, element, thread, owner, database, tables,
                 commit, notices>>

-----------------------------------------------------------------------------
(* End *)

(* The block is over: what it started has ended. *)
BlockOver(x) == status[x] = "open" /\ inflight[x] = {} /\ ActiveChildren(x) = {}

FaultySendOnlyOutermost(x, applied) ==
  LET announced == IF commit'[x] /\ parent[x] = NoTxn THEN tables[x] ELSE {}
  IN /\ unannounced' = unannounced \cup (applied \ announced)
     /\ unfounded' = unfounded \cup (announced \ applied)
     /\ UNCHANGED tables

FaultySendAtOnce(x, applied) ==
  LET announced == IF commit'[x] THEN tables[x] ELSE {}
  IN /\ unannounced' = unannounced \cup (applied \ announced)
     /\ unfounded' = unfounded \cup (announced \ applied)
     /\ UNCHANGED tables

(* After endTransaction returned: a committed transaction passes its       *)
(* tables to its parent, or announces them when it has none.  `applied` is *)
(* what the database commits in this step, of the tables that owe a        *)
(* notification.                                                           *)
SendTableTrigger(x, applied) ==
  LET announced == IF commit'[x] /\ parent[x] = NoTxn THEN tables[x] ELSE {}
  IN /\ tables' = IF commit'[x] /\ parent[x] # NoTxn
                    THEN [tables EXCEPT ![parent[x]] = @ \cup tables[x]]
                    ELSE tables
     /\ unannounced' = unannounced \cup (applied \ announced)
     /\ unfounded' = unfounded \cup (announced \ applied)

Succeeds(frame) == frame.marked /\ ~frame.childFailed

(* setTransactionSuccessful: the top frame is marked. *)
Marked(stack) == [stack EXCEPT ![1].marked = TRUE]

(* The new top frame learns that the popped one failed. *)
PassOn(stack, failed) == [stack EXCEPT ![1].childFailed = @ \/ failed]

(* endTransaction with more frames below: only the frame below learns of   *)
(* a failure.                                                              *)
EndInner(x, stack, result) ==
  LET th == Th(x)
      ok == Succeeds(Head(stack))
      below == Tail(stack)
  IN /\ below # <<>>
     /\ session' = [session EXCEPT ![th] = PassOn(below, ~ok)]
     /\ commit' = [commit EXCEPT ![Head(stack).txn] = @ \/ ok]
     /\ SendTableTrigger(x, {})
     /\ Finish(x, result)
     /\ UNCHANGED <<parent, element, thread, connection, dirty, due, members, fate,
                    inflight>>

(* endTransaction of the last frame: COMMIT or ROLLBACK, then the          *)
(* connection is released.                                                 *)
EndLast(x, stack, result) ==
  LET ok == Succeeds(Head(stack))
  IN /\ Tail(stack) = <<>>
     /\ session' = [session EXCEPT ![Th(x)] = <<>>]
     /\ commit' = [commit EXCEPT ![Head(stack).txn] = @ \/ ok]
     /\ SendTableTrigger(x, IF ok THEN due ELSE {})
     /\ fate' = [y \in Txns |-> IF y \notin members THEN fate[y]
                                ELSE IF ok THEN "committed" ELSE "rolledBack"]
     /\ connection' = NoThread
     /\ dirty' = {}
     /\ due' = {}
     /\ members' = {}
     /\ Finish(x, result)
     /\ UNCHANGED <<parent, element, thread, inflight>>

(* COMMIT itself fails: the listener has been told onCommit, but           *)
(* endTransaction throws and the trigger is not reached.  SQLite is taken  *)
(* to roll back what it could not commit.                                  *)
CommitFails(x) ==
  /\ BlockOver(x)
  /\ Len(session[Th(x)]) = 1
  /\ ~Head(session[Th(x)]).marked /\ ~Head(session[Th(x)]).childFailed
  /\ session' = [session EXCEPT ![Th(x)] = <<>>]
  /\ commit' = [commit EXCEPT ![Head(session[Th(x)]).txn] = TRUE]
  /\ fate' = [y \in Txns |-> IF y \in members THEN "rolledBack" ELSE fate[y]]
  /\ connection' = NoThread
  /\ dirty' = {}
  /\ due' = {}
  /\ members' = {}
  /\ Finish(x, "threw")
  /\ UNCHANGED <<parent, element, thread, inflight, tables, notices>>

(* The block returns: setTransactionSuccessful marks the top frame, and    *)
(* endTransaction follows with no suspension in between.                   *)
Return(x) ==
  LET stack == session[Th(x)]
  IN /\ BlockOver(x)
     /\ ~Head(stack).marked
     /\ \/ EndInner(x, Marked(stack), "returned")
        \/ EndLast(x, Marked(stack), "returned")

FaultyThrowWithoutEnd(x) ==
  /\ BlockOver(x)
  /\ Finish(x, "threw")
  /\ UNCHANGED <<parent, element, thread, database, inflight, tables, commit, notices>>

FaultyThrowMarks(x) ==
  LET stack == Marked(session[Th(x)])
  IN /\ BlockOver(x)
     /\ EndInner(x, stack, "threw") \/ EndLast(x, stack, "threw")

(* The block throws, or setTransactionSuccessful does because the top      *)
(* frame is marked already: the finally clause ends the transaction.       *)
Throw(x) ==
  LET stack == session[Th(x)]
  IN /\ BlockOver(x)
     /\ EndInner(x, stack, "threw") \/ EndLast(x, stack, "threw")

-----------------------------------------------------------------------------
(* Cancellation of a transaction's coroutine *)

(* Before beginStatement, with the element not yet acquired for (the       *)
(* control job is cancelled, so the queued task will end at once) or       *)
(* acquired: release() follows.                                            *)
CancelBeforeBegin(x) ==
  /\ "cancel" \in Usage
  /\ status[x] \in {"waiting", "ready"}
  /\ Finish(x, "cancelled")
  /\ UNCHANGED <<parent, element, thread, database, inflight, tables, commit, notices>>

(* The outermost call has its thread, and withContext throws before the    *)
(* block reaches acquire(): there is no release() either, and the thread   *)
(* stays taken.                                                            *)
AbandonThread(x) ==
  /\ "cancel" \in Usage
  /\ status[x] = "ready"
  /\ parent[x] = NoTxn
  /\ status' = [status EXCEPT ![x] = "done"]
  /\ outcome' = [outcome EXCEPT ![x] = "cancelled"]
  /\ UNCHANGED <<parent, element, thread, owner, database, inflight, tables, commit,
                 notices>>

(* The Job of the caller completes, which cancels the control job of a     *)
(* thread it abandoned (after a release() there is no thread to free).     *)
CompleteJob(x) ==
  /\ "cancel" \in Usage
  /\ status[x] = "done"
  /\ \E th \in Threads : owner[th] = x
  /\ owner' = [th \in Threads |-> IF owner[th] = x THEN NoTxn ELSE owner[th]]
  /\ UNCHANGED <<status, outcome, parent, element, thread, database, inflight, tables,
                 commit, notices>>

(* In the block, or on its way out: withContext in the finally clause      *)
(* throws CancellationException instead of running endTransaction.  The    *)
(* frame stays, marked if the block had returned; the thread is released.  *)
CancelInBlock(x, returned) ==
  LET th == Th(x)
  IN /\ "cancel" \in Usage
     /\ BlockOver(x)
     /\ returned => ~Head(session[th]).marked
     /\ session' = IF returned THEN [session EXCEPT ![th] = Marked(@)]
                                ELSE session
     /\ Finish(x, "cancelled")
     /\ UNCHANGED <<parent, element, thread, connection, dirty, due, members, fate,
                    inflight, tables, commit, notices>>

-----------------------------------------------------------------------------
InBlock(x) ==
  \E t \in Tables :
    \/ WriteRow(x, t)
    \/ Notify(x, t)
    \/ Execute(x, t)
    \/ QueueTrigger(x, t)
    \/ \E u \in Tables : QueueTriggersRacing(x, t, u)
    \/ CancelWrite(x, t)

End(x) == Return(x) \/ Throw(x) \/ CommitFails(x)

Next ==
  \E x \in Txns :
    \/ Request(x)
    \/ \E th \in Threads : AcquireThread(x, th)
    \/ \E p \in Txns : Nest(x, p)
    \/ Begin(x) \/ BeginFails(x)
    \/ InBlock(x)
    \/ End(x)
    \/ CancelBeforeBegin(x) \/ AbandonThread(x) \/ CompleteJob(x)
    \/ \E returned \in BOOLEAN : CancelInBlock(x, returned)

Spec == Init /\ [][Next]_vars

(* Threads and coroutines that can go on do, and blocks come to an end.    *)
Fairness ==
  \A x \in Txns :
    /\ WF_vars(\E th \in Threads : AcquireThread(x, th))
    /\ WF_vars(Begin(x) \/ BeginFails(x))
    /\ WF_vars(\E t \in Tables : QueueTrigger(x, t))
    /\ WF_vars(End(x))

FairSpec == Spec /\ Fairness

-----------------------------------------------------------------------------
TypeOK ==
  /\ status \in [Txns -> {"none", "waiting", "ready", "open", "done"}]
  /\ outcome \in [Txns -> {"none", "returned", "threw", "cancelled"}]
  /\ parent \in [Txns -> Txns \cup {NoTxn}]
  /\ element \in [Txns -> Txns]
  /\ thread \in [Txns -> Threads \cup {NoThread}]
  /\ owner \in [Threads -> Txns \cup {NoTxn}]
  /\ session \in [Threads -> Seq(Frame)]
  /\ connection \in Threads \cup {NoThread}
  /\ dirty \subseteq Tables
  /\ due \subseteq Tables
  /\ inflight \in [Txns -> SUBSET Tables]
  /\ tables \in [Txns -> SUBSET Tables]
  /\ commit \in [Txns -> BOOLEAN]
  /\ members \subseteq Txns
  /\ fate \in [Txns -> {"idle", "committed", "rolledBack"}]
  /\ unannounced \subseteq Tables
  /\ unfounded \subseteq Tables

Begun(x) == x \in members \/ fate[x] # "idle"

(* SQLite pops the top frame whoever asks, so the code depends on every    *)
(* frame being ended by the call that began it: the frames of a thread are *)
(* the open calls of its transaction, each above its parent, none is left  *)
(* marked, and a frame knows of a failed child exactly when a nested call  *)
(* of its own ended without its onCommit.                                  *)
SessionsAreCallChains ==
  /\ \A th \in Threads : \A i \in 1..Len(session[th]) :
       LET f == session[th][i]
       IN /\ status[f.txn] = "open" /\ Th(f.txn) = th /\ ~f.marked
          /\ parent[f.txn] = IF i = Len(session[th]) THEN NoTxn
                                                     ELSE session[th][i + 1].txn
          /\ f.childFailed <=> \E y \in Txns : /\ parent[y] = f.txn
                                               /\ status[y] = "done"
                                               /\ Begun(y) /\ ~commit[y]
  /\ \A x \in Txns : status[x] = "open" =>
       \E i \in 1..Len(session[Th(x)]) : session[Th(x)][i].txn = x

(* "Transactions queue up all query notifications until they have been     *)
(* applied": every notification a transaction owes (of a table changed by  *)
(* a method that notifies, or one the block asked for) is sent when it is  *)
(* committed, whichever level of nesting owed it.  A change by execute,    *)
(* which is documented to notify nobody, owes none.                        *)
EveryChangeAnnounced == unannounced = {}

(* ... and no other is sent: none by a transaction that was rolled back,   *)
(* by a nested call before the outermost one ended, or because COMMIT      *)
(* failed after onCommit.                                                  *)
NothingUnfounded == unfounded = {}

(* withTransaction's KDoc: if the transaction "or any of its nested        *)
(* transactions were not successful, then the entire transaction will be   *)
(* rolled back when the outermost transaction is ended": once the          *)
(* outermost call is over, all its levels are committed and all returned,  *)
(* or all are rolled back and one did not.                                 *)
AllOrNothing ==
  \A r \in Txns :
    LET calls == {y \in Txns : element[y] = r /\ Begun(y)}
    IN status[r] = "done" /\ r \in calls =>
         \/ \A y \in calls : fate[y] = "committed" /\ outcome[y] = "returned"
         \/ /\ \A y \in calls : fate[y] = "rolledBack"
            /\ \E y \in calls : outcome[y] # "returned"

(* The SQLite transaction in progress belongs to one outermost call, the   *)
(* one the connection's thread is acquired for, which has begun, and the   *)
(* calls nested in it; between transactions there is nothing uncommitted.  *)
OneTransactionAtATime ==
  /\ connection = NoThread => dirty = {} /\ due = {} /\ members = {}
  /\ connection # NoThread =>
       /\ owner[connection] \in members
       /\ \A y \in members : element[y] = owner[connection]

(* A call that was cancelled before it could use the thread it was given.  *)
Abandoned(x) == status[x] = "done" /\ outcome[x] = "cancelled" /\ ~Begun(x)

(* Whatever is cancelled, a thread that has frames is the one that holds   *)
(* the connection (SQLite never sees two transactions), it has a frame for *)
(* each open call, and a pool thread is in use only by the one call that   *)
(* runs on it: one in progress, or one that abandoned it and whose Job,    *)
(* when it completes, still has it to give back.                           *)
SessionsAndThreadsKept ==
  /\ \A th \in Threads : session[th] # <<>> <=> connection = th
  /\ \A x \in Txns : status[x] = "open" => connection = Th(x)
  /\ \A th \in Threads : owner[th] # NoTxn =>
       /\ thread[owner[th]] = th
       /\ IsActive(owner[th]) \/ Abandoned(owner[th])

(* What AtomicTransaction promises of an outermost call, whatever is       *)
(* nested in it: one change of the database and one announcement of all of *)
(* it, in one step, or nothing at all.                                     *)
IsOutermost(x) == parent[x] = NoTxn

Atomic == INSTANCE AtomicTransaction WITH
  Calls     <- Txns,
  state     <- [x \in Txns |-> IF ~IsOutermost(x) THEN "idle"
                               ELSE IF x \in members THEN "running" ELSE fate[x]],
  changed   <- [x \in Txns |-> IF IsOutermost(x) /\ x \in members THEN dirty
                                                               ELSE {}],
  due       <- [x \in Txns |-> IF IsOutermost(x) /\ x \in members THEN due ELSE {}],
  announced <- [x \in Txns |-> IF IsOutermost(x) /\ fate[x] = "committed"
                                 /\ commit[x] THEN tables[x] ELSE {}]

ImplementsAtomic == Atomic!Spec

(* Every call of withTransaction comes to an end (the test                 *)
(* suspendingTransactionsWontDeadlock), however many calls share the       *)
(* threads of the executor and wait for the connection.                    *)
EveryCallEnds ==
  \A x \in Txns : status[x] # "none" ~> status[x] = "done"

=============================================================================
