----------------------------- MODULE QueryDispatch -----------------------------
(***************************************************************************)
(* Who waits for what in KiteDatabase: the threads of queryDispatcher, the *)
(* threads of the transaction executor, and the one write connection.      *)
(*                                                                         *)
(* A write outside a transaction runs on a query thread and keeps it while *)
(* SQLite makes it wait for the connection.  A transaction keeps a pool    *)
(* thread and, from BEGIN on, the connection.  In its block insert and the *)
(* execute... methods go to its own thread (withQueryOrTransactionContext).*)
(* delete, update and query(SupportSQLiteQuery) are wrapped in             *)
(* withContext(queryDispatcher) first: they go to a query thread, from     *)
(* there to the transaction's thread for the statement, and back to a      *)
(* query thread for the rest of the method.                                *)
(***************************************************************************)
EXTENDS Naturals, FiniteSets

CONSTANTS
  Writers,       \* writes made outside transactions
  Txns,          \* outermost transactions
  Dispatching,   \* those of Txns whose block uses delete, update or query
  QueryThreads,  \* number of threads of queryDispatcher
  PoolThreads,   \* number of threads of the transaction executor
  MaxOps,        \* bound: statements of a block
  Nobody

ASSUME DispatchAssumption ==
  /\ Writers \cap Txns = {}
  /\ Dispatching \subseteq Txns
  /\ QueryThreads \in Nat \ {0} /\ PoolThreads \in Nat \ {0}
  /\ MaxOps \in Nat
  /\ Nobody \notin Txns

VARIABLES
  at,          \* where each call is
  connection,  \* the transaction that has the write connection
  statements   \* statements executed by each transaction

vars == <<at, connection, statements>>

Init ==
  /\ at = [c \in Writers \cup Txns |-> "none"]
  /\ connection = Nobody
  /\ statements = [x \in Txns |-> 0]

Move(c, from, to) == at[c] = from /\ at' = [at EXCEPT ![c] = to]

(* Calls that have a thread to themselves. *)
Blocked      == {w \in Writers : at[w] = "blocked"}
OnPoolThread == {x \in Txns : at[x] \notin {"none", "waiting", "done"}}

QueryThreadFree == Cardinality(Blocked) < QueryThreads
PoolThreadFree  == Cardinality(OnPoolThread) < PoolThreads

-----------------------------------------------------------------------------
(* A write outside a transaction *)

(* The method is called: its coroutine is dispatched. *)
CallWrite(w) == Move(w, "none", "dispatched") /\ UNCHANGED <<connection, statements>>

(* A query thread takes it, and waits in SQLite if it must. *)
RunWrite(w) ==
  /\ QueryThreadFree
  /\ Move(w, "dispatched", "blocked")
  /\ UNCHANGED <<connection, statements>>

FaultyExecuteWrite(w) ==
  /\ Move(w, "blocked", "done")
  /\ UNCHANGED <<connection, statements>>

FaultyExecuteWriteKeeps(w) ==
  /\ connection = Nobody
  /\ Move(w, "blocked", "done")
  /\ connection' = w
  /\ UNCHANGED statements

(* The connection is free: the statement is executed, the thread returned. *)
ExecuteWrite(w) ==
  /\ connection = Nobody
  /\ Move(w, "blocked", "done")
  /\ UNCHANGED <<connection, statements>>

-----------------------------------------------------------------------------
(* A transaction *)

CallTransaction(x) == Move(x, "none", "waiting") /\ UNCHANGED <<connection, statements>>

AcquireThread(x) ==
  /\ PoolThreadFree
  /\ Move(x, "waiting", "beginning")
  /\ UNCHANGED <<connection, statements>>

Begin(x) ==
  /\ connection = Nobody
  /\ Move(x, "beginning", "inside")
  /\ connection' = x
  /\ UNCHANGED statements

(* insert in the block: on the transaction's thread from first to last.    *)
Insert(x) ==
  /\ at[x] = "inside"
  /\ statements[x] < MaxOps
  /\ statements' = [statements EXCEPT ![x] = @ + 1]
  /\ UNCHANGED <<at, connection>>

(* delete in the block: dispatched to a query thread, ...  *)
CallDelete(x) ==
  /\ x \in Dispatching
  /\ statements[x] < MaxOps
  /\ Move(x, "inside", "hopping")
  /\ UNCHANGED <<connection, statements>>

(* ... which only sends it on to the transaction's thread, ...  *)
RunDelete(x) ==
  /\ QueryThreadFree
  /\ Move(x, "hopping", "executing")
  /\ UNCHANGED <<connection, statements>>

(* ... where the statement is executed; its result is dispatched back ...  *)
ExecuteDelete(x) ==
  /\ Move(x, "executing", "returning")
  /\ statements' = [statements EXCEPT ![x] = @ + 1]
  /\ UNCHANGED connection

(* ... to a query thread for the rest of the method (the trigger of a      *)
(* delete or update that affected rows; nothing after a query), and the    *)
(* block is resumed.                                                       *)
ReturnDelete(x) ==
  /\ QueryThreadFree
  /\ Move(x, "returning", "inside")
  /\ UNCHANGED <<connection, statements>>

FaultyEndKeepsConnection(x) ==
  /\ Move(x, "inside", "done")
  /\ UNCHANGED <<connection, statements>>

(* endTransaction, and release of the pool thread. *)
End(x) ==
  /\ Move(x, "inside", "done")
  /\ connection' = Nobody
  /\ UNCHANGED statements

-----------------------------------------------------------------------------
(* What a dispatcher, the executor or SQLite does by itself. *)
ProceedWrite(w) == RunWrite(w) \/ ExecuteWrite(w)

ProceedTransaction(x) ==
  \/ AcquireThread(x) \/ Begin(x) \/ RunDelete(x) \/ ExecuteDelete(x)
  \/ ReturnDelete(x) \/ End(x)

Next ==
  \/ \E w \in Writers : CallWrite(w) \/ ProceedWrite(w)
  \/ \E x \in Txns :
       CallTransaction(x) \/ Insert(x) \/ CallDelete(x) \/ ProceedTransaction(x)

Spec == Init /\ [][Next]_vars

(* Threads run what they are given, SQLite hands over the connection, and  *)
(* a block comes to its end.                                               *)
FairSpec ==
  /\ Spec
  /\ \A w \in Writers : WF_vars(ProceedWrite(w))
  /\ \A x \in Txns : WF_vars(ProceedTransaction(x))

-----------------------------------------------------------------------------
WritePlaces == {"none", "dispatched", "blocked", "done"}
TxnPlaces   == {"none", "waiting", "beginning", "inside", "hopping", "executing",
                "returning", "done"}

TypeOK ==
  /\ at \in [Writers \cup Txns -> WritePlaces \cup TxnPlaces]
  /\ \A w \in Writers : at[w] \in WritePlaces
  /\ \A x \in Txns : at[x] \in TxnPlaces
  /\ connection \in Txns \cup {Nobody}
  /\ statements \in [Txns -> 0..MaxOps]

(* Every query thread is kept by a write that waits for the connection,    *)
(* and the transaction that has it waits for a query thread.               *)
Starved ==
  /\ connection # Nobody
  /\ at[connection] \in {"hopping", "returning"}
  /\ ~QueryThreadFree

(* delete and update need a query thread inside a transaction too: once    *)
(* the writers outside have them all, nothing in the library resolves it.  *)
StarvedForEver == [][Starved => Starved']_vars

(* The steps a call in progress can take by itself: the guards of          *)
(* ProceedWrite and ProceedTransaction.                                    *)
CanProceedWrite(w) ==
  \/ at[w] = "dispatched" /\ QueryThreadFree
  \/ at[w] = "blocked" /\ connection = Nobody

CanProceedTransaction(x) ==
  \/ at[x] = "waiting" /\ PoolThreadFree
  \/ at[x] = "beginning" /\ connection = Nobody
  \/ at[x] \in {"hopping", "returning"} /\ QueryThreadFree
  \/ at[x] \in {"inside", "executing"}

SomeoneProceeds ==
  \/ \E w \in Writers : CanProceedWrite(w)
  \/ \E x \in Txns : CanProceedTransaction(x)

Underway == {c \in Writers \cup Txns : at[c] \notin {"none", "done"}}

(* Writers wait for query threads and the connection, transactions for a   *)
(* pool thread, the connection and query threads: all of them wait for one *)
(* another only in the circle of a starved delete.                         *)
NeverStuckUnlessStarved == Underway # {} => SomeoneProceeds \/ Starved

(* ... and starvation is the only way for a call not to end: however few threads *)
(* there are, whatever waits for them and for the connection in turn.  A   *)
(* transaction that only inserts needs no query thread and so ends once it *)
(* has begun, as the test suspendingTransactionsWontDeadlock expects.      *)
CallsEndUnlessStarved ==
  \A c \in Writers \cup Txns : at[c] # "none" ~> at[c] = "done" \/ Starved

=============================================================================
