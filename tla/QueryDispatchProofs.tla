------------------------- MODULE QueryDispatchProofs -------------------------
(***************************************************************************)
(* Theorems about QueryDispatch, for any number of calls, of threads and   *)
(* of statements: a starved delete is starved for ever, and nothing else   *)
(* leaves every call waiting for another.                                  *)
(***************************************************************************)
EXTENDS QueryDispatch, FiniteSetTheorems, TLAPS

(* A delete on its way to its statement was counted when it was called. *)
RoomForStatement ==
  \A x \in Txns : at[x] \in {"hopping", "executing"} => statements[x] < MaxOps

(* The connection stays with the transaction from BEGIN to its end, through *)
(* every hop of a delete.                                                  *)
ConnectionHeld ==
  \A x \in Txns :
    at[x] \in {"inside", "hopping", "executing", "returning"} <=> connection = x

DispatchInv == TypeOK /\ RoomForStatement /\ ConnectionHeld

-----------------------------------------------------------------------------
(* The types need the bound on statements, which is checked on one thread  *)
(* and used on another.                                                    *)
THEOREM DispatchInvariant == Spec => []DispatchInv
<1>1. Init => DispatchInv
  BY DispatchAssumption DEF Init, DispatchInv, TypeOK, RoomForStatement,
     ConnectionHeld, WritePlaces, TxnPlaces
<1>2. DispatchInv /\ [Next]_vars => DispatchInv'
  <2> SUFFICES ASSUME DispatchInv, [Next]_vars PROVE DispatchInv'
    OBVIOUS
  <2>1. ASSUME NEW w \in Writers, CallWrite(w)
        PROVE  DispatchInv'
    BY DispatchAssumption, <2>1 DEF DispatchInv, TypeOK, RoomForStatement,
       ConnectionHeld, WritePlaces, TxnPlaces, CallWrite, Move
  <2>2. ASSUME NEW w \in Writers, RunWrite(w)
        PROVE  DispatchInv'
    BY DispatchAssumption, <2>2 DEF DispatchInv, TypeOK, RoomForStatement,
       ConnectionHeld, WritePlaces, TxnPlaces, RunWrite, Move
  <2>3. ASSUME NEW w \in Writers, ExecuteWrite(w)
        PROVE  DispatchInv'
    BY DispatchAssumption, <2>3 DEF DispatchInv, TypeOK, RoomForStatement,
       ConnectionHeld, WritePlaces, TxnPlaces, ExecuteWrite, Move
  <2>4. ASSUME NEW x \in Txns, CallTransaction(x)
        PROVE  DispatchInv'
    BY DispatchAssumption, <2>4 DEF DispatchInv, TypeOK, RoomForStatement,
       ConnectionHeld, WritePlaces, TxnPlaces, CallTransaction, Move
  <2>5. ASSUME NEW x \in Txns, AcquireThread(x)
        PROVE  DispatchInv'
    BY DispatchAssumption, <2>5 DEF DispatchInv, TypeOK, RoomForStatement,
       ConnectionHeld, WritePlaces, TxnPlaces, AcquireThread, Move
  <2>6. ASSUME NEW x \in Txns, Begin(x)
        PROVE  DispatchInv'
    BY DispatchAssumption, <2>6 DEF DispatchInv, TypeOK, RoomForStatement,
       ConnectionHeld, WritePlaces, TxnPlaces, Begin, Move
  <2>7. ASSUME NEW x \in Txns, Insert(x)
        PROVE  DispatchInv'
    BY DispatchAssumption, <2>7 DEF DispatchInv, TypeOK, RoomForStatement,
       ConnectionHeld, WritePlaces, TxnPlaces, Insert
  <2>8. ASSUME NEW x \in Txns, CallDelete(x)
        PROVE  DispatchInv'
    BY DispatchAssumption, <2>8 DEF DispatchInv, TypeOK, RoomForStatement,
       ConnectionHeld, WritePlaces, TxnPlaces, CallDelete, Move
  <2>9. ASSUME NEW x \in Txns, RunDelete(x)
        PROVE  DispatchInv'
    BY DispatchAssumption, <2>9 DEF DispatchInv, TypeOK, RoomForStatement,
       ConnectionHeld, WritePlaces, TxnPlaces, RunDelete, Move
  <2>10. ASSUME NEW x \in Txns, ExecuteDelete(x)
        PROVE  DispatchInv'
    BY DispatchAssumption, <2>10 DEF DispatchInv, TypeOK, RoomForStatement,
       ConnectionHeld, WritePlaces, TxnPlaces, ExecuteDelete, Move
  <2>11. ASSUME NEW x \in Txns, ReturnDelete(x)
        PROVE  DispatchInv'
    BY DispatchAssumption, <2>11 DEF DispatchInv, TypeOK, RoomForStatement,
       ConnectionHeld, WritePlaces, TxnPlaces, ReturnDelete, Move
  <2>12. ASSUME NEW x \in Txns, End(x)
        PROVE  DispatchInv'
    BY DispatchAssumption, <2>12 DEF DispatchInv, TypeOK, RoomForStatement,
       ConnectionHeld, WritePlaces, TxnPlaces, End, Move
  <2>13. CASE UNCHANGED vars
    BY <2>13 DEF vars, DispatchInv, TypeOK, RoomForStatement,
       ConnectionHeld, WritePlaces, TxnPlaces
  <2> QED
    BY <2>1, <2>2, <2>3, <2>4, <2>5, <2>6, <2>7, <2>8, <2>9, <2>10, <2>11,
       <2>12, <2>13 DEF Next, ProceedWrite, ProceedTransaction
<1> QED
  BY <1>1, <1>2, PTL DEF Spec

(* Every variable keeps its type. *)
THEOREM TypeCorrect == Spec => []TypeOK
<1>1. DispatchInv => TypeOK
  BY DEF DispatchInv
<1> QED
  BY <1>1, DispatchInvariant, PTL

(* Once the query threads are all kept by writes that wait for the         *)
(* connection, and the transaction that has it waits for a query thread,   *)
(* no step of any call changes that: threads are given back only when the  *)
(* connection is free, and it becomes free only from inside the block.     *)
THEOREM StarvationIsFinal == Spec => StarvedForEver
<1>1. DispatchInv /\ [Next]_vars => [Starved => Starved']_vars
  <2> SUFFICES ASSUME DispatchInv, [Next]_vars, Starved
               PROVE  Starved'
    OBVIOUS
  <2>1. ASSUME NEW w \in Writers, CallWrite(w)
        PROVE  Starved'
    BY DispatchAssumption, <2>1 DEF DispatchInv, TypeOK,
       ConnectionHeld, Starved, QueryThreadFree, Blocked, CallWrite,
       Move
  <2>2. ASSUME NEW w \in Writers, RunWrite(w)
        PROVE  Starved'
    BY DispatchAssumption, <2>2 DEF DispatchInv, TypeOK,
       ConnectionHeld, Starved, QueryThreadFree, Blocked, RunWrite,
       Move
  <2>3. ASSUME NEW w \in Writers, ExecuteWrite(w)
        PROVE  Starved'
    BY DispatchAssumption, <2>3 DEF DispatchInv, TypeOK,
       ConnectionHeld, Starved, QueryThreadFree, Blocked, ExecuteWrite,
       Move
  <2>4. ASSUME NEW x \in Txns, CallTransaction(x)
        PROVE  Starved'
    BY DispatchAssumption, <2>4 DEF DispatchInv, TypeOK,
       ConnectionHeld, Starved, QueryThreadFree, Blocked,
       CallTransaction, Move
  <2>5. ASSUME NEW x \in Txns, AcquireThread(x)
        PROVE  Starved'
    BY DispatchAssumption, <2>5 DEF DispatchInv, TypeOK,
       ConnectionHeld, Starved, QueryThreadFree, Blocked,
       AcquireThread, Move
  <2>6. ASSUME NEW x \in Txns, Begin(x)
        PROVE  Starved'
    BY DispatchAssumption, <2>6 DEF DispatchInv, TypeOK,
       ConnectionHeld, Starved, QueryThreadFree, Blocked, Begin, Move
  <2>7. ASSUME NEW x \in Txns, Insert(x)
        PROVE  Starved'
    BY DispatchAssumption, <2>7 DEF DispatchInv, TypeOK,
       ConnectionHeld, Starved, QueryThreadFree, Blocked, Insert
  <2>8. ASSUME NEW x \in Txns, CallDelete(x)
        PROVE  Starved'
    BY DispatchAssumption, <2>8 DEF DispatchInv, TypeOK,
       ConnectionHeld, Starved, QueryThreadFree, Blocked, CallDelete,
       Move
  <2>9. ASSUME NEW x \in Txns, RunDelete(x)
        PROVE  Starved'
    BY DispatchAssumption, <2>9 DEF DispatchInv, TypeOK,
       ConnectionHeld, Starved, QueryThreadFree, Blocked, RunDelete,
       Move
  <2>10. ASSUME NEW x \in Txns, ExecuteDelete(x)
        PROVE  Starved'
    BY DispatchAssumption, <2>10 DEF DispatchInv, TypeOK,
       ConnectionHeld, Starved, QueryThreadFree, Blocked,
       ExecuteDelete, Move
  <2>11. ASSUME NEW x \in Txns, ReturnDelete(x)
        PROVE  Starved'
    BY DispatchAssumption, <2>11 DEF DispatchInv, TypeOK,
       ConnectionHeld, Starved, QueryThreadFree, Blocked, ReturnDelete,
       Move
  <2>12. ASSUME NEW x \in Txns, End(x)
        PROVE  Starved'
    BY DispatchAssumption, <2>12 DEF DispatchInv, TypeOK,
       ConnectionHeld, Starved, QueryThreadFree, Blocked, End, Move
  <2>13. CASE UNCHANGED vars
    BY <2>13 DEF vars, DispatchInv, TypeOK, ConnectionHeld, Starved,
       QueryThreadFree, Blocked
  <2> QED
    BY <2>1, <2>2, <2>3, <2>4, <2>5, <2>6, <2>7, <2>8, <2>9, <2>10, <2>11,
       <2>12, <2>13 DEF Next, ProceedWrite, ProceedTransaction
<1> QED
  BY <1>1, DispatchInvariant, PTL DEF Spec, StarvedForEver

-----------------------------------------------------------------------------
(* Deadlock *)

(* A transaction that has the connection can go on unless it is starved.   *)
LEMMA HolderProceeds ==
  ASSUME DispatchInv, connection # Nobody, ~Starved
  PROVE  SomeoneProceeds
<1>1. connection \in Txns /\ at[connection] \in {"inside", "hopping", "executing", "returning"}
  BY DEF DispatchInv, TypeOK, ConnectionHeld
<1>2. CanProceedTransaction(connection)
  BY <1>1 DEF CanProceedTransaction, Starved
<1> QED
  BY <1>1, <1>2 DEF SomeoneProceeds

(* If no query thread is free a write keeps one, and if no pool thread is, *)
(* a transaction does.                                                     *)
LEMMA WhoKeepsThreads ==
  /\ ~QueryThreadFree => \E w \in Writers : at[w] = "blocked"
  /\ ~PoolThreadFree => \E x \in Txns : at[x] \notin {"none", "waiting", "done"}
<1>1. 0 < QueryThreads /\ 0 < PoolThreads /\ Cardinality({}) = 0
  BY DispatchAssumption, FS_EmptySet
<1>2. ~QueryThreadFree => Blocked # {}
  BY <1>1 DEF QueryThreadFree
<1>3. ~PoolThreadFree => OnPoolThread # {}
  BY <1>1 DEF PoolThreadFree
<1> QED
  BY <1>2, <1>3 DEF Blocked, OnPoolThread

(* With one query thread and one pool thread or any number of them, and    *)
(* any calls waiting for threads and connection in turn, some call in      *)
(* progress can always go on, except in the one circle of a starved        *)
(* delete: the core of CallsEndUnlessStarved that needs no fairness.       *)
THEOREM StuckOnlyIfStarved == Spec => []NeverStuckUnlessStarved
<1>1. DispatchInv => NeverStuckUnlessStarved
  <2> SUFFICES ASSUME DispatchInv, NEW c \in Underway, ~Starved
               PROVE  SomeoneProceeds
    BY DEF NeverStuckUnlessStarved
  <2>1. CASE connection # Nobody
    BY <2>1, HolderProceeds
  <2>2. CASE connection = Nobody
    <3>1. ASSUME NEW w \in Writers, at[w] \notin {"none", "done"}
          PROVE  SomeoneProceeds
      <4>1. at[w] \in {"dispatched", "blocked"}
        BY <3>1 DEF DispatchInv, TypeOK, WritePlaces
      <4> QED
        BY <2>2, <4>1, WhoKeepsThreads DEF SomeoneProceeds, CanProceedWrite
    <3>2. ASSUME NEW x \in Txns, at[x] \notin {"none", "waiting", "done"}
          PROVE  SomeoneProceeds
      <4>1. at[x] = "beginning"
        <5>1. at[x] \in TxnPlaces /\ connection # x
          BY <2>2, DispatchAssumption DEF DispatchInv, TypeOK
        <5>2. at[x] \notin {"inside", "hopping", "executing", "returning"}
          BY <5>1 DEF DispatchInv, ConnectionHeld
        <5> QED
          BY <3>2, <5>1, <5>2 DEF TxnPlaces
      <4> QED
        BY <2>2, <4>1 DEF SomeoneProceeds, CanProceedTransaction
    <3>3. ASSUME NEW x \in Txns, at[x] = "waiting"
          PROVE  SomeoneProceeds
      <4>1. CASE PoolThreadFree
        BY <3>3, <4>1 DEF SomeoneProceeds, CanProceedTransaction
      <4>2. CASE ~PoolThreadFree
        BY <3>2, <4>2, WhoKeepsThreads
      <4> QED
        BY <4>1, <4>2
    <3> QED
      BY <3>1, <3>2, <3>3 DEF Underway
  <2> QED
    BY <2>1, <2>2
<1> QED
  BY <1>1, DispatchInvariant, PTL

(* Only a delete, update or query leaves the transaction's thread.         *)
HopsDispatching ==
  \A x \in Txns : at[x] \in {"hopping", "executing", "returning"} => x \in Dispatching

(* When the blocks of all transactions only insert or use the execute...   *)
(* methods, there is no deadlock at all: however few threads there are and *)
(* whoever keeps them, some call in progress can always go on, which is    *)
(* what suspendingTransactionsWontDeadlock expects.                        *)
THEOREM InsertsNeverStuck ==
  ASSUME Dispatching = {}
  PROVE  Spec => [](Underway # {} => SomeoneProceeds)
<1>1. Init => HopsDispatching
  BY DEF Init, HopsDispatching
<1>2. DispatchInv /\ HopsDispatching /\ [Next]_vars => HopsDispatching'
  <2> SUFFICES ASSUME DispatchInv, HopsDispatching, [Next]_vars, NEW x \in Txns,
                      at'[x] \in {"hopping", "executing", "returning"}
               PROVE  x \in Dispatching
    BY DEF HopsDispatching
  <2>1. x \in Writers \cup Txns /\ DOMAIN at = Writers \cup Txns /\ x \notin Writers
    BY DispatchAssumption DEF DispatchInv, TypeOK
  <2>2. at[x] \in {"hopping", "executing", "returning"} \/ CallDelete(x)
    BY <2>1 DEF Next, ProceedWrite, ProceedTransaction, CallWrite, RunWrite, ExecuteWrite,
       CallTransaction, AcquireThread, Begin, Insert, CallDelete, RunDelete, ExecuteDelete,
       ReturnDelete, End, Move, vars
  <2> QED
    BY <2>2 DEF HopsDispatching, CallDelete
<1>3. DispatchInv /\ HopsDispatching => ~Starved
  BY DEF DispatchInv, TypeOK, HopsDispatching, Starved
<1>4. NeverStuckUnlessStarved /\ ~Starved => (Underway # {} => SomeoneProceeds)
  BY DEF NeverStuckUnlessStarved
<1> QED
  BY <1>1, <1>2, <1>3, <1>4, DispatchInvariant, StuckOnlyIfStarved, PTL DEF Spec

=============================================================================
