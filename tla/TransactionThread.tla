--------------------------- MODULE TransactionThread ---------------------------
(***************************************************************************)
(* How an outermost withTransaction gets a thread of the transaction       *)
(* executor and gives it back: createTransactionContext,                   *)
(* acquireTransactionThread and TransactionElement.  The thread runs a     *)
(* task (runBlocking) that hands its event loop to the caller and then     *)
(* waits for a control job.  Everything depends on that job being          *)
(* cancelled once, not before the transaction is over and not never; four  *)
(* places cancel it: release() at count zero, the handler of the suspended *)
(* caller, the refusal of the task by the executor (through that handler), *)
(* and the completion of the caller's own Job.                             *)
(*                                                                         *)
(* An element of Callers is one outermost call of withTransaction.  Calls  *)
(* of one Job are made one after the other.                                *)
(***************************************************************************)
EXTENDS Naturals, Sequences

CONSTANTS
  Callers,
  Jobs,       \* the Jobs of the coroutines that call withTransaction
  JobOf,      \* coroutineContext[Job] of each call
  Threads,    \* threads of the transaction executor
  MaxNested,  \* bound: nested transactions a block starts
  NoCaller

ASSUME ThreadAssumption ==
  /\ JobOf \in [Callers -> Jobs]
  /\ MaxNested \in Nat
  /\ NoCaller \notin Callers

VARIABLES
  job,      \* state of each Job
  call,     \* how far each call has come
  control,  \* its controlJob
  refs,     \* referenceCount of its TransactionElement
  nested,   \* transactions in progress inside it that have acquired
  begun,    \* how many have, to bound them
  queue,    \* tasks waiting in the executor, each named by its call
  worker    \* the call whose task each thread runs

vars == <<job, call, control, refs, nested, begun, queue, worker>>

JobActive(x) == job[JobOf[x]] = "active"

InProgress(x) == call[x] \notin {"none", "over"}

Init ==
  /\ job = [j \in Jobs |-> "active"]
  /\ call = [x \in Callers |-> "none"]
  /\ control = [x \in Callers |-> "none"]
  /\ refs = [x \in Callers |-> 0]
  /\ nested = [x \in Callers |-> 0]
  /\ begun = [x \in Callers |-> 0]
  /\ queue = <<>>
  /\ worker = [th \in Threads |-> NoCaller]

-----------------------------------------------------------------------------
(* Acquiring the thread *)

(* The code up to execute {}: the completion handler is installed, the     *)
(* caller suspended.  In a Job already cancelled the continuation is       *)
(* cancelled from the start: its handler cancels the control job, but the  *)
(* task goes to the executor all the same.                                 *)
MayCall(x) ==
  /\ call[x] = "none"
  /\ job[JobOf[x]] # "completed"
  /\ \A y \in Callers : JobOf[y] = JobOf[x] => ~InProgress(y)

Call(x) ==
  /\ MayCall(x)
  /\ queue' = Append(queue, x)
  /\ call' = [call EXCEPT ![x] = IF JobActive(x) THEN "suspended" ELSE "over"]
  /\ control' = [control EXCEPT ![x] = IF JobActive(x) THEN "active" ELSE "cancelled"]
  /\ UNCHANGED <<job, refs, nested, begun, worker>>

(* The executor throws RejectedExecutionException: the continuation is     *)
(* cancelled, and with it, by the handler, the control job.                *)
Reject(x) ==
  /\ MayCall(x)
  /\ call' = [call EXCEPT ![x] = "over"]
  /\ control' = [control EXCEPT ![x] = "cancelled"]
  /\ UNCHANGED <<job, refs, nested, begun, queue, worker>>

(* A thread takes the first task.  resume() of a continuation cancelled in *)
(* the meantime does nothing.                                              *)
RunTask(th) ==
  /\ worker[th] = NoCaller
  /\ queue # <<>>
  /\ LET x == Head(queue)
     IN /\ worker' = [worker EXCEPT ![th] = x]
        /\ call' = IF call[x] = "suspended" THEN [call EXCEPT ![x] = "resumed"]
                                            ELSE call
  /\ queue' = Tail(queue)
  /\ UNCHANGED <<job, control, refs, nested, begun>>

(* controlJob.join() returns: the thread is free again. *)
FinishTask(th) ==
  /\ worker[th] # NoCaller
  /\ control[worker[th]] = "cancelled"
  /\ worker' = [worker EXCEPT ![th] = NoCaller]
  /\ UNCHANGED <<job, call, control, refs, nested, begun, queue>>

(* The resumed caller runs on its own dispatcher again and calls           *)
(* withContext on the thread it got.  If its Job was cancelled before it   *)
(* could run, the value is lost and the handler is called after all.       *)
Resume(x) ==
  /\ call[x] = "resumed"
  /\ IF JobActive(x)
       THEN /\ call' = [call EXCEPT ![x] = "entering"]
            /\ UNCHANGED control
       ELSE /\ call' = [call EXCEPT ![x] = "over"]
            /\ control' = [control EXCEPT ![x] = "cancelled"]
  /\ UNCHANGED <<job, refs, nested, begun, queue, worker>>

-----------------------------------------------------------------------------
(* Using and releasing it *)

FaultyRelease(x) ==
  /\ refs' = [refs EXCEPT ![x] = @ - 1]
  /\ control' = [control EXCEPT ![x] = "cancelled"]

FaultyReleaseAtOne(x) ==
  /\ refs' = [refs EXCEPT ![x] = @ - 1]
  /\ control' = IF refs[x] = 0 THEN [control EXCEPT ![x] = "cancelled"] ELSE control

(* release(): the last reference cancels the control job. *)
Release(x) ==
  /\ refs' = [refs EXCEPT ![x] = @ - 1]
  /\ control' = IF refs[x] = 1 THEN [control EXCEPT ![x] = "cancelled"] ELSE control

(* The block of withContext starts on the thread: acquire(). *)
Enter(x) ==
  /\ call[x] = "entering"
  /\ JobActive(x)
  /\ call' = [call EXCEPT ![x] = "inside"]
  /\ refs' = [refs EXCEPT ![x] = @ + 1]
  /\ UNCHANGED <<job, control, nested, begun, queue, worker>>

FaultyAbortEntry(x) ==
  /\ call[x] = "entering"
  /\ ~JobActive(x)
  /\ call' = [call EXCEPT ![x] = "over"]
  /\ Release(x)
  /\ UNCHANGED <<job, nested, begun, queue, worker>>

(* The Job is cancelled before the block starts: withContext throws and    *)
(* neither acquire() nor release() is called.                              *)
AbortEntry(x) ==
  /\ call[x] = "entering"
  /\ ~JobActive(x)
  /\ call' = [call EXCEPT ![x] = "over"]
  /\ UNCHANGED <<job, control, refs, nested, begun, queue, worker>>

(* withTransaction in the block, or in a coroutine the block started: the  *)
(* inherited element is acquired once more, in a cancelled Job too (under  *)
(* NonCancellable).  A nested call that is cancelled before its block      *)
(* starts changes nothing.                                                 *)
NestedAcquire(x) ==
  /\ call[x] = "inside"
  /\ begun[x] < MaxNested
  /\ begun' = [begun EXCEPT ![x] = @ + 1]
  /\ nested' = [nested EXCEPT ![x] = @ + 1]
  /\ refs' = [refs EXCEPT ![x] = @ + 1]
  /\ UNCHANGED <<job, call, control, queue, worker>>

(* A nested call ends, however it ends. *)
NestedRelease(x) ==
  /\ nested[x] > 0
  /\ nested' = [nested EXCEPT ![x] = @ - 1]
  /\ Release(x)
  /\ UNCHANGED <<job, call, begun, queue, worker>>

FaultyLeave(x) ==
  /\ call[x] = "inside"
  /\ call' = [call EXCEPT ![x] = "over"]
  /\ Release(x)
  /\ UNCHANGED <<job, nested, begun, queue, worker>>

(* The outermost call ends: what its block started has ended.              *)
Leave(x) ==
  /\ call[x] = "inside"
  /\ nested[x] = 0
  /\ call' = [call EXCEPT ![x] = "over"]
  /\ Release(x)
  /\ UNCHANGED <<job, nested, begun, queue, worker>>

-----------------------------------------------------------------------------
(* The caller's Job *)

FaultyCancel(j) ==
  /\ job[j] = "active"
  /\ job' = [job EXCEPT ![j] = "cancelling"]
  /\ LET mine(x) == JobOf[x] = j /\ InProgress(x)
     IN /\ call' = [x \in Callers |->
                      IF mine(x) /\ call[x] = "suspended" THEN "over" ELSE call[x]]
        /\ control' = [x \in Callers |-> IF mine(x) THEN "cancelled" ELSE control[x]]
  /\ UNCHANGED <<refs, nested, begun, queue, worker>>

(* The Job is cancelled.  A caller still suspended ends at once: its       *)
(* handler cancels the control job, whose task may be queued or not.       *)
Cancel(j) ==
  /\ job[j] = "active"
  /\ job' = [job EXCEPT ![j] = "cancelling"]
  /\ LET waiting(x) == JobOf[x] = j /\ call[x] = "suspended"
     IN /\ call' = [x \in Callers |-> IF waiting(x) THEN "over" ELSE call[x]]
        /\ control' = [x \in Callers |-> IF waiting(x) THEN "cancelled" ELSE control[x]]
  /\ UNCHANGED <<refs, nested, begun, queue, worker>>

FaultyComplete(j) ==
  /\ job[j] # "completed"
  /\ \A x \in Callers : JobOf[x] = j => ~InProgress(x)
  /\ job' = [job EXCEPT ![j] = "completed"]
  /\ UNCHANGED <<call, control, refs, nested, begun, queue, worker>>

(* The coroutine is at its end: invokeOnCompletion cancels the control job *)
(* of every call it made.                                                  *)
Complete(j) ==
  /\ job[j] # "completed"
  /\ \A x \in Callers : JobOf[x] = j => ~InProgress(x)
  /\ job' = [job EXCEPT ![j] = "completed"]
  /\ control' = [x \in Callers |-> IF JobOf[x] = j /\ control[x] = "active"
                                     THEN "cancelled" ELSE control[x]]
  /\ UNCHANGED <<call, refs, nested, begun, queue, worker>>

-----------------------------------------------------------------------------
Next ==
  \/ \E x \in Callers :
       \/ Call(x) \/ Reject(x) \/ Resume(x)
       \/ Enter(x) \/ AbortEntry(x) \/ Leave(x)
       \/ NestedAcquire(x) \/ NestedRelease(x)
  \/ \E th \in Threads : RunTask(th) \/ FinishTask(th)
  \/ \E j \in Jobs : Cancel(j) \/ Complete(j)

Spec == Init /\ [][Next]_vars

(* Dispatchers and the executor run what is ready; a block ends (it starts *)
(* MaxNested transactions at most); a cancelled coroutine unwinds.  An     *)
(* active Job need never complete, and nobody has to call or cancel.       *)
Fairness ==
  /\ \A th \in Threads : WF_vars(RunTask(th) \/ FinishTask(th))
  /\ \A x \in Callers :
       /\ WF_vars(Resume(x))
       /\ WF_vars(Enter(x) \/ AbortEntry(x))
       /\ WF_vars(NestedRelease(x))
       /\ WF_vars(Leave(x))
  /\ \A j \in Jobs : WF_vars(job[j] = "cancelling" /\ Complete(j))

FairSpec == Spec /\ Fairness

-----------------------------------------------------------------------------
TypeOK ==
  /\ job \in [Jobs -> {"active", "cancelling", "completed"}]
  /\ call \in [Callers -> {"none", "suspended", "resumed", "entering", "inside", "over"}]
  /\ control \in [Callers -> {"none", "active", "cancelled"}]
  /\ refs \in [Callers -> Nat]
  /\ nested \in [Callers -> 0..MaxNested]
  /\ begun \in [Callers -> 0..MaxNested]
  /\ queue \in Seq(Callers)
  /\ worker \in [Threads -> Callers \cup {NoCaller}]

(* The SQLite session of a transaction is its thread's: as long as the     *)
(* caller has the thread's event loop in hand, through cancellation and    *)
(* nested transactions released one by one, the thread runs its task and   *)
(* no other, and its control job is active.                                *)
ThreadKeptWhileUsed ==
  \A x \in Callers :
    call[x] \in {"resumed", "entering", "inside"} =>
      control[x] = "active" /\ \E th \in Threads : worker[th] = x

(* "Transaction was never started or was already released" is never        *)
(* thrown: the count is the number of transactions in progress on the      *)
(* element, and while it is positive the thread is held.                   *)
ReleaseMatchesAcquire ==
  \A x \in Callers :
    /\ refs[x] = nested[x] + IF call[x] = "inside" THEN 1 ELSE 0
    /\ nested[x] > 0 => call[x] = "inside"

(* "Otherwise, the acquired transaction thread will forever wait for the   *)
(* controlJob to be cancelled": a call that is over has its control job    *)
(* cancelled, except one cancelled after it got the thread and before its  *)
(* block began; that one is left to its Job's completion, and no control   *)
(* job outlives the Job.                                                   *)
ControlJobInReach ==
  \A x \in Callers :
    control[x] = "active" =>
      /\ job[JobOf[x]] # "completed"
      /\ call[x] = "over" => job[JobOf[x]] = "cancelling"

(* Whoever is cancelled, refused or done, the executor gets its threads    *)
(* back: a call that is over ends up neither queued nor on a thread.       *)
Occupies(x) ==
  \/ \E th \in Threads : worker[th] = x
  \/ \E i \in 1..Len(queue) : queue[i] = x

ThreadsComeBack == \A x \in Callers : call[x] = "over" ~> ~Occupies(x)

(* ... and so every waiting caller gets one in the end, or is cancelled.   *)
CallersAreServed == \A x \in Callers : call[x] = "suspended" ~> call[x] = "over"

=============================================================================
