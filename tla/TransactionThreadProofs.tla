----------------------- MODULE TransactionThreadProofs -----------------------
(***************************************************************************)
(* Theorems about TransactionThread, for every number of calls, Jobs and   *)
(* threads and any depth of nesting: the reference count is right, the     *)
(* thread is held by the call that uses it, no control job is beyond the   *)
(* reach of what cancels it, each call has its task in the executor once,  *)
(* nothing is ever stuck, and callers are lent threads as ThreadLease      *)
(* says.                                                                   *)
(***************************************************************************)
EXTENDS TransactionThread, TLAPS

(* A block has not started fewer transactions than are in progress in it. *)
NestedBegun == \A x \in Callers : nested[x] <= begun[x]

(* release() subtracts from a count, so the types need the count itself.   *)
CountInv == TypeOK /\ NestedBegun /\ ReleaseMatchesAcquire

(* A caller that still waits for its thread has not lost its control job:  *)
(* the task that resumes it finds it as ThreadKeptWhileUsed wants it.      *)
WaitingHasControl ==
  \A x \in Callers : call[x] = "suspended" => control[x] = "active"

ThreadInv == WaitingHasControl /\ ThreadKeptWhileUsed

-----------------------------------------------------------------------------
(* The count is inductive together with the types: each acquire() raises   *)
(* it and marks a transaction in progress, and a release() is reached only *)
(* by such a one.                                                          *)
THEOREM CountInvariant == Spec => []CountInv
<1>1. Init => CountInv
  BY ThreadAssumption DEF Init, CountInv, TypeOK, NestedBegun,
     ReleaseMatchesAcquire
<1>2. CountInv /\ [Next]_vars => CountInv'
  <2> SUFFICES ASSUME CountInv, [Next]_vars
               PROVE  CountInv'
    OBVIOUS
  <2>1. ASSUME NEW x \in Callers, Call(x)
        PROVE  CountInv'
    BY ThreadAssumption, <2>1 DEF CountInv, TypeOK, NestedBegun,
       ReleaseMatchesAcquire, Call, MayCall, JobActive, InProgress
  <2>2. ASSUME NEW x \in Callers, Reject(x)
        PROVE  CountInv'
    BY ThreadAssumption, <2>2 DEF CountInv, TypeOK, NestedBegun,
       ReleaseMatchesAcquire, Reject, MayCall
  <2>3. ASSUME NEW x \in Callers, Resume(x)
        PROVE  CountInv'
    <3>1. TypeOK'
      <4>1. CASE JobActive(x)
        <5>1. /\ call' = [call EXCEPT ![x] = "entering"]
              /\ control' = control
          BY <4>1, <2>3 DEF Resume
        <5> QED
          BY <5>1, <2>3 DEF CountInv, TypeOK, Resume
      <4>2. CASE ~JobActive(x)
        <5>1. /\ call' = [call EXCEPT ![x] = "over"]
              /\ control' = [control EXCEPT ![x] = "cancelled"]
          BY <4>2, <2>3 DEF Resume
        <5> QED
          BY <5>1, <2>3 DEF CountInv, TypeOK, Resume
      <4> QED
        BY <4>1, <4>2
    <3>2. NestedBegun'
      BY <2>3 DEF CountInv, NestedBegun, Resume
    <3>3. ReleaseMatchesAcquire'
      <4>1. \A y \in Callers : call'[y] = "inside" <=> call[y] = "inside"
        BY <2>3 DEF CountInv, TypeOK, Resume
      <4> QED
        BY <4>1, <2>3 DEF CountInv, ReleaseMatchesAcquire, Resume
    <3> QED
      BY <3>1, <3>2, <3>3 DEF CountInv
  <2>4. ASSUME NEW x \in Callers, Enter(x)
        PROVE  CountInv'
    <3>1. refs[x] = 0 /\ nested[x] = 0
      <4>1. call[x] = "entering" /\ nested[x] \in Nat /\ refs[x] \in Nat
        BY ThreadAssumption, <2>4 DEF CountInv, TypeOK, Enter
      <4> QED
        BY <4>1 DEF CountInv, ReleaseMatchesAcquire
    <3>2. TypeOK'
      <4>1. refs' \in [Callers -> Nat]
        BY <2>4 DEF CountInv, TypeOK, Enter
      <4>2. call' \in [Callers -> {"none", "suspended", "resumed", "entering", "inside", "over"}]
        BY <2>4 DEF CountInv, TypeOK, Enter
      <4> QED
        BY <4>1, <4>2, <2>4 DEF CountInv, TypeOK, Enter
    <3>3. ReleaseMatchesAcquire'
      BY <3>1, <2>4 DEF CountInv, TypeOK, ReleaseMatchesAcquire, Enter
    <3> QED
      BY <3>2, <3>3, <2>4 DEF CountInv, NestedBegun, Enter
  <2>5. ASSUME NEW x \in Callers, AbortEntry(x)
        PROVE  CountInv'
    BY ThreadAssumption, <2>5 DEF CountInv, TypeOK, NestedBegun,
       ReleaseMatchesAcquire, AbortEntry, JobActive
  <2>6. ASSUME NEW x \in Callers, Leave(x)
        PROVE  CountInv'
    <3>1. refs[x] = 1 /\ refs'[x] = 0
      BY <2>6 DEF CountInv, TypeOK, ReleaseMatchesAcquire, Leave, Release
    <3>2. TypeOK'
      <4>1. refs' \in [Callers -> Nat]
        BY <3>1, <2>6 DEF CountInv, TypeOK, Leave, Release
      <4>2. control' \in [Callers -> {"none", "active", "cancelled"}]
        BY <3>1, <2>6 DEF CountInv, TypeOK, Leave, Release
      <4> QED
        BY <4>1, <4>2, <2>6 DEF CountInv, TypeOK, Leave
    <3>3. ReleaseMatchesAcquire'
      BY <3>1, <2>6 DEF CountInv, TypeOK, ReleaseMatchesAcquire, Leave, Release
    <3> QED
      BY <3>2, <3>3, <2>6 DEF CountInv, NestedBegun, Leave
  <2>7. ASSUME NEW x \in Callers, NestedAcquire(x)
        PROVE  CountInv'
    BY ThreadAssumption, <2>7 DEF CountInv, TypeOK, NestedBegun,
       ReleaseMatchesAcquire, NestedAcquire
  <2>8. ASSUME NEW x \in Callers, NestedRelease(x)
        PROVE  CountInv'
    BY ThreadAssumption, <2>8 DEF CountInv, TypeOK, NestedBegun,
       ReleaseMatchesAcquire, NestedRelease, Release
  <2>9. ASSUME NEW th \in Threads, RunTask(th)
        PROVE  CountInv'
    BY ThreadAssumption, <2>9 DEF CountInv, TypeOK, NestedBegun,
       ReleaseMatchesAcquire, RunTask
  <2>10. ASSUME NEW th \in Threads, FinishTask(th)
        PROVE  CountInv'
    BY ThreadAssumption, <2>10 DEF CountInv, TypeOK, NestedBegun,
       ReleaseMatchesAcquire, FinishTask
  <2>11. ASSUME NEW j \in Jobs, Cancel(j)
        PROVE  CountInv'
    BY ThreadAssumption, <2>11 DEF CountInv, TypeOK, NestedBegun,
       ReleaseMatchesAcquire, Cancel
  <2>12. ASSUME NEW j \in Jobs, Complete(j)
        PROVE  CountInv'
    BY ThreadAssumption, <2>12 DEF CountInv, TypeOK, NestedBegun,
       ReleaseMatchesAcquire, Complete, InProgress
  <2>13. CASE UNCHANGED vars
    BY <2>13 DEF vars, CountInv, TypeOK, NestedBegun,
       ReleaseMatchesAcquire
  <2> QED
    BY <2>1, <2>2, <2>3, <2>4, <2>5, <2>6, <2>7, <2>8, <2>9, <2>10, <2>11,
       <2>12, <2>13 DEF Next
<1> QED
  BY <1>1, <1>2, PTL DEF Spec

(* Every variable keeps its type; the count is never negative (release(),  *)
(* extensions.kt 178).                                                     *)
THEOREM TypeCorrect == Spec => []TypeOK
<1>1. CountInv => TypeOK
  BY DEF CountInv
<1> QED
  BY <1>1, CountInvariant, PTL

(* The count is the number of transactions in progress on the element, so  *)
(* the IllegalStateException of release() is never thrown.                 *)
THEOREM CountIsRight == Spec => []ReleaseMatchesAcquire
<1>1. CountInv => ReleaseMatchesAcquire
  BY DEF CountInv
<1> QED
  BY <1>1, CountInvariant, PTL

-----------------------------------------------------------------------------
(* A thread is taken from a call only when its control job is cancelled,   *)
(* and while the call uses it nothing cancels that: not a nested release,  *)
(* which leaves the count positive, and not the completion of a Job, which *)
(* has no call in progress.                                                *)
LEMMA ThreadInvariant == Spec => []ThreadInv
<1>1. Init => ThreadInv
  BY DEF Init, ThreadInv, WaitingHasControl, ThreadKeptWhileUsed
<1>2. CountInv /\ ThreadInv /\ [Next]_vars => ThreadInv'
  <2> SUFFICES ASSUME CountInv, ThreadInv, [Next]_vars
               PROVE  ThreadInv'
    OBVIOUS
  <2>1. ASSUME NEW x \in Callers, Call(x)
        PROVE  ThreadInv'
    BY ThreadAssumption, <2>1 DEF CountInv, TypeOK, ReleaseMatchesAcquire,
       ThreadInv, WaitingHasControl, ThreadKeptWhileUsed, Call, MayCall,
       JobActive, InProgress
  <2>2. ASSUME NEW x \in Callers, Reject(x)
        PROVE  ThreadInv'
    BY ThreadAssumption, <2>2 DEF CountInv, TypeOK, ReleaseMatchesAcquire,
       ThreadInv, WaitingHasControl, ThreadKeptWhileUsed, Reject, MayCall
  <2>3. ASSUME NEW x \in Callers, Resume(x)
        PROVE  ThreadInv'
    <3>1. CASE JobActive(x)
      <4>1. control' = control /\ worker' = worker
        BY <3>1, <2>3 DEF Resume
      <4>2. \A y \in Callers : y # x => call'[y] = call[y]
        BY <3>1, <2>3 DEF CountInv, TypeOK, Resume
      <4>3. call[x] = "resumed" /\ call'[x] = "entering"
        BY <3>1, <2>3 DEF CountInv, TypeOK, Resume
      <4> QED
        BY <4>1, <4>2, <4>3 DEF ThreadInv, WaitingHasControl, ThreadKeptWhileUsed
    <3>2. CASE ~JobActive(x)
      <4>1. call'[x] = "over" /\ worker' = worker
        BY <3>2, <2>3 DEF CountInv, TypeOK, Resume
      <4>2. \A y \in Callers :
              y # x => call'[y] = call[y] /\ control'[y] = control[y]
        BY <3>2, <2>3 DEF CountInv, TypeOK, Resume
      <4> QED
        BY <4>1, <4>2 DEF ThreadInv, WaitingHasControl, ThreadKeptWhileUsed
    <3> QED
      BY <3>1, <3>2
  <2>4. ASSUME NEW x \in Callers, Enter(x)
        PROVE  ThreadInv'
    BY ThreadAssumption, <2>4 DEF CountInv, TypeOK, ReleaseMatchesAcquire,
       ThreadInv, WaitingHasControl, ThreadKeptWhileUsed, Enter
  <2>5. ASSUME NEW x \in Callers, AbortEntry(x)
        PROVE  ThreadInv'
    BY ThreadAssumption, <2>5 DEF CountInv, TypeOK, ReleaseMatchesAcquire,
       ThreadInv, WaitingHasControl, ThreadKeptWhileUsed, AbortEntry,
       JobActive
  <2>6. ASSUME NEW x \in Callers, Leave(x)
        PROVE  ThreadInv'
    <3>1. \A y \in Callers : y # x => call'[y] = call[y] /\ control'[y] = control[y]
      BY <2>6 DEF CountInv, TypeOK, Leave, Release
    <3>2. call'[x] = "over" /\ worker' = worker
      BY <2>6 DEF CountInv, TypeOK, Leave
    <3> QED
      BY <3>1, <3>2 DEF ThreadInv, WaitingHasControl, ThreadKeptWhileUsed
  <2>7. ASSUME NEW x \in Callers, NestedAcquire(x)
        PROVE  ThreadInv'
    BY ThreadAssumption, <2>7 DEF CountInv, TypeOK, ReleaseMatchesAcquire,
       ThreadInv, WaitingHasControl, ThreadKeptWhileUsed, NestedAcquire
  <2>8. ASSUME NEW x \in Callers, NestedRelease(x)
        PROVE  ThreadInv'
    BY ThreadAssumption, <2>8 DEF CountInv, TypeOK, ReleaseMatchesAcquire,
       ThreadInv, WaitingHasControl, ThreadKeptWhileUsed, NestedRelease,
       Release
  <2>9. ASSUME NEW th \in Threads, RunTask(th)
        PROVE  ThreadInv'
    <3> DEFINE y == Head(queue)
    <3>1. y \in Callers
      BY <2>9 DEF CountInv, TypeOK, RunTask
    <3>2. \A z \in Callers : z # y => call'[z] = call[z]
      BY <3>1, <2>9 DEF CountInv, TypeOK, RunTask
    <3>3. worker' = [worker EXCEPT ![th] = y] /\ control' = control
      BY <2>9 DEF RunTask
    <3>4. WaitingHasControl'
      BY <3>1, <3>2, <3>3, <2>9 DEF CountInv, TypeOK, ThreadInv,
         WaitingHasControl, RunTask
    <3>5. call'[y] \in {"resumed", "entering", "inside"} => control[y] = "active"
      BY <3>1, <2>9 DEF CountInv, TypeOK, ThreadInv, WaitingHasControl,
         ThreadKeptWhileUsed, RunTask
    <3>6. worker'[th] = y
      BY <3>3 DEF CountInv, TypeOK
    <3>7. \A z \in Callers, t \in Threads : worker[t] = z => worker'[t] = z
      BY <3>3, ThreadAssumption, <2>9 DEF CountInv, TypeOK, RunTask
    <3>8. ThreadKeptWhileUsed'
      BY <3>2, <3>3, <3>5, <3>6, <3>7 DEF ThreadInv, ThreadKeptWhileUsed
    <3> QED
      BY <3>4, <3>8 DEF ThreadInv
  <2>10. ASSUME NEW th \in Threads, FinishTask(th)
        PROVE  ThreadInv'
    BY ThreadAssumption, <2>10 DEF CountInv, TypeOK,
       ReleaseMatchesAcquire, ThreadInv, WaitingHasControl,
       ThreadKeptWhileUsed, FinishTask
  <2>11. ASSUME NEW j \in Jobs, Cancel(j)
        PROVE  ThreadInv'
    BY ThreadAssumption, <2>11 DEF CountInv, TypeOK,
       ReleaseMatchesAcquire, ThreadInv, WaitingHasControl,
       ThreadKeptWhileUsed, Cancel
  <2>12. ASSUME NEW j \in Jobs, Complete(j)
        PROVE  ThreadInv'
    BY ThreadAssumption, <2>12 DEF CountInv, TypeOK,
       ReleaseMatchesAcquire, ThreadInv, WaitingHasControl,
       ThreadKeptWhileUsed, Complete, InProgress
  <2>13. CASE UNCHANGED vars
    BY <2>13 DEF vars, CountInv, TypeOK, ReleaseMatchesAcquire, ThreadInv,
       WaitingHasControl, ThreadKeptWhileUsed
  <2> QED
    BY <2>1, <2>2, <2>3, <2>4, <2>5, <2>6, <2>7, <2>8, <2>9, <2>10, <2>11,
       <2>12, <2>13 DEF Next
<1> QED
  BY <1>1, <1>2, CountInvariant, PTL DEF Spec

(* Whoever has been resumed on a thread has that thread's task, and no     *)
(* other task runs on it, until its last release().                        *)
THEOREM ThreadKept == Spec => []ThreadKeptWhileUsed
<1>1. ThreadInv => ThreadKeptWhileUsed
  BY DEF ThreadInv
<1> QED
  BY <1>1, ThreadInvariant, PTL

(* No control job outlives its Job, and only a call cancelled between      *)
(* getting the thread and starting its block leaves an active one behind   *)
(* (the two handlers that cancel it and release(), extensions.kt 178-229). *)
THEOREM ControlJobReached == Spec => []ControlJobInReach
<1>1. Init => ControlJobInReach
  BY DEF Init, ControlJobInReach
<1>2. CountInv /\ ControlJobInReach /\ [Next]_vars => ControlJobInReach'
  <2> SUFFICES ASSUME CountInv, ControlJobInReach, [Next]_vars
               PROVE  ControlJobInReach'
    OBVIOUS
  <2>1. ASSUME NEW x \in Callers, Call(x)
        PROVE  ControlJobInReach'
    BY ThreadAssumption, <2>1 DEF CountInv, TypeOK, ReleaseMatchesAcquire,
       ControlJobInReach, Call, MayCall, JobActive, InProgress
  <2>2. ASSUME NEW x \in Callers, Reject(x)
        PROVE  ControlJobInReach'
    BY ThreadAssumption, <2>2 DEF CountInv, TypeOK, ReleaseMatchesAcquire,
       ControlJobInReach, Reject, MayCall
  <2>3. ASSUME NEW x \in Callers, Resume(x)
        PROVE  ControlJobInReach'
    BY ThreadAssumption, <2>3 DEF CountInv, TypeOK, ReleaseMatchesAcquire,
       ControlJobInReach, Resume, JobActive
  <2>4. ASSUME NEW x \in Callers, Enter(x)
        PROVE  ControlJobInReach'
    BY ThreadAssumption, <2>4 DEF CountInv, TypeOK, ReleaseMatchesAcquire,
       ControlJobInReach, Enter
  <2>5. ASSUME NEW x \in Callers, AbortEntry(x)
        PROVE  ControlJobInReach'
    BY ThreadAssumption, <2>5 DEF CountInv, TypeOK, ReleaseMatchesAcquire,
       ControlJobInReach, AbortEntry, JobActive
  <2>6. ASSUME NEW x \in Callers, Leave(x)
        PROVE  ControlJobInReach'
    BY ThreadAssumption, <2>6 DEF CountInv, TypeOK, ReleaseMatchesAcquire,
       ControlJobInReach, Leave, Release
  <2>7. ASSUME NEW x \in Callers, NestedAcquire(x)
        PROVE  ControlJobInReach'
    BY ThreadAssumption, <2>7 DEF CountInv, TypeOK, ReleaseMatchesAcquire,
       ControlJobInReach, NestedAcquire
  <2>8. ASSUME NEW x \in Callers, NestedRelease(x)
        PROVE  ControlJobInReach'
    BY ThreadAssumption, <2>8 DEF CountInv, TypeOK, ReleaseMatchesAcquire,
       ControlJobInReach, NestedRelease, Release
  <2>9. ASSUME NEW th \in Threads, RunTask(th)
        PROVE  ControlJobInReach'
    BY ThreadAssumption, <2>9 DEF CountInv, TypeOK, ReleaseMatchesAcquire,
       ControlJobInReach, RunTask
  <2>10. ASSUME NEW th \in Threads, FinishTask(th)
        PROVE  ControlJobInReach'
    BY ThreadAssumption, <2>10 DEF CountInv, TypeOK,
       ReleaseMatchesAcquire, ControlJobInReach, FinishTask
  <2>11. ASSUME NEW j \in Jobs, Cancel(j)
        PROVE  ControlJobInReach'
    BY ThreadAssumption, <2>11 DEF CountInv, TypeOK,
       ReleaseMatchesAcquire, ControlJobInReach, Cancel
  <2>12. ASSUME NEW j \in Jobs, Complete(j)
        PROVE  ControlJobInReach'
    BY ThreadAssumption, <2>12 DEF CountInv, TypeOK,
       ReleaseMatchesAcquire, ControlJobInReach, Complete, InProgress
  <2>13. CASE UNCHANGED vars
    BY <2>13 DEF vars, CountInv, TypeOK, ReleaseMatchesAcquire,
       ControlJobInReach
  <2> QED
    BY <2>1, <2>2, <2>3, <2>4, <2>5, <2>6, <2>7, <2>8, <2>9, <2>10, <2>11,
       <2>12, <2>13 DEF Next
<1> QED
  BY <1>1, <1>2, CountInvariant, PTL DEF Spec

-----------------------------------------------------------------------------
(* Tasks *)

(* The task of a call is in one place only: once in the queue, or on one   *)
(* thread, never on two and never both.                                    *)
TasksOnce ==
  /\ \A i \in 1..Len(queue) : \A k \in 1..Len(queue) : queue[i] = queue[k] => i = k
  /\ \A t \in Threads : \A u \in Threads :
       worker[t] = worker[u] /\ worker[t] # NoCaller => t = u
  /\ \A t \in Threads : \A i \in 1..Len(queue) : worker[t] # queue[i]

(* A call has neither task nor control job before it is made; a suspended  *)
(* one has its task in the queue and a Job that is not cancelled.          *)
TasksOfCalls ==
  \A x \in Callers :
    /\ call[x] = "none" => ~Occupies(x)
    /\ control[x] = "none" => call[x] = "none"
    /\ call[x] = "suspended" =>
         JobActive(x) /\ \E i \in 1..Len(queue) : queue[i] = x

OneCallPerJob ==
  \A x \in Callers : \A y \in Callers :
    JobOf[x] = JobOf[y] /\ InProgress(x) /\ InProgress(y) => x = y

TaskInv == TasksOnce /\ TasksOfCalls /\ OneCallPerJob

(* Steps that leave queue and threads alone and make no call.              *)
LEMMA SameTasks ==
  ASSUME TaskInv, UNCHANGED <<queue, worker>>,
         \A y \in Callers :
           /\ call'[y] = "none" => call[y] = "none"
           /\ call[y] = "none" => call'[y] = "none"
           /\ InProgress(y)' => InProgress(y)
           /\ control'[y] = "none" => control[y] = "none"
           /\ call'[y] = "suspended" =>
                call[y] = "suspended" /\ (JobActive(y) => JobActive(y)')
  PROVE  TaskInv'
<1>1. TasksOnce'
  BY DEF TaskInv, TasksOnce
<1>2. TasksOfCalls'
  BY DEF TaskInv, TasksOfCalls, Occupies
<1>3. OneCallPerJob'
  BY DEF TaskInv, OneCallPerJob
<1> QED
  BY <1>1, <1>2, <1>3 DEF TaskInv

(* A call appends its task to the queue; it had none.                      *)
LEMMA CallTasks ==
  ASSUME TypeOK, TaskInv, NEW x \in Callers, Call(x)
  PROVE  TaskInv'
<1>1. queue' = Append(queue, x) /\ worker' = worker /\ job' = job
  BY DEF Call
<1>2. /\ Len(queue') = Len(queue) + 1
      /\ \A i \in 1..Len(queue') : queue'[i] = IF i = Len(queue) + 1 THEN x ELSE queue[i]
      /\ Len(queue) \in Nat
  BY <1>1 DEF TypeOK
<1>3. ~Occupies(x)
  BY DEF TaskInv, TasksOfCalls, Call, MayCall
<1>4. /\ \A y \in Callers : y # x => call'[y] = call[y] /\ control'[y] = control[y]
      /\ call'[x] \in {"suspended", "over"} /\ control'[x] # "none"
      /\ call'[x] = "suspended" => JobActive(x)
  BY DEF TypeOK, Call
<1>5. TasksOnce'
  BY <1>1, <1>2, <1>3 DEF TaskInv, TasksOnce, Occupies
<1>6. TasksOfCalls'
  <2> SUFFICES ASSUME NEW y \in Callers
               PROVE  /\ call'[y] = "none" => ~Occupies(y)'
                      /\ control'[y] = "none" => call'[y] = "none"
                      /\ call'[y] = "suspended" =>
                           JobActive(y)' /\ \E i \in 1..Len(queue') : queue'[i] = y
    BY DEF TasksOfCalls
  <2>1. CASE y = x
    BY <1>1, <1>2, <1>4, <2>1 DEF JobActive
  <2>2. CASE y # x
    <3>1. call'[y] = "none" => ~Occupies(y)'
      BY <1>1, <1>2, <1>4, <2>2 DEF TaskInv, TasksOfCalls, Occupies
    <3>2. ASSUME call'[y] = "suspended"
          PROVE  JobActive(y)' /\ \E i \in 1..Len(queue') : queue'[i] = y
      <4>1. PICK i \in 1..Len(queue) : queue[i] = y
        BY <1>4, <2>2, <3>2 DEF TaskInv, TasksOfCalls
      <4>2. i \in 1..Len(queue') /\ queue'[i] = y
        BY <1>2, <4>1
      <4> QED
        BY <1>1, <1>4, <2>2, <3>2, <4>2 DEF TaskInv, TasksOfCalls, JobActive
    <3> QED
      BY <1>4, <2>2, <3>1, <3>2 DEF TaskInv, TasksOfCalls
  <2> QED
    BY <2>1, <2>2
<1>7. OneCallPerJob'
  BY <1>4 DEF TaskInv, OneCallPerJob, InProgress, Call, MayCall
<1> QED
  BY <1>5, <1>6, <1>7 DEF TaskInv

(* A thread takes the first task out of the queue.                         *)
LEMMA RunTasks ==
  ASSUME TypeOK, TaskInv, NEW th \in Threads, RunTask(th)
  PROVE  TaskInv'
<1>1. queue # <<>> /\ queue' = Tail(queue) /\ job' = job /\ control' = control
  BY DEF RunTask
<1>2. PICK z \in Callers : z = Head(queue) /\ z = queue[1]
  BY <1>1 DEF TypeOK
<1>3. /\ Len(queue') = Len(queue) - 1 /\ Len(queue) \in Nat \ {0}
      /\ \A i \in 1..Len(queue') : queue'[i] = queue[i + 1]
  BY <1>1 DEF TypeOK
<1>4. /\ worker[th] = NoCaller /\ worker'[th] = z
      /\ \A t \in Threads : t # th => worker'[t] = worker[t]
  BY <1>2 DEF TypeOK, RunTask
<1>5. /\ \A y \in Callers : y # z => call'[y] = call[y]
      /\ call'[z] # "suspended" /\ call'[z] # "none"
      /\ call[z] # "none" /\ (InProgress(z)' => InProgress(z))
  <2>1. Occupies(z)
    BY <1>2, <1>3 DEF Occupies
  <2>2. call[z] # "none"
    BY <2>1 DEF TaskInv, TasksOfCalls
  <2> QED
    BY <1>2, <2>2 DEF TypeOK, RunTask, InProgress
<1>6. z # NoCaller
  BY ThreadAssumption
<1>7. \A i \in 1..Len(queue') : queue'[i] # z
  BY <1>2, <1>3 DEF TaskInv, TasksOnce
<1>8. TasksOnce'
  <2>1. \A i \in 1..Len(queue') : \A k \in 1..Len(queue') : queue'[i] = queue'[k] => i = k
    BY <1>3 DEF TaskInv, TasksOnce
  <2>2. \A t \in Threads : worker[t] # z
    BY <1>2, <1>3 DEF TaskInv, TasksOnce
  <2>3. \A t \in Threads : \A u \in Threads :
          worker'[t] = worker'[u] /\ worker'[t] # NoCaller => t = u
    BY <1>4, <2>2 DEF TaskInv, TasksOnce
  <2>4. \A t \in Threads : \A i \in 1..Len(queue') : worker'[t] # queue'[i]
    BY <1>3, <1>4, <1>7 DEF TaskInv, TasksOnce
  <2> QED
    BY <2>1, <2>3, <2>4 DEF TasksOnce
<1>9. TasksOfCalls'
  <2> SUFFICES ASSUME NEW y \in Callers
               PROVE  /\ call'[y] = "none" => ~Occupies(y)'
                      /\ control'[y] = "none" => call'[y] = "none"
                      /\ call'[y] = "suspended" =>
                           JobActive(y)' /\ \E i \in 1..Len(queue') : queue'[i] = y
    BY DEF TasksOfCalls
  <2>1. ASSUME call'[y] = "none" PROVE ~Occupies(y)'
    <3>1. y # z /\ ~Occupies(y)
      BY <1>5, <2>1 DEF TaskInv, TasksOfCalls
    <3>2. \A i \in 1..Len(queue') : queue'[i] # y
      BY <1>3, <3>1 DEF Occupies
    <3>3. \A t \in Threads : worker'[t] # y
      BY <1>4, <3>1 DEF Occupies
    <3> QED
      BY <3>2, <3>3 DEF Occupies
  <2>2. ASSUME call'[y] = "suspended"
        PROVE  JobActive(y)' /\ \E i \in 1..Len(queue') : queue'[i] = y
    <3>1. y # z /\ call[y] = "suspended"
      BY <1>5, <2>2
    <3>2. PICK i \in 1..Len(queue) : queue[i] = y
      BY <3>1 DEF TaskInv, TasksOfCalls
    <3>3. i # 1
      BY <1>2, <3>1, <3>2
    <3>4. i - 1 \in 1..Len(queue') /\ queue'[i - 1] = y
      BY <1>3, <3>2, <3>3
    <3> QED
      BY <1>1, <3>1, <3>4 DEF TaskInv, TasksOfCalls, JobActive
  <2>3. control'[y] = "none" => call'[y] = "none"
    BY <1>1, <1>5 DEF TaskInv, TasksOfCalls
  <2> QED
    BY <2>1, <2>2, <2>3
<1>10. OneCallPerJob'
  <2>1. \A y \in Callers : InProgress(y)' => InProgress(y)
    BY <1>5 DEF InProgress
  <2> QED
    BY <2>1 DEF TaskInv, OneCallPerJob
<1> QED
  BY <1>8, <1>9, <1>10 DEF TaskInv

(* No task is run twice or lost, and no call waits without one (the task   *)
(* handed to the executor by acquireTransactionThread).                    *)
THEOREM TasksInvariant == Spec => []TaskInv
<1>1. Init => TaskInv
  BY ThreadAssumption DEF Init, TaskInv, TasksOnce, TasksOfCalls, OneCallPerJob, Occupies,
     InProgress
<1>2. TypeOK /\ TaskInv /\ [Next]_vars => TaskInv'
  <2> SUFFICES ASSUME TypeOK, TaskInv, [Next]_vars
               PROVE  TaskInv'
    OBVIOUS
  <2>1. ASSUME NEW x \in Callers, Call(x)
        PROVE  TaskInv'
    BY <2>1, CallTasks
  <2>2. ASSUME NEW x \in Callers, Reject(x)
        PROVE  TaskInv'
    <3>1. UNCHANGED <<queue, worker, job>>
      BY <2>2 DEF Reject
    <3>2. /\ \A y \in Callers : y # x => call'[y] = call[y] /\ control'[y] = control[y]
          /\ call'[x] = "over" /\ control'[x] = "cancelled" /\ call[x] = "none"
      BY <2>2 DEF Reject, MayCall, TypeOK
    <3>3. TasksOnce'
      BY <3>1 DEF TaskInv, TasksOnce
    <3>4. TasksOfCalls'
      BY <3>1, <3>2 DEF TaskInv, TasksOfCalls, Occupies, JobActive
    <3>5. OneCallPerJob'
      BY <3>2 DEF TaskInv, OneCallPerJob, InProgress
    <3> QED
      BY <3>3, <3>4, <3>5 DEF TaskInv
  <2>3. ASSUME NEW x \in Callers,
               Resume(x) \/ Enter(x) \/ AbortEntry(x) \/ Leave(x)
        PROVE  TaskInv'
    <3>1. UNCHANGED <<queue, worker, job>>
      BY <2>3 DEF Resume, Enter, AbortEntry, Leave
    <3>2. /\ \A y \in Callers : y # x => call'[y] = call[y] /\ control'[y] = control[y]
          /\ call'[x] \in {"entering", "inside", "over"} /\ InProgress(x)
          /\ control'[x] = "none" => control[x] = "none"
      BY <2>3 DEF TypeOK, Resume, Enter, AbortEntry, Leave, Release, InProgress
    <3> QED
      BY <3>1, <3>2, SameTasks DEF InProgress, JobActive
  <2>4. ASSUME NEW x \in Callers, NestedAcquire(x) \/ NestedRelease(x)
        PROVE  TaskInv'
    <3>1. UNCHANGED <<queue, worker, job, call>>
      BY <2>4 DEF NestedAcquire, NestedRelease
    <3>2. \A y \in Callers : control'[y] = "none" => control[y] = "none"
      BY <2>4 DEF TypeOK, NestedAcquire, NestedRelease, Release
    <3> QED
      BY <3>1, <3>2, SameTasks DEF InProgress, JobActive
  <2>5. ASSUME NEW th \in Threads, RunTask(th)
        PROVE  TaskInv'
    BY <2>5, RunTasks
  <2>6. ASSUME NEW th \in Threads, FinishTask(th)
        PROVE  TaskInv'
    <3>1. UNCHANGED <<queue, job, call, control>>
      BY <2>6 DEF FinishTask
    <3>2. /\ worker'[th] = NoCaller
          /\ \A t \in Threads : t # th => worker'[t] = worker[t]
      BY <2>6 DEF TypeOK, FinishTask
    <3>3. \A i \in 1..Len(queue) : queue[i] # NoCaller
      BY ThreadAssumption DEF TypeOK
    <3>4. TasksOnce'
      BY <3>1, <3>2, <3>3 DEF TaskInv, TasksOnce
    <3>5. TasksOfCalls'
      BY <3>1, <3>2, ThreadAssumption DEF TaskInv, TasksOfCalls, Occupies, JobActive
    <3>6. OneCallPerJob'
      BY <3>1 DEF TaskInv, OneCallPerJob, InProgress
    <3> QED
      BY <3>4, <3>5, <3>6 DEF TaskInv
  <2>7. ASSUME NEW j \in Jobs, Cancel(j)
        PROVE  TaskInv'
    <3>1. UNCHANGED <<queue, worker>>
      BY <2>7 DEF Cancel
    <3>2. \A y \in Callers :
            \/ call'[y] = call[y] /\ control'[y] = control[y]
            \/ call[y] = "suspended" /\ call'[y] = "over" /\ control'[y] = "cancelled"
      BY <2>7 DEF Cancel
    <3>3. \A y \in Callers : call'[y] = "suspended" => JobOf[y] # j
      BY <2>7 DEF Cancel
    <3>4. \A y \in Callers : JobOf[y] \in Jobs /\ (JobOf[y] # j => job'[JobOf[y]] = job[JobOf[y]])
      BY <2>7, ThreadAssumption DEF TypeOK, Cancel
    <3> QED
      BY <3>1, <3>2, <3>3, <3>4, SameTasks DEF InProgress, JobActive
  <2>8. ASSUME NEW j \in Jobs, Complete(j)
        PROVE  TaskInv'
    <3>1. UNCHANGED <<queue, worker, call>>
      BY <2>8 DEF Complete
    <3>2. \A y \in Callers : control'[y] = "none" => control[y] = "none"
      BY <2>8 DEF Complete
    <3>3. \A y \in Callers : call[y] = "suspended" => JobOf[y] # j
      BY <2>8 DEF Complete, InProgress
    <3>4. \A y \in Callers : JobOf[y] \in Jobs /\ (JobOf[y] # j => job'[JobOf[y]] = job[JobOf[y]])
      BY <2>8, ThreadAssumption DEF TypeOK, Complete
    <3> QED
      BY <3>1, <3>2, <3>3, <3>4, SameTasks DEF InProgress, JobActive
  <2>9. CASE UNCHANGED vars
    BY <2>9, SameTasks DEF vars, InProgress, JobActive
  <2> QED
    BY <2>1, <2>2, <2>3, <2>4, <2>5, <2>6, <2>7, <2>8, <2>9 DEF Next
<1> QED
  BY <1>1, <1>2, TypeCorrect, PTL DEF Spec

-----------------------------------------------------------------------------
(* What a call that is not over waits for *)

(* The guards of the fair actions: a thread takes a task, or is done with  *)
(* one; a coroutine that has been resumed goes on (into its block, or not, *)
(* when cancelled), out of a nested call or out of the block; a cancelled  *)
(* coroutine is at its end.                                                *)
CanRunTask(th) == worker[th] = NoCaller /\ queue # <<>>
CanFinishTask(th) == worker[th] # NoCaller /\ control[worker[th]] = "cancelled"
CanStep(x) ==
  \/ call[x] \in {"resumed", "entering"}
  \/ nested[x] > 0
  \/ call[x] = "inside" /\ nested[x] = 0
CanComplete(j) ==
  /\ job[j] = "cancelling"
  /\ \A x \in Callers : JobOf[x] = j => ~InProgress(x)

(* A thread that is taken comes back without any other thread, call or     *)
(* Job: it is done, or waits for the coroutines of its caller's own Job,   *)
(* which can go on.                                                        *)
ThreadWaitsForOwnJob ==
  \A th \in Threads :
    worker[th] # NoCaller =>
      \/ CanFinishTask(th)
      \/ \E x \in Callers : JobOf[x] = JobOf[worker[th]] /\ CanStep(x)
      \/ CanComplete(JobOf[worker[th]])

(* As long as a call waits or a task is left, something can go on.         *)
NeverStuck ==
  (\E x \in Callers : InProgress(x) \/ Occupies(x)) =>
     \/ \E th \in Threads : CanRunTask(th) \/ CanFinishTask(th)
     \/ \E x \in Callers : CanStep(x)
     \/ \E j \in Jobs : CanComplete(j)

(* A call that has its thread, or is about to, can go on.                  *)
LEMMA ServedStep ==
  ASSUME TypeOK, NEW x \in Callers, call[x] \in {"resumed", "entering", "inside"}
  PROVE  CanStep(x)
<1>1. nested[x] \in Nat
  BY ThreadAssumption DEF TypeOK
<1> QED
  BY <1>1 DEF CanStep

(* "Otherwise, the acquired transaction thread will forever wait for the   *)
(* controlJob to be cancelled": no thread waits for a control job that     *)
(* nothing is left to cancel (acquireTransactionThread).                   *)
THEOREM ThreadsReturn == Spec => []ThreadWaitsForOwnJob
<1>1. TypeOK /\ TaskInv /\ ControlJobInReach => ThreadWaitsForOwnJob
  <2> SUFFICES ASSUME TypeOK, TaskInv, ControlJobInReach,
                      NEW th \in Threads, worker[th] # NoCaller, ~CanFinishTask(th)
               PROVE  \/ \E x \in Callers : JobOf[x] = JobOf[worker[th]] /\ CanStep(x)
                      \/ CanComplete(JobOf[worker[th]])
    BY DEF ThreadWaitsForOwnJob
  <2>1. PICK z \in Callers : z = worker[th]
    BY DEF TypeOK
  <2>2. control[z] \in {"none", "active"} /\ Occupies(z)
    BY <2>1 DEF CanFinishTask, TypeOK, Occupies
  <2>3. call[z] # "none" /\ control[z] = "active"
    BY <2>2 DEF TaskInv, TasksOfCalls
  <2>4. call[z] # "suspended"
    BY <2>1 DEF TaskInv, TasksOfCalls, TasksOnce
  <2>5. CASE call[z] \in {"resumed", "entering", "inside"}
    BY <2>1, <2>5, ServedStep
  <2>6. CASE call[z] = "over"
    <3>1. job[JobOf[z]] = "cancelling"
      BY <2>3, <2>6 DEF ControlJobInReach
    <3>2. CASE \A y \in Callers : JobOf[y] = JobOf[z] => ~InProgress(y)
      BY <2>1, <3>1, <3>2 DEF CanComplete
    <3>3. ASSUME NEW y \in Callers, JobOf[y] = JobOf[z], InProgress(y)
          PROVE  CanStep(y)
      <4>1. call[y] # "suspended"
        BY <3>1, <3>3 DEF TaskInv, TasksOfCalls, JobActive
      <4>2. call[y] \in {"resumed", "entering", "inside"}
        BY <3>3, <4>1 DEF InProgress, TypeOK
      <4> QED
        BY <4>2, ServedStep
    <3> QED
      BY <2>1, <3>2, <3>3
  <2>7. call[z] \in {"resumed", "entering", "inside", "over"}
    BY <2>3, <2>4 DEF TypeOK
  <2> QED
    BY <2>5, <2>6, <2>7
<1> QED
  BY <1>1, TypeCorrect, TasksInvariant, ControlJobReached, PTL

(* Callers never wait for threads that wait for callers: whoever is in     *)
(* progress, suspended ones included, something can go on, if the executor *)
(* has a thread at all (acquireTransactionThread, withTransaction).        *)
THEOREM ExecutorNeverStuck ==
  ASSUME Threads # {}
  PROVE  Spec => []NeverStuck
<1>1. TypeOK /\ TaskInv /\ ThreadWaitsForOwnJob => NeverStuck
  <2> SUFFICES ASSUME TypeOK, TaskInv, ThreadWaitsForOwnJob,
                      NEW x \in Callers, InProgress(x) \/ Occupies(x)
               PROVE  \/ \E th \in Threads : CanRunTask(th) \/ CanFinishTask(th)
                      \/ \E y \in Callers : CanStep(y)
                      \/ \E j \in Jobs : CanComplete(j)
    BY DEF NeverStuck
  <2>1. CASE \E th \in Threads : worker[th] # NoCaller
    <3>1. PICK th \in Threads : worker[th] # NoCaller
      BY <2>1
    <3>2. JobOf[worker[th]] \in Jobs
      BY <3>1, ThreadAssumption DEF TypeOK
    <3> QED
      BY <3>1, <3>2 DEF ThreadWaitsForOwnJob
  <2>2. CASE \A th \in Threads : worker[th] = NoCaller
    <3>1. CASE call[x] \in {"resumed", "entering", "inside"}
      BY <3>1, ServedStep
    <3>2. CASE call[x] \notin {"resumed", "entering", "inside"}
      <4>1. call[x] = "suspended" \/ Occupies(x)
        BY <3>2 DEF InProgress, TypeOK
      <4>2. PICK i \in 1..Len(queue) : queue[i] = x
        BY <2>2, <4>1, ThreadAssumption DEF Occupies, TaskInv, TasksOfCalls
      <4>3. queue # <<>>
        BY <4>2
      <4> QED
        BY <2>2, <4>3 DEF CanRunTask
    <3> QED
      BY <3>1, <3>2
  <2> QED
    BY <2>1, <2>2
<1> QED
  BY <1>1, TypeCorrect, TasksInvariant, ThreadsReturn, PTL

-----------------------------------------------------------------------------
(* The thread of a transaction                                             *)

(* A call that has its thread; the thread of one that is over is not lent  *)
(* to it any more, though it is not free before its task is done.          *)
Served(x) == call[x] \in {"resumed", "entering", "inside"}

LeaseOf(x) == IF Served(x) THEN "held"
              ELSE IF call[x] = "suspended" THEN "waiting" ELSE call[x]

LentTo(th) == IF worker[th] \in Callers /\ Served(worker[th]) THEN worker[th] ELSE NoCaller

Lease == INSTANCE ThreadLease WITH
  Calls <- Callers, NoCall <- NoCaller,
  lease <- [x \in Callers |-> LeaseOf(x)], holder <- [th \in Threads |-> LentTo(th)]

(* Steps that move no lease.                                               *)
LEMMA LeaseStutter ==
  ASSUME \A x \in Callers : LeaseOf(x)' = LeaseOf(x),
         \A th \in Threads : LentTo(th)' = LentTo(th)
  PROVE  UNCHANGED Lease!vars
<1>1. [x \in Callers |-> LeaseOf(x)]' = [x \in Callers |-> LeaseOf(x)]
  OBVIOUS
<1>2. [th \in Threads |-> LentTo(th)]' = [th \in Threads |-> LentTo(th)]
  OBVIOUS
<1> QED
  BY <1>1, <1>2 DEF Lease!vars

(* Steps that move the lease of one call. *)
LEMMA LeaseMoves ==
  ASSUME NEW x \in Callers, NEW l, LeaseOf(x)' = l,
         \A y \in Callers : y # x => LeaseOf(y)' = LeaseOf(y)
  PROVE  [y \in Callers |-> LeaseOf(y)]' = [[y \in Callers |-> LeaseOf(y)] EXCEPT ![x] = l]
OBVIOUS

(* A call that gets no thread.                                             *)
LEMMA GoesWithout ==
  ASSUME NEW x \in Callers, call[x] \in {"none", "suspended"}, call'[x] = "over",
         \A y \in Callers : y # x => call'[y] = call[y], worker' = worker
  PROVE  Lease!GoWithout(x)
<1>1. LeaseOf(x) \in {"none", "waiting"} /\ LeaseOf(x)' = "over"
  BY DEF LeaseOf, Served
<1>2. [y \in Callers |-> LeaseOf(y)]' = [[y \in Callers |-> LeaseOf(y)] EXCEPT ![x] = "over"]
  <2>1. \A y \in Callers : y # x => LeaseOf(y)' = LeaseOf(y)
    BY DEF LeaseOf, Served
  <2> QED
    BY <1>1, <2>1, LeaseMoves
<1>3. \A y \in Callers : Served(y)' <=> Served(y)
  BY DEF Served
<1>4. \A th \in Threads : LentTo(th)' = LentTo(th)
  BY <1>3 DEF LentTo
<1>5. [th \in Threads |-> LentTo(th)]' = [th \in Threads |-> LentTo(th)]
  BY <1>4
<1> QED
  BY <1>1, <1>2, <1>5 DEF Lease!GoWithout

(* A call that had its thread is over.                                     *)
LEMMA GivesBack ==
  ASSUME NEW x \in Callers, Served(x), call'[x] = "over",
         \A y \in Callers : y # x => call'[y] = call[y], worker' = worker
  PROVE  Lease!GiveBack(x)
<1>1. LeaseOf(x) = "held" /\ LeaseOf(x)' = "over"
  BY DEF LeaseOf, Served
<1>2. [y \in Callers |-> LeaseOf(y)]' = [[y \in Callers |-> LeaseOf(y)] EXCEPT ![x] = "over"]
  <2>1. \A y \in Callers : y # x => LeaseOf(y)' = LeaseOf(y)
    BY DEF LeaseOf, Served
  <2> QED
    BY <1>1, <2>1, LeaseMoves
<1>3. /\ \A y \in Callers : y # x => (Served(y)' <=> Served(y))
      /\ ~Served(x)'
  BY DEF Served
<1>4. \A th \in Threads : LentTo(th)' = IF LentTo(th) = x THEN NoCaller ELSE LentTo(th)
  BY <1>3, ThreadAssumption DEF LentTo
<1>5. [th \in Threads |-> LentTo(th)]'
        = [th \in Threads |-> IF [t \in Threads |-> LentTo(t)][th] = x THEN NoCaller
                                ELSE [t \in Threads |-> LentTo(t)][th]]
  BY <1>4
<1> QED
  BY <1>1, <1>2, <1>5 DEF Lease!GiveBack

(* Steps of calls that keep what they have. *)
LEMMA LeaseKept ==
  ASSUME \A y \in Callers : call'[y] = call[y] \/ (Served(y) /\ Served(y)'),
         worker' = worker
  PROVE  UNCHANGED Lease!vars
<1>1. \A y \in Callers : (Served(y)' <=> Served(y)) /\ LeaseOf(y)' = LeaseOf(y)
  BY DEF LeaseOf, Served
<1>2. \A th \in Threads : LentTo(th)' = LentTo(th)
  BY <1>1 DEF LentTo
<1> QED
  BY <1>1, <1>2, LeaseStutter

(* A thread takes the task of a call that still waits for it, or of one    *)
(* that has given up.                                                      *)
LEMMA RunTaskLends ==
  ASSUME TypeOK, TaskInv, ThreadKeptWhileUsed, NEW th \in Threads, RunTask(th)
  PROVE  [Lease!Next]_(Lease!vars)
<1>1. PICK z \in Callers : z = Head(queue) /\ z = queue[1] /\ 1 \in 1..Len(queue)
  BY DEF TypeOK, RunTask
<1>2. /\ worker[th] = NoCaller /\ worker'[th] = z
      /\ \A t \in Threads : t # th => worker'[t] = worker[t]
  BY <1>1 DEF TypeOK, RunTask
<1>3. \A t \in Threads : worker[t] # z
  BY <1>1 DEF TaskInv, TasksOnce
<1>4. ~Served(z)
  BY <1>3 DEF ThreadKeptWhileUsed, Served
<1>5. NoCaller \notin Callers /\ LentTo(th) = NoCaller
  BY <1>2, ThreadAssumption DEF LentTo
<1>6. \A y \in Callers : y # z => call'[y] = call[y]
  BY <1>1 DEF TypeOK, RunTask
<1>7. \A y \in Callers : y # z => (Served(y)' <=> Served(y)) /\ LeaseOf(y)' = LeaseOf(y)
  BY <1>6 DEF Served, LeaseOf
<1>8. \A t \in Threads : t # th => LentTo(t)' = LentTo(t)
  BY <1>2, <1>3, <1>7 DEF LentTo
<1>9. CASE call[z] = "suspended"
  <2>1. call'[z] = "resumed"
    BY <1>1, <1>9 DEF TypeOK, RunTask
  <2>2. LeaseOf(z) = "waiting" /\ LeaseOf(z)' = "held" /\ LentTo(th)' = z
    BY <1>2, <1>9, <2>1 DEF LeaseOf, Served, LentTo
  <2>3. [y \in Callers |-> LeaseOf(y)]' = [[y \in Callers |-> LeaseOf(y)] EXCEPT ![z] = "held"]
    BY <1>7, <2>2, LeaseMoves
  <2>4. [t \in Threads |-> LentTo(t)]' = [[t \in Threads |-> LentTo(t)] EXCEPT ![th] = z]
    BY <1>8, <2>2
  <2>5. Lease!Take(z, th)
    BY <1>5, <2>2, <2>3, <2>4 DEF Lease!Take
  <2> QED
    BY <2>5 DEF Lease!Next
<1>10. CASE call[z] # "suspended"
  <2>1. call'[z] = call[z]
    BY <1>1, <1>10 DEF RunTask
  <2>2. LeaseOf(z)' = LeaseOf(z) /\ ~Served(z)'
    BY <1>4, <2>1 DEF LeaseOf, Served
  <2>3. LentTo(th)' = LentTo(th)
    BY <1>2, <1>5, <2>2 DEF LentTo
  <2> QED
    BY <1>7, <1>8, <2>2, <2>3, LeaseStutter
<1> QED
  BY <1>9, <1>10

(* The control job, the queue of the executor and the reference count do   *)
(* what SuspendingTransaction takes for granted of AcquireThread and       *)
(* Finish: a thread is lent to one call at a time, from the task that      *)
(* resumes it until it is over (createTransactionContext, release).        *)
THEOREM ExecutorLendsThreads == Spec => Lease!Spec
<1>1. Init => Lease!Init
  BY ThreadAssumption DEF Init, Lease!Init, LeaseOf, LentTo, Served
<1>2. TypeOK /\ TaskInv /\ ThreadKeptWhileUsed /\ [Next]_vars => [Lease!Next]_(Lease!vars)
  <2> SUFFICES ASSUME TypeOK, TaskInv, ThreadKeptWhileUsed, [Next]_vars
               PROVE  [Lease!Next]_(Lease!vars)
    OBVIOUS
  <2>1. ASSUME NEW x \in Callers, Call(x)
        PROVE  [Lease!Next]_(Lease!vars)
    <3>1. /\ call[x] = "none" /\ worker' = worker
          /\ \A y \in Callers : y # x => call'[y] = call[y]
          /\ call'[x] \in {"suspended", "over"}
      BY <2>1 DEF Call, MayCall, TypeOK
    <3>2. CASE call'[x] = "over"
      BY <3>1, <3>2, GoesWithout DEF Lease!Next
    <3>3. CASE call'[x] = "suspended"
      <4>1. LeaseOf(x) = "none" /\ LeaseOf(x)' = "waiting"
        BY <3>1, <3>3 DEF LeaseOf, Served
      <4>2. /\ \A y \in Callers : y # x => LeaseOf(y)' = LeaseOf(y)
            /\ \A y \in Callers : Served(y)' <=> Served(y)
        BY <3>1, <3>3 DEF LeaseOf, Served
      <4>3. [y \in Callers |-> LeaseOf(y)]'
              = [[y \in Callers |-> LeaseOf(y)] EXCEPT ![x] = "waiting"]
        BY <4>1, <4>2, LeaseMoves
      <4>4. \A th \in Threads : LentTo(th)' = LentTo(th)
        BY <3>1, <4>2 DEF LentTo
      <4>5. [th \in Threads |-> LentTo(th)]' = [th \in Threads |-> LentTo(th)]
        BY <4>4
      <4>6. Lease!Ask(x)
        BY <4>1, <4>3, <4>5 DEF Lease!Ask
      <4> QED
        BY <4>6 DEF Lease!Next
    <3> QED
      BY <3>1, <3>2, <3>3
  <2>2. ASSUME NEW x \in Callers, Reject(x)
        PROVE  [Lease!Next]_(Lease!vars)
    <3>1. /\ call[x] = "none" /\ worker' = worker /\ call'[x] = "over"
          /\ \A y \in Callers : y # x => call'[y] = call[y]
      BY <2>2 DEF Reject, MayCall, TypeOK
    <3> QED
      BY <3>1, GoesWithout DEF Lease!Next
  <2>3. ASSUME NEW x \in Callers,
               Resume(x) \/ Enter(x) \/ AbortEntry(x) \/ Leave(x)
        PROVE  [Lease!Next]_(Lease!vars)
    <3>1. /\ Served(x) /\ worker' = worker
          /\ \A y \in Callers : y # x => call'[y] = call[y]
          /\ call'[x] \in {"entering", "inside", "over"}
      BY <2>3 DEF TypeOK, Resume, Enter, AbortEntry, Leave, Served
    <3>2. CASE call'[x] = "over"
      BY <3>1, <3>2, GivesBack DEF Lease!Next
    <3>3. CASE call'[x] # "over"
      BY <3>1, <3>3, LeaseKept DEF Served
    <3> QED
      BY <3>2, <3>3
  <2>4. ASSUME NEW x \in Callers, NestedAcquire(x) \/ NestedRelease(x)
        PROVE  [Lease!Next]_(Lease!vars)
    BY <2>4, LeaseKept DEF NestedAcquire, NestedRelease
  <2>5. ASSUME NEW th \in Threads, RunTask(th)
        PROVE  [Lease!Next]_(Lease!vars)
    BY <2>5, RunTaskLends
  <2>6. ASSUME NEW th \in Threads, FinishTask(th)
        PROVE  [Lease!Next]_(Lease!vars)
    <3>1. /\ call' = call /\ worker'[th] = NoCaller
          /\ \A t \in Threads : t # th => worker'[t] = worker[t]
      BY <2>6 DEF FinishTask, TypeOK
    <3>2. ~Served(worker[th])
      BY <2>6 DEF FinishTask, TypeOK, ThreadKeptWhileUsed, Served
    <3>3. \A y \in Callers : LeaseOf(y)' = LeaseOf(y)
      BY <3>1 DEF LeaseOf, Served
    <3>4. \A t \in Threads : LentTo(t)' = LentTo(t)
      <4>1. LentTo(th) = NoCaller /\ LentTo(th)' = NoCaller
        BY <3>1, <3>2, ThreadAssumption DEF LentTo
      <4>2. \A y : Served(y)' <=> Served(y)
        BY <3>1 DEF Served
      <4> QED
        BY <3>1, <4>1, <4>2 DEF LentTo
    <3> QED
      BY <3>3, <3>4, LeaseStutter
  <2>7. ASSUME NEW j \in Jobs, Cancel(j)
        PROVE  [Lease!Next]_(Lease!vars)
    <3>1. /\ worker' = worker
          /\ \A y \in Callers : call'[y] = IF JobOf[y] = j /\ call[y] = "suspended"
                                             THEN "over" ELSE call[y]
      BY <2>7 DEF Cancel
    <3>2. CASE \E x \in Callers : JobOf[x] = j /\ call[x] = "suspended"
      <4>1. PICK x \in Callers : JobOf[x] = j /\ call[x] = "suspended"
        BY <3>2
      <4>2. \A y \in Callers : y # x => ~(JobOf[y] = j /\ call[y] = "suspended")
        BY <4>1 DEF TaskInv, OneCallPerJob, InProgress
      <4>3. call'[x] = "over" /\ \A y \in Callers : y # x => call'[y] = call[y]
        BY <3>1, <4>1, <4>2
      <4> QED
        BY <3>1, <4>1, <4>3, GoesWithout DEF Lease!Next
    <3>3. CASE \A x \in Callers : ~(JobOf[x] = j /\ call[x] = "suspended")
      BY <3>1, <3>3, LeaseKept
    <3> QED
      BY <3>2, <3>3
  <2>8. ASSUME NEW j \in Jobs, Complete(j)
        PROVE  [Lease!Next]_(Lease!vars)
    BY <2>8, LeaseKept DEF Complete
  <2>9. CASE UNCHANGED vars
    BY <2>9, LeaseKept DEF vars
  <2> QED
    BY <2>1, <2>2, <2>3, <2>4, <2>5, <2>6, <2>7, <2>8, <2>9 DEF Next
<1> QED
  BY <1>1, <1>2, TypeCorrect, TasksInvariant, ThreadKept, PTL DEF Spec, Lease!Spec

=============================================================================
