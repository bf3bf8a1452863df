---------------------- MODULE SuspendingTransactionProofs ----------------------
(***************************************************************************)
(* Theorems about SuspendingTransaction, for any calls, threads, tables    *)
(* and usage: the types; that threads, frames and the connection stay      *)
(* together; that nested calls form trees; and that the calls use threads  *)
(* as ThreadLease says.  Then, when no coroutine of a transaction is       *)
(* cancelled, however callers nest, start calls concurrently or write from *)
(* several threads: the frames of a thread are those of the open calls of  *)
(* one tree, one SQLite transaction belongs to one outermost call, all of  *)
(* its calls share one fate, nothing is announced that was not committed,  *)
(* and there is no deadlock.                                               *)
(***************************************************************************)
EXTENDS SuspendingTransaction, Functions, FunctionTheorems, FiniteSetTheorems,
        SequenceTheorems, TLAPS

(* The element of a call in progress belongs to a call that has a thread.  *)
ElementsHaveThreads ==
  /\ \A x \in Txns : status[x] \in {"none", "waiting"} => element[x] = x
  /\ \A x \in Txns : IsActive(x) =>
       Th(x) \in Threads /\ status[element[x]] \notin {"none", "waiting"}

OpenOn(th) == {x \in Txns : status[x] = "open" /\ Th(x) = th}

(* A thread's session has at least a frame for each open call on it. *)
FramesSuffice ==
  \A th \in Threads :
    IsFiniteSet(OpenOn(th)) /\ Cardinality(OpenOn(th)) <= Len(session[th])

CallInv == TypeOK /\ ElementsHaveThreads /\ FramesSuffice

-----------------------------------------------------------------------------
(* Stacks of frames *)

(* Marking the top frame keeps a stack and its length. *)
LEMMA MarkedIsStack ==
  ASSUME NEW s \in Seq(Frame), s # <<>>
  PROVE  /\ Marked(s) \in Seq(Frame)
         /\ Len(Marked(s)) = Len(s)
         /\ Marked(s) # <<>>
<1>1. s[1] \in Frame /\ 1 \in 1..Len(s)
  OBVIOUS
<1>2. [s[1] EXCEPT !.marked = TRUE] \in Frame
  BY <1>1 DEF Frame
<1>3. Marked(s) = [s EXCEPT ![1] = [s[1] EXCEPT !.marked = TRUE]]
  BY DEF Marked
<1>4. Marked(s) \in Seq(Frame) /\ Len(Marked(s)) = Len(s)
  BY <1>1, <1>2, <1>3, ExceptSeq
<1> QED
  BY <1>1, <1>4

(* So does telling it of a failure. *)
LEMMA PassOnIsStack ==
  ASSUME NEW s \in Seq(Frame), s # <<>>, NEW failed \in BOOLEAN
  PROVE  /\ PassOn(s, failed) \in Seq(Frame)
         /\ Len(PassOn(s, failed)) = Len(s)
<1>1. s[1] \in Frame /\ 1 \in 1..Len(s)
  OBVIOUS
<1> DEFINE f == [s[1] EXCEPT !.childFailed = s[1].childFailed \/ failed]
<1>2. f \in Frame
  BY <1>1 DEF Frame
<1>3. PassOn(s, failed) = [s EXCEPT ![1] = f]
  BY DEF PassOn
<1> HIDE DEF f
<1> QED
  BY <1>1, <1>2, <1>3, ExceptSeq

-----------------------------------------------------------------------------
(* Open calls and frames *)

(* A call that is open has a thread with a frame on its stack. *)
LEMMA OpenHasFrame ==
  ASSUME CallInv, NEW x \in Txns, status[x] = "open"
  PROVE  /\ Th(x) \in Threads
         /\ session[Th(x)] \in Seq(Frame)
         /\ session[Th(x)] # <<>>
<1>1. Th(x) \in Threads
  BY DEF CallInv, ElementsHaveThreads, IsActive
<1>2. session[Th(x)] \in Seq(Frame)
  BY <1>1 DEF CallInv, TypeOK
<1>3. x \in OpenOn(Th(x))
  BY DEF OpenOn
<1>4. IsFiniteSet(OpenOn(Th(x))) /\ Cardinality(OpenOn(Th(x))) <= Len(session[Th(x)])
  BY <1>1 DEF CallInv, FramesSuffice
<1>5. Cardinality(OpenOn(Th(x))) \in Nat /\ Cardinality(OpenOn(Th(x))) # 0
  BY <1>3, <1>4, FS_CardinalityType, FS_EmptySet
<1>6. Len(session[Th(x)]) # 0
  BY <1>2, <1>4, <1>5
<1> QED
  BY <1>1, <1>2, <1>6

(* Ending a call may take one frame off the stack of its thread.           *)
LEMMA EndKeepsFrames ==
  ASSUME CallInv, NEW x \in Txns, status[x] = "open",
         NEW s \in Seq(Frame), Len(s) + 1 >= Len(session[Th(x)]),
         session' = [session EXCEPT ![Th(x)] = s],
         status' = [status EXCEPT ![x] = "done"],
         element' = element, thread' = thread
  PROVE  FramesSuffice'
<1> SUFFICES ASSUME NEW th \in Threads
             PROVE  /\ IsFiniteSet(OpenOn(th)')
                    /\ Cardinality(OpenOn(th)') <= Len(session'[th])
  BY DEF FramesSuffice
<1>1. IsFiniteSet(OpenOn(th)) /\ Cardinality(OpenOn(th)) <= Len(session[th])
  BY DEF CallInv, FramesSuffice
<1>2. session \in [Threads -> Seq(Frame)] /\ session[th] \in Seq(Frame)
  BY DEF CallInv, TypeOK
<1>3. status \in [Txns -> {"none", "waiting", "ready", "open", "done"}]
  BY DEF CallInv, TypeOK
<1>4. CASE th # Th(x)
  <2>1. OpenOn(th)' = OpenOn(th)
    BY <1>3, <1>4 DEF OpenOn, Th
  <2> QED
    BY <1>1, <1>2, <1>4, <2>1
<1>5. CASE th = Th(x)
  <2>1. OpenOn(th)' = OpenOn(th) \ {x} /\ x \in OpenOn(th)
    BY <1>3, <1>5 DEF OpenOn, Th
  <2>2. /\ IsFiniteSet(OpenOn(th)')
        /\ Cardinality(OpenOn(th)') = Cardinality(OpenOn(th)) - 1
    BY <1>1, <2>1, FS_RemoveElement
  <2>3. session'[th] = s
    BY <1>2, <1>5
  <2> QED
    BY <1>1, <1>2, <1>5, <2>2, <2>3, FS_CardinalityType
<1> QED
  BY <1>4, <1>5

-----------------------------------------------------------------------------
(* A step that opens and ends no call, pops no frame and moves no element  *)
(* keeps the account of the frames.                                        *)
LEMMA SameFrames ==
  ASSUME FramesSuffice, session' = session,
         \A th \in Threads : OpenOn(th)' = OpenOn(th)
  PROVE  FramesSuffice'
BY DEF FramesSuffice

(* Finish never gives a thread to a call. *)
LEMMA FinishTypes ==
  ASSUME TypeOK, NEW x \in Txns, NEW result \in {"returned", "threw", "cancelled"},
         Finish(x, result)
  PROVE  /\ status' \in [Txns -> {"none", "waiting", "ready", "open", "done"}]
         /\ outcome' \in [Txns -> {"none", "returned", "threw", "cancelled"}]
         /\ owner' \in [Threads -> Txns \cup {NoTxn}]
         /\ status' = [status EXCEPT ![x] = "done"]
BY DEF TypeOK, Finish

(* A call that finishes leaves the elements of the others as they are.     *)
LEMMA FinishElements ==
  ASSUME TypeOK, ElementsHaveThreads, NEW x \in Txns,
         status' = [status EXCEPT ![x] = "done"],
         element' = element, thread' = thread
  PROVE  ElementsHaveThreads'
BY DEF TypeOK, ElementsHaveThreads, IsActive, Th

(* endTransaction keeps the types, whatever frame it pops.                 *)
LEMMA EndTypes ==
  ASSUME CallInv, NEW x \in Txns, status[x] = "open",
         NEW stack \in Seq(Frame), Len(stack) = Len(session[Th(x)]),
         NEW result \in {"returned", "threw"},
         EndInner(x, stack, result) \/ EndLast(x, stack, result)
  PROVE  CallInv'
<1> DEFINE ok == Succeeds(Head(stack))
<1>1. /\ Th(x) \in Threads /\ session[Th(x)] \in Seq(Frame)
      /\ stack # <<>>
  BY OpenHasFrame
<1>2. /\ Head(stack) \in Frame /\ Tail(stack) \in Seq(Frame)
      /\ Len(Tail(stack)) \in Nat
      /\ Len(Tail(stack)) + 1 = Len(session[Th(x)])
  BY <1>1, HeadTailProperties, LenProperties
<1>3. Head(stack).txn \in Txns /\ ok \in BOOLEAN
  BY <1>2 DEF Frame, Succeeds
<1>4. TypeOK /\ ElementsHaveThreads
  BY DEF CallInv
<1>5. Finish(x, result) /\ element' = element /\ thread' = thread
  BY DEF EndInner, EndLast
<1>6. ElementsHaveThreads'
  BY <1>4, <1>5, FinishTypes, FinishElements
<1>7. CASE EndInner(x, stack, result)
  <2> DEFINE s == PassOn(Tail(stack), ~ok)
  <2>1. session' = [session EXCEPT ![Th(x)] = s]
    BY <1>7 DEF EndInner
  <2>2. s \in Seq(Frame) /\ Len(s) = Len(Tail(stack))
    BY <1>2, <1>3, <1>7, PassOnIsStack DEF EndInner
  <2>3. FramesSuffice'
    <3> HIDE DEF s
    <3>1. Len(s) + 1 >= Len(session[Th(x)])
      BY <1>2, <2>2
    <3>2. status' = [status EXCEPT ![x] = "done"]
      BY <1>4, <1>5, FinishTypes
    <3> QED
      BY <1>5, <2>1, <2>2, <3>1, <3>2, EndKeepsFrames
  <2>4. session' \in [Threads -> Seq(Frame)]
    <3> HIDE DEF s
    <3> QED
      BY <1>4, <2>1, <2>2 DEF TypeOK
  <2>5. commit' \in [Txns -> BOOLEAN]
    BY <1>3, <1>4, <1>7 DEF TypeOK, EndInner
  <2>6. /\ tables' \in [Txns -> SUBSET Tables]
        /\ unannounced' \subseteq Tables /\ unfounded' \subseteq Tables
    BY <1>4, <1>7 DEF TypeOK, EndInner, SendTableTrigger
  <2>7. TypeOK'
    <3>1. UNCHANGED <<parent, element, thread, connection, dirty, due, members, fate,
                      inflight>>
      BY <1>7 DEF EndInner
    <3> QED
      BY <1>4, <1>5, <2>4, <2>5, <2>6, <3>1, FinishTypes DEF TypeOK
  <2> QED
    BY <1>6, <2>3, <2>7 DEF CallInv
<1>8. CASE EndLast(x, stack, result)
  <2>1. session' = [session EXCEPT ![Th(x)] = <<>>] /\ Tail(stack) = <<>>
    BY <1>8 DEF EndLast
  <2>2. <<>> \in Seq(Frame) /\ Len(<<>>) + 1 >= Len(session[Th(x)])
    <3>1. <<>> \in Seq(Frame) /\ Len(<<>>) = 0
      BY EmptySeq
    <3>2. Len(Tail(stack)) = 0
      BY <2>1, <3>1
    <3>3. Len(session[Th(x)]) = 1
      BY <1>2, <3>2
    <3> QED
      BY <3>1, <3>3
  <2>3. FramesSuffice'
    <3>1. status' = [status EXCEPT ![x] = "done"]
      BY <1>4, <1>5, FinishTypes
    <3> QED
      BY <1>5, <2>1, <2>2, <3>1, EndKeepsFrames
  <2>4. session' \in [Threads -> Seq(Frame)]
    BY <1>4, <2>1, <2>2 DEF TypeOK
  <2>5. commit' \in [Txns -> BOOLEAN]
    BY <1>3, <1>4, <1>8 DEF TypeOK, EndLast
  <2>6. /\ tables' \in [Txns -> SUBSET Tables]
        /\ unannounced' \subseteq Tables /\ unfounded' \subseteq Tables
    BY <1>4, <1>8 DEF TypeOK, EndLast, SendTableTrigger
  <2>7. /\ fate' \in [Txns -> {"idle", "committed", "rolledBack"}]
        /\ connection' = NoThread /\ dirty' = {} /\ due' = {} /\ members' = {}
        /\ UNCHANGED <<parent, element, thread, inflight>>
    BY <1>4, <1>8 DEF TypeOK, EndLast
  <2>8. TypeOK'
    BY <1>4, <1>5, <2>4, <2>5, <2>6, <2>7, FinishTypes DEF TypeOK
  <2> QED
    BY <1>6, <2>3, <2>8 DEF CallInv
<1> QED
  BY <1>7, <1>8

-----------------------------------------------------------------------------
(* There are no frames and no open calls at first. *)
LEMMA InitCalls == Init => CallInv
<1> SUFFICES ASSUME Init PROVE CallInv
  OBVIOUS
<1>1. <<>> \in Seq(Frame)
  BY EmptySeq
<1>2. TypeOK
  BY <1>1 DEF Init, TypeOK
<1>3. ElementsHaveThreads
  BY DEF Init, ElementsHaveThreads, IsActive
<1>4. \A th \in Threads : OpenOn(th) = {} /\ session[th] = <<>>
  BY DEF Init, OpenOn
<1>5. FramesSuffice
  <2>1. ASSUME NEW th \in Threads
        PROVE  IsFiniteSet(OpenOn(th)) /\ Cardinality(OpenOn(th)) <= Len(session[th])
    <3>1. Cardinality(OpenOn(th)) = 0 /\ IsFiniteSet(OpenOn(th))
      BY <1>4, FS_EmptySet
    <3>2. Len(session[th]) = 0
      BY <1>4
    <3> QED
      BY <3>1, <3>2
  <2> QED
    BY <2>1 DEF FramesSuffice
<1> QED
  BY <1>2, <1>3, <1>5 DEF CallInv

(* The steps that get a call to its thread. *)
LEMMA StartSteps ==
  ASSUME CallInv, NEW x \in Txns,
         \/ Request(x)
         \/ \E th \in Threads : AcquireThread(x, th)
         \/ \E p \in Txns : Nest(x, p)
  PROVE  CallInv'
<1> USE DEF CallInv
<1>1. CASE Request(x)
  <2>1. TypeOK'
    BY <1>1 DEF TypeOK, Request, database, notices
  <2>2. ElementsHaveThreads'
    BY <1>1 DEF TypeOK, ElementsHaveThreads, Request, IsActive, Th, database
  <2>3. \A th \in Threads : OpenOn(th)' = OpenOn(th)
    BY <1>1 DEF TypeOK, Request, OpenOn, Th
  <2> QED
    BY <1>1, <2>1, <2>2, <2>3, SameFrames DEF Request, database
<1>2. ASSUME NEW th \in Threads, AcquireThread(x, th)
      PROVE  CallInv'
  <2>1. TypeOK'
    BY <1>2 DEF TypeOK, AcquireThread, database, notices
  <2>2. element[x] = x /\ \A y \in Txns : IsActive(y) => element[y] # x
    BY <1>2 DEF ElementsHaveThreads, AcquireThread
  <2>3. ElementsHaveThreads'
    BY <1>2, <2>2 DEF TypeOK, ElementsHaveThreads, AcquireThread, IsActive, Th
  <2>4. \A u \in Threads : OpenOn(u)' = OpenOn(u)
    BY <1>2, <2>2 DEF TypeOK, AcquireThread, OpenOn, Th, IsActive
  <2> QED
    BY <1>2, <2>1, <2>3, <2>4, SameFrames DEF AcquireThread, database
<1>3. ASSUME NEW p \in Txns, Nest(x, p)
      PROVE  CallInv'
  <2>1. TypeOK'
    BY <1>3 DEF TypeOK, Nest, database, notices
  <2>2. x # p /\ IsActive(p)
    BY <1>3 DEF Nest, IsActive
  <2>3. \A y \in Txns : IsActive(y) => element[y] # x
    BY <1>3 DEF ElementsHaveThreads, Nest
  <2>4. ElementsHaveThreads'
    BY <1>3, <2>2, <2>3 DEF TypeOK, ElementsHaveThreads, Nest, IsActive, Th
  <2>5. \A u \in Threads : OpenOn(u)' = OpenOn(u)
    BY <1>3 DEF TypeOK, Nest, OpenOn, Th
  <2> QED
    BY <1>3, <2>1, <2>4, <2>5, SameFrames DEF Nest, database
<1> QED
  BY <1>1, <1>2, <1>3

(* A call that begins gets a frame of its own. *)
LEMMA BeginStep ==
  ASSUME CallInv, NEW x \in Txns, Begin(x)
  PROVE  CallInv'
<1> DEFINE th == Th(x)
           frame == [txn |-> x, marked |-> FALSE, childFailed |-> FALSE]
           stack == <<frame>> \o session[th]
<1>1. TypeOK /\ ElementsHaveThreads /\ FramesSuffice
  BY DEF CallInv
<1>2. /\ status[x] = "ready"
      /\ session' = [session EXCEPT ![th] = stack]
      /\ status' = [status EXCEPT ![x] = "open"]
      /\ connection' = th
      /\ members' = members \cup {x}
      /\ UNCHANGED <<outcome, parent, element, thread, owner, dirty, due, fate,
                     inflight, tables, commit, notices>>
  BY DEF Begin
<1>3. th \in Threads /\ session[th] \in Seq(Frame)
  BY <1>1, <1>2 DEF ElementsHaveThreads, IsActive, TypeOK
<1>4. frame \in Frame
  BY DEF Frame
<1>5. stack \in Seq(Frame) /\ Len(stack) = Len(session[th]) + 1
  <2>1. <<frame>> \in Seq(Frame) /\ Len(<<frame>>) = 1
    BY <1>4
  <2>2. Len(session[th]) \in Nat
    BY <1>3, LenProperties
  <2> QED
    BY <1>3, <2>1, <2>2, ConcatProperties
<1> HIDE DEF frame, stack
<1>6. TypeOK'
  BY <1>1, <1>2, <1>3, <1>5 DEF TypeOK, notices
<1>7. ElementsHaveThreads'
  BY <1>1, <1>2 DEF TypeOK, ElementsHaveThreads, IsActive, Th
<1>8. ASSUME NEW u \in Threads
      PROVE  /\ IsFiniteSet(OpenOn(u)')
             /\ Cardinality(OpenOn(u)') <= Len(session'[u])
  <2>1. IsFiniteSet(OpenOn(u)) /\ Cardinality(OpenOn(u)) <= Len(session[u])
    BY <1>1 DEF FramesSuffice
  <2>2. CASE u # th
    <3>1. OpenOn(u)' = OpenOn(u)
      BY <1>1, <1>2, <2>2 DEF TypeOK, OpenOn, Th
    <3>2. session'[u] = session[u]
      BY <1>1, <1>2, <2>2 DEF TypeOK
    <3> QED
      BY <2>1, <3>1, <3>2
  <2>3. CASE u = th
    <3>1. OpenOn(u)' = OpenOn(u) \cup {x} /\ x \notin OpenOn(u)
      BY <1>1, <1>2, <2>3 DEF TypeOK, OpenOn, Th
    <3>2. /\ IsFiniteSet(OpenOn(u)')
          /\ Cardinality(OpenOn(u)') = Cardinality(OpenOn(u)) + 1
      BY <2>1, <3>1, FS_AddElement
    <3>3. session'[u] = stack
      BY <1>1, <1>2, <2>3 DEF TypeOK
    <3>4. Len(session[u]) \in Nat /\ Cardinality(OpenOn(u)) \in Nat
      BY <1>3, <2>1, <2>3, FS_CardinalityType, LenProperties
    <3> QED
      BY <1>5, <2>1, <2>3, <3>2, <3>3, <3>4
  <2> QED
    BY <2>2, <2>3
<1> QED
  BY <1>6, <1>7, <1>8 DEF CallInv, FramesSuffice

(* The steps of a block change neither calls nor frames. *)
LEMMA BlockSteps ==
  ASSUME CallInv, NEW x \in Txns, InBlock(x)
  PROVE  CallInv'
<1>1. TypeOK /\ ElementsHaveThreads /\ FramesSuffice
  BY DEF CallInv
<1>2. UNCHANGED <<status, outcome, parent, element, thread, owner, session,
                  connection, members, fate, commit, notices>>
  BY DEF InBlock, WriteRow, Notify, Execute, QueueTrigger,
     QueueTriggersRacing, CancelWrite, database
<1>3. /\ dirty' \subseteq Tables /\ due' \subseteq Tables
      /\ inflight' \in [Txns -> SUBSET Tables]
      /\ tables' \in [Txns -> SUBSET Tables]
  <2>1. ASSUME NEW t \in Tables, WriteRow(x, t)
        PROVE  <1>3!:
    BY <1>1, <2>1 DEF TypeOK, WriteRow
  <2>2. ASSUME NEW t \in Tables, QueueTrigger(x, t)
        PROVE  <1>3!:
    BY <1>1, <2>2 DEF TypeOK, QueueTrigger, database
  <2>3. ASSUME NEW t \in Tables, NEW u \in Tables, QueueTriggersRacing(x, t, u)
        PROVE  <1>3!:
    BY <1>1, <2>3 DEF TypeOK, QueueTriggersRacing, database
  <2>4. ASSUME NEW t \in Tables, CancelWrite(x, t)
        PROVE  <1>3!:
    BY <1>1, <2>4 DEF TypeOK, CancelWrite, database
  <2>5. ASSUME NEW t \in Tables, Notify(x, t)
        PROVE  <1>3!:
    BY <1>1, <2>5 DEF TypeOK, Notify
  <2>6. ASSUME NEW t \in Tables, Execute(x, t)
        PROVE  <1>3!:
    BY <1>1, <2>6 DEF TypeOK, Execute
  <2> QED
    BY <2>1, <2>2, <2>3, <2>4, <2>5, <2>6 DEF InBlock
<1>4. TypeOK'
  BY <1>1, <1>2, <1>3 DEF TypeOK, notices
<1>5. ElementsHaveThreads'
  BY <1>1, <1>2 DEF ElementsHaveThreads, IsActive, Th
<1>6. FramesSuffice'
  BY <1>1, <1>2 DEF FramesSuffice, OpenOn, Th
<1> QED
  BY <1>4, <1>5, <1>6 DEF CallInv

(* The ends of a call that leave every frame in place. *)
LEMMA QuietEnds ==
  ASSUME CallInv, NEW x \in Txns,
         BeginFails(x) \/ CancelBeforeBegin(x) \/ AbandonThread(x)
  PROVE  CallInv'
<1>1. TypeOK /\ ElementsHaveThreads /\ FramesSuffice
  BY DEF CallInv
<1>2. /\ status' = [status EXCEPT ![x] = "done"]
      /\ outcome' \in [Txns -> {"none", "returned", "threw", "cancelled"}]
      /\ owner' \in [Threads -> Txns \cup {NoTxn}]
  BY <1>1 DEF BeginFails, CancelBeforeBegin, AbandonThread, Finish, TypeOK
<1>3. /\ status[x] \in {"waiting", "ready"}
      /\ UNCHANGED <<parent, element, thread, session, connection, dirty, due, members,
                     fate, inflight, tables, commit, notices>>
  BY DEF BeginFails, CancelBeforeBegin, AbandonThread, database
<1>4. TypeOK'
  BY <1>1, <1>2, <1>3 DEF TypeOK, notices
<1>5. ElementsHaveThreads'
  BY <1>1, <1>2, <1>3, FinishElements
<1>6. \A th \in Threads : OpenOn(th)' = OpenOn(th)
  BY <1>1, <1>2, <1>3 DEF TypeOK, OpenOn, Th
<1> QED
  BY <1>1, <1>3, <1>4, <1>5, <1>6, SameFrames DEF CallInv

(* A Job that completes gives a thread back, and touches nothing else.     *)
LEMMA JobCompletion ==
  ASSUME CallInv, NEW x \in Txns, CompleteJob(x)
  PROVE  CallInv'
<1>1. TypeOK /\ ElementsHaveThreads /\ FramesSuffice
  BY DEF CallInv
<1>2. /\ owner' \in [Threads -> Txns \cup {NoTxn}]
      /\ UNCHANGED <<status, outcome, parent, element, thread, session, connection, dirty,
                     due, members, fate, inflight, tables, commit, notices>>
  BY <1>1 DEF CompleteJob, TypeOK, database
<1>3. TypeOK'
  BY <1>1, <1>2 DEF TypeOK, notices
<1> QED
  BY <1>1, <1>2, <1>3 DEF CallInv, ElementsHaveThreads, FramesSuffice, OpenOn, IsActive, Th

(* A COMMIT that fails removes one frame and one open call. *)
LEMMA CommitFailure ==
  ASSUME CallInv, NEW x \in Txns, CommitFails(x)
  PROVE  CallInv'
<1>1. TypeOK /\ ElementsHaveThreads
  BY DEF CallInv
<1>2. /\ status[x] = "open" /\ Len(session[Th(x)]) = 1
      /\ Finish(x, "threw")
      /\ session' = [session EXCEPT ![Th(x)] = <<>>]
      /\ commit' = [commit EXCEPT ![Head(session[Th(x)]).txn] = TRUE]
      /\ connection' = NoThread /\ dirty' = {} /\ due' = {} /\ members' = {}
      /\ UNCHANGED <<parent, element, thread, inflight, tables, notices>>
  BY DEF CommitFails, BlockOver
<1>3. fate' \in [Txns -> {"idle", "committed", "rolledBack"}]
  BY <1>1 DEF TypeOK, CommitFails
<1>4. <<>> \in Seq(Frame) /\ Len(<<>>) = 0
  BY EmptySeq
<1>5. status' = [status EXCEPT ![x] = "done"]
  BY <1>1, <1>2, FinishTypes
<1>6. FramesSuffice'
  <2>1. Len(<<>>) + 1 >= Len(session[Th(x)])
    BY <1>2, <1>4
  <2> QED
    BY <1>2, <1>4, <1>5, <2>1, EndKeepsFrames
<1>7. ElementsHaveThreads'
  BY <1>1, <1>2, <1>5, FinishElements
<1>8. Head(session[Th(x)]).txn \in Txns
  <2>1. Head(session[Th(x)]) \in Frame
    BY <1>2, OpenHasFrame, HeadTailProperties
  <2> QED
    BY <2>1 DEF Frame
<1>9. TypeOK'
  BY <1>1, <1>2, <1>3, <1>4, <1>8, FinishTypes DEF TypeOK, notices
<1> QED
  BY <1>6, <1>7, <1>9 DEF CallInv

(* A cancelled call leaves its frame behind: more frames than open calls.  *)
LEMMA CancelledCall ==
  ASSUME CallInv, NEW x \in Txns, NEW returned \in BOOLEAN,
         CancelInBlock(x, returned)
  PROVE  CallInv'
<1> DEFINE s == IF returned THEN Marked(session[Th(x)]) ELSE session[Th(x)]
<1>1. TypeOK /\ ElementsHaveThreads
  BY DEF CallInv
<1>2. /\ status[x] = "open"
      /\ Finish(x, "cancelled")
      /\ UNCHANGED <<parent, element, thread, connection, dirty, due, members, fate,
                     inflight, tables, commit, notices>>
  BY DEF CancelInBlock, BlockOver
<1>3. s \in Seq(Frame) /\ Len(s) = Len(session[Th(x)]) /\ Len(s) \in Nat
  BY <1>2, OpenHasFrame, MarkedIsStack, LenProperties
<1>4. session' = [session EXCEPT ![Th(x)] = s]
  BY <1>1 DEF CancelInBlock, TypeOK
<1> HIDE DEF s
<1>5. status' = [status EXCEPT ![x] = "done"]
  BY <1>1, <1>2, FinishTypes
<1>6. FramesSuffice'
  <2>1. Len(s) + 1 >= Len(session[Th(x)])
    BY <1>3
  <2> QED
    BY <1>2, <1>3, <1>4, <1>5, <2>1, EndKeepsFrames
<1>7. ElementsHaveThreads'
  BY <1>1, <1>2, <1>5, FinishElements
<1>8. TypeOK'
  BY <1>1, <1>2, <1>3, <1>4, FinishTypes DEF TypeOK, notices
<1> QED
  BY <1>6, <1>7, <1>8 DEF CallInv

-----------------------------------------------------------------------------
(* In every reachable state, whatever callers nest, start concurrently or  *)
(* cancel: the types, and a frame for every open call.                     *)
THEOREM CallsInvariant == Spec => []CallInv
<1>1. CallInv /\ [Next]_vars => CallInv'
  <2> SUFFICES ASSUME CallInv, [Next]_vars PROVE CallInv'
    OBVIOUS
  <2>1. ASSUME NEW x \in Txns,
               \/ Request(x)
               \/ \E th \in Threads : AcquireThread(x, th)
               \/ \E p \in Txns : Nest(x, p)
        PROVE  CallInv'
    BY <2>1, StartSteps
  <2>2. ASSUME NEW x \in Txns, Begin(x)
        PROVE  CallInv'
    BY <2>2, BeginStep
  <2>3. ASSUME NEW x \in Txns,
               BeginFails(x) \/ CancelBeforeBegin(x) \/ AbandonThread(x)
        PROVE  CallInv'
    BY <2>3, QuietEnds
  <2>4. ASSUME NEW x \in Txns, InBlock(x)
        PROVE  CallInv'
    BY <2>4, BlockSteps
  <2>5. ASSUME NEW x \in Txns, Return(x)
        PROVE  CallInv'
    <3>1. status[x] = "open"
      BY <2>5 DEF Return, BlockOver
    <3>2. session[Th(x)] \in Seq(Frame) /\ session[Th(x)] # <<>>
      BY <3>1, OpenHasFrame
    <3>3. \/ EndInner(x, Marked(session[Th(x)]), "returned")
          \/ EndLast(x, Marked(session[Th(x)]), "returned")
      BY <2>5 DEF Return
    <3> QED
      BY <3>1, <3>2, <3>3, MarkedIsStack, EndTypes
  <2>6. ASSUME NEW x \in Txns, Throw(x)
        PROVE  CallInv'
    <3>1. status[x] = "open"
      BY <2>6 DEF Throw, BlockOver
    <3>2. session[Th(x)] \in Seq(Frame)
      BY <3>1, OpenHasFrame
    <3>3. \/ EndInner(x, session[Th(x)], "threw")
          \/ EndLast(x, session[Th(x)], "threw")
      BY <2>6 DEF Throw
    <3> QED
      BY <3>1, <3>2, <3>3, EndTypes
  <2>7. ASSUME NEW x \in Txns, CommitFails(x)
        PROVE  CallInv'
    BY <2>7, CommitFailure
  <2>8. ASSUME NEW x \in Txns, NEW returned \in BOOLEAN, CancelInBlock(x, returned)
        PROVE  CallInv'
    BY <2>8, CancelledCall
  <2>9. ASSUME NEW x \in Txns, CompleteJob(x)
        PROVE  CallInv'
    BY <2>9, JobCompletion
  <2>10. CASE UNCHANGED vars
    BY <2>10 DEF vars, CallInv, TypeOK, ElementsHaveThreads, FramesSuffice, OpenOn,
       IsActive, Th
  <2> QED
    BY <2>1, <2>2, <2>3, <2>4, <2>5, <2>6, <2>7, <2>8, <2>9, <2>10 DEF Next, End
<1> QED
  BY <1>1, InitCalls, PTL DEF Spec

(* Type correctness, for any constants. *)
THEOREM TransactionTypes == Spec => []TypeOK
BY CallsInvariant, PTL DEF CallInv

-----------------------------------------------------------------------------
(* The thread that has frames is the one that holds the connection. *)
FramesHoldConnection == \A th \in Threads : session[th] # <<>> <=> connection = th

(* A pool thread is in use only by a call in progress, or one that was     *)
(* cancelled before it could use it.                                       *)
OwnersKept ==
  \A th \in Threads : owner[th] # NoTxn =>
    /\ thread[owner[th]] = th
    /\ IsActive(owner[th]) \/ Abandoned(owner[th])

(* A call has begun, at the latest, when it is open, or when another is    *)
(* nested in it.                                                           *)
BegunInv ==
  /\ \A x \in Txns : status[x] \in {"none", "waiting", "ready"} => ~Begun(x)
  /\ \A x \in Txns : status[x] = "open" => Begun(x)
  /\ \A x \in Txns : element[x] # x => Begun(element[x])

(* What ends a call neither makes a call begin nor undoes a beginning.     *)
LEMMA EndsKeepBegun ==
  ASSUME NEW x \in Txns,
         \/ BeginFails(x) \/ CancelBeforeBegin(x) \/ AbandonThread(x) \/ CompleteJob(x)
         \/ End(x)
         \/ \E returned \in BOOLEAN : CancelInBlock(x, returned)
  PROVE  \A y \in Txns : Begun(y)' <=> Begun(y)
<1> DEFINE Settled(ok) ==
      /\ members' = {}
      /\ fate' = [y \in Txns |-> IF y \notin members THEN fate[y]
                                 ELSE IF ok THEN "committed" ELSE "rolledBack"]
<1>1. UNCHANGED <<members, fate>> \/ \E ok \in BOOLEAN : Settled(ok)
  <2>1. ASSUME NEW stack, NEW result, EndInner(x, stack, result) \/ EndLast(x, stack, result)
        PROVE  <1>1!:
    <3>1. Succeeds(Head(stack)) \in BOOLEAN
      BY DEF Succeeds
    <3> QED
      BY <2>1, <3>1 DEF EndInner, EndLast
  <2>2. CASE CommitFails(x)
    <3>1. fate' = [y \in Txns |-> IF y \notin members THEN fate[y]
                                 ELSE IF FALSE THEN "committed" ELSE "rolledBack"]
      BY <2>2 DEF CommitFails
    <3> QED
      BY <2>2, <3>1 DEF CommitFails
  <2>3. CASE \/ BeginFails(x) \/ CancelBeforeBegin(x) \/ AbandonThread(x) \/ CompleteJob(x)
             \/ \E returned \in BOOLEAN : CancelInBlock(x, returned)
    BY <2>3 DEF BeginFails, CancelBeforeBegin, AbandonThread, CompleteJob, CancelInBlock,
       database
  <2>4. CASE Return(x) \/ Throw(x)
    BY <2>1, <2>4 DEF Return, Throw
  <2> QED
    BY <2>2, <2>3, <2>4 DEF End
<1> QED
  BY <1>1 DEF Begun

(* Only beginStatement makes a call begin, and it stays begun when its     *)
(* SQLite transaction is over.                                             *)
THEOREM BegunCalls == Spec => []BegunInv
<1>1. Init => BegunInv
  BY DEF Init, BegunInv, Begun
<1>2. CallInv /\ BegunInv /\ [Next]_vars => BegunInv'
  <2> SUFFICES ASSUME CallInv, BegunInv, [Next]_vars PROVE BegunInv'
    OBVIOUS
  <2>0. TypeOK
    BY DEF CallInv
  <2>1. ASSUME NEW x \in Txns, Begin(x)
        PROVE  BegunInv'
    <3>1. /\ \A y \in Txns : Begun(y)' <=> Begun(y) \/ y = x
          /\ status'[x] = "open" /\ \A y \in Txns : y # x => status'[y] = status[y]
          /\ element' = element
      BY <2>0, <2>1 DEF Begin, Begun, TypeOK
    <3> QED
      BY <2>0, <3>1 DEF BegunInv, TypeOK
  <2>2. ASSUME NEW x \in Txns, NEW p \in Txns, Nest(x, p)
        PROVE  BegunInv'
    <3>1. /\ \A y \in Txns : Begun(y)' <=> Begun(y)
          /\ status[x] = "none" /\ status'[x] = "ready" /\ status[p] = "open"
          /\ \A y \in Txns : y # x => status'[y] = status[y] /\ element'[y] = element[y]
          /\ element'[x] = element[p] /\ element[p] \in Txns
      BY <2>0, <2>2 DEF Nest, Begun, database, TypeOK
    <3>2. Begun(element[p])
      BY <3>1 DEF BegunInv
    <3> QED
      BY <2>0, <3>1, <3>2 DEF BegunInv, TypeOK
  <2>3. ASSUME element' = element,
               \A y \in Txns : Begun(y)' <=> Begun(y),
               \A y \in Txns : status'[y] = "open" => status[y] = "open",
               \A y \in Txns : status'[y] \in {"none", "waiting", "ready"}
                                => status[y] \in {"none", "waiting", "ready"}
        PROVE  BegunInv'
    BY <2>0, <2>3 DEF BegunInv, TypeOK
  <2>4. ASSUME NEW x \in Txns,
               \/ Request(x)
               \/ \E th \in Threads : AcquireThread(x, th)
        PROVE  BegunInv'
    <3>1. \A y \in Txns : Begun(y)' <=> Begun(y)
      BY <2>4 DEF Request, AcquireThread, Begun, database
    <3> QED
      BY <2>0, <2>3, <2>4, <3>1 DEF Request, AcquireThread, TypeOK
  <2>5. ASSUME NEW x \in Txns,
               \/ BeginFails(x) \/ CancelBeforeBegin(x) \/ AbandonThread(x) \/ CompleteJob(x)
               \/ End(x)
               \/ \E returned \in BOOLEAN : CancelInBlock(x, returned)
        PROVE  BegunInv'
    <3>1. \A y \in Txns : Begun(y)' <=> Begun(y)
      BY <2>5, EndsKeepBegun
    <3>2. /\ element' = element
          /\ status' = status \/ status' = [status EXCEPT ![x] = "done"]
      BY <2>5 DEF BeginFails, CancelBeforeBegin, AbandonThread, CompleteJob, CancelInBlock,
         End, Return, Throw, CommitFails, EndInner, EndLast, Finish
    <3> QED
      BY <2>0, <2>3, <3>1, <3>2 DEF TypeOK
  <2>6. ASSUME NEW x \in Txns, InBlock(x)
        PROVE  BegunInv'
    <3>1. UNCHANGED <<status, element, members, fate>>
      BY <2>6 DEF InBlock, WriteRow, Notify, Execute, QueueTrigger, QueueTriggersRacing,
         CancelWrite, database
    <3> QED
      BY <2>3, <3>1 DEF Begun
  <2>7. CASE UNCHANGED vars
    BY <2>3, <2>7 DEF vars, Begun
  <2> QED
    BY <2>1, <2>2, <2>4, <2>5, <2>6, <2>7 DEF Next
<1> QED
  BY <1>1, <1>2, CallsInvariant, PTL DEF Spec

(* endTransaction gives the connection up with the last frame only. *)
LEMMA EndConnection ==
  ASSUME CallInv, FramesHoldConnection, NEW x \in Txns, status[x] = "open",
         NEW stack \in Seq(Frame), Len(stack) = Len(session[Th(x)]),
         NEW result \in {"returned", "threw"},
         EndInner(x, stack, result) \/ EndLast(x, stack, result)
  PROVE  FramesHoldConnection'
<1>1. /\ Th(x) \in Threads /\ session[Th(x)] \in Seq(Frame)
      /\ session[Th(x)] # <<>> /\ stack # <<>>
  BY OpenHasFrame
<1>2. session \in [Threads -> Seq(Frame)]
  BY DEF CallInv, TypeOK
<1>3. connection = Th(x)
  BY <1>1 DEF FramesHoldConnection
<1>4. CASE EndInner(x, stack, result)
  <2> DEFINE s == PassOn(Tail(stack), ~Succeeds(Head(stack)))
  <2>1. session' = [session EXCEPT ![Th(x)] = s] /\ connection' = connection
    BY <1>4 DEF EndInner
  <2>2. Tail(stack) \in Seq(Frame) /\ Tail(stack) # <<>>
    BY <1>1, <1>4, HeadTailProperties DEF EndInner
  <2>3. Succeeds(Head(stack)) \in BOOLEAN
    BY DEF Succeeds
  <2>4. s \in Seq(Frame) /\ s # <<>>
    <3>1. s \in Seq(Frame) /\ Len(s) = Len(Tail(stack))
      BY <2>2, <2>3, PassOnIsStack
    <3>2. Len(Tail(stack)) \in Nat \ {0}
      BY <2>2, EmptySeq, ZenonT(20)
    <3> HIDE DEF s
    <3> QED
      BY <3>1, <3>2
  <2> HIDE DEF s
  <2> QED
    BY <1>1, <1>2, <1>3, <2>1, <2>4 DEF FramesHoldConnection
<1>5. CASE EndLast(x, stack, result)
  <2>1. session' = [session EXCEPT ![Th(x)] = <<>>] /\ connection' = NoThread
    BY <1>5 DEF EndLast
  <2> QED
    BY <1>2, <1>3, <2>1, TransactionAssumption DEF FramesHoldConnection
<1> QED
  BY <1>4, <1>5

(* Finish frees the thread of the call it ends, and no other. *)
LEMMA FinishOwners ==
  ASSUME CallInv, OwnersKept, NEW x \in Txns,
         NEW result \in {"returned", "threw", "cancelled"}, Finish(x, result),
         thread' = thread, \A y \in Txns : ~Begun(y) => ~Begun(y)'
  PROVE  OwnersKept'
BY TransactionAssumption DEF CallInv, TypeOK, OwnersKept, Finish, IsActive, Abandoned

(* Whatever is cancelled, sessions, the connection and the pool's threads  *)
(* stay together (withTransaction, acquire and release).                   *)
THEOREM ThreadsKept == Spec => []SessionsAndThreadsKept
<1> DEFINE Inv == FramesHoldConnection /\ OwnersKept
<1>1. Init => Inv
  BY TransactionAssumption DEF Init, FramesHoldConnection, OwnersKept
<1>2. CallInv /\ BegunInv /\ Inv /\ [Next]_vars => Inv'
  <2> SUFFICES ASSUME CallInv, BegunInv, Inv, [Next]_vars PROVE Inv'
    OBVIOUS
  <2>0. TypeOK
    BY DEF CallInv
  <2>1. ASSUME NEW x \in Txns, Request(x)
        PROVE  Inv'
    BY <2>0, <2>1 DEF TypeOK, Request, database, FramesHoldConnection, OwnersKept, IsActive,
       Abandoned, Begun
  <2>2. ASSUME NEW x \in Txns, NEW th \in Threads, AcquireThread(x, th)
        PROVE  Inv'
    BY <2>0, <2>2 DEF TypeOK, AcquireThread, database, FramesHoldConnection, OwnersKept,
       IsActive, Abandoned, Begun
  <2>3. ASSUME NEW x \in Txns, NEW p \in Txns, Nest(x, p)
        PROVE  Inv'
    BY <2>0, <2>3 DEF TypeOK, Nest, database, FramesHoldConnection, OwnersKept, IsActive,
       Abandoned, Begun
  <2>4. ASSUME NEW x \in Txns, Begin(x)
        PROVE  Inv'
    <3> DEFINE frame == [txn |-> x, marked |-> FALSE, childFailed |-> FALSE]
               stack == <<frame>> \o session[Th(x)]
    <3>1. /\ session' = [session EXCEPT ![Th(x)] = stack]
          /\ connection' = Th(x)
          /\ session[Th(x)] = <<>> => connection = NoThread
          /\ status[x] = "ready" /\ status' = [status EXCEPT ![x] = "open"]
          /\ owner' = owner /\ thread' = thread
      BY <2>4 DEF Begin
    <3>2. Th(x) \in Threads /\ session[Th(x)] \in Seq(Frame)
      BY <2>0, <3>1 DEF CallInv, ElementsHaveThreads, IsActive, TypeOK
    <3>3. stack # <<>>
      <4>1. <<frame>> \in Seq(Frame) /\ Len(<<frame>>) = 1
        BY DEF Frame
      <4>2. Len(stack) = 1 + Len(session[Th(x)]) /\ Len(session[Th(x)]) \in Nat
        BY <3>2, <4>1, ConcatProperties, LenProperties
      <4> QED
        BY <4>2
    <3> HIDE DEF frame, stack
    <3>4. FramesHoldConnection'
      BY <2>0, <3>1, <3>2, <3>3, TransactionAssumption DEF TypeOK, FramesHoldConnection
    <3>5. OwnersKept'
      <4>1. \A y \in Txns : y # x => (Begun(y)' <=> Begun(y)) /\ outcome'[y] = outcome[y]
        BY <2>4 DEF Begin, Begun
      <4> QED
        BY <2>0, <3>1, <4>1 DEF TypeOK, OwnersKept, IsActive, Abandoned
    <3> QED
      BY <3>4, <3>5
  <2>5. ASSUME NEW x \in Txns, BeginFails(x) \/ CancelBeforeBegin(x)
        PROVE  Inv'
    <3>1. /\ Finish(x, "threw") \/ Finish(x, "cancelled")
          /\ UNCHANGED <<thread, session, connection>>
      BY <2>5 DEF BeginFails, CancelBeforeBegin, database
    <3>2. \A y \in Txns : Begun(y)' <=> Begun(y)
      BY <2>5, EndsKeepBegun
    <3> QED
      BY <3>1, <3>2, FinishOwners DEF FramesHoldConnection
  <2>6. ASSUME NEW x \in Txns, InBlock(x)
        PROVE  Inv'
    <3>1. UNCHANGED <<status, outcome, owner, thread, session, connection, members, fate>>
      BY <2>6 DEF InBlock, WriteRow, Notify, Execute, QueueTrigger,
         QueueTriggersRacing, CancelWrite, database
    <3> QED
      BY <3>1 DEF FramesHoldConnection, OwnersKept, IsActive, Abandoned, Begun
  <2>7. ASSUME NEW x \in Txns, Return(x) \/ Throw(x)
        PROVE  Inv'
    <3>1. status[x] = "open"
      BY <2>7 DEF Return, Throw, BlockOver
    <3>2. session[Th(x)] \in Seq(Frame) /\ session[Th(x)] # <<>>
      BY <3>1, OpenHasFrame
    <3>3. PICK stack \in Seq(Frame), result \in {"returned", "threw"} :
            /\ Len(stack) = Len(session[Th(x)])
            /\ EndInner(x, stack, result) \/ EndLast(x, stack, result)
      <4>1. CASE Return(x)
        BY <3>2, <4>1, MarkedIsStack DEF Return
      <4>2. CASE Throw(x)
        BY <3>2, <4>2 DEF Throw
      <4> QED
        BY <2>7, <4>1, <4>2
    <3>4. Finish(x, result) /\ thread' = thread
      BY <3>3 DEF EndInner, EndLast
    <3>5. \A y \in Txns : Begun(y)' <=> Begun(y)
      BY <2>7, EndsKeepBegun DEF End
    <3> QED
      BY <3>1, <3>3, <3>4, <3>5, EndConnection, FinishOwners
  <2>8. ASSUME NEW x \in Txns, CommitFails(x)
        PROVE  Inv'
    <3>1. /\ status[x] = "open" /\ Finish(x, "threw") /\ thread' = thread
          /\ session' = [session EXCEPT ![Th(x)] = <<>>] /\ connection' = NoThread
      BY <2>8 DEF CommitFails, BlockOver
    <3>2. connection = Th(x)
      BY <3>1, OpenHasFrame DEF FramesHoldConnection
    <3>3. \A y \in Txns : Begun(y)' <=> Begun(y)
      BY <2>8, EndsKeepBegun DEF End
    <3> QED
      BY <2>0, <3>1, <3>2, <3>3, FinishOwners, TransactionAssumption
         DEF TypeOK, FramesHoldConnection
  <2>9. ASSUME NEW x \in Txns, NEW returned \in BOOLEAN, CancelInBlock(x, returned)
        PROVE  Inv'
    <3>1. /\ status[x] = "open" /\ Finish(x, "cancelled")
          /\ UNCHANGED <<thread, connection>>
      BY <2>9 DEF CancelInBlock, BlockOver
    <3>2. session[Th(x)] \in Seq(Frame) /\ session[Th(x)] # <<>>
      BY <3>1, OpenHasFrame
    <3>3. \A th \in Threads : session'[th] # <<>> <=> session[th] # <<>>
      BY <2>0, <2>9, <3>2, MarkedIsStack DEF TypeOK, CancelInBlock
    <3>4. \A y \in Txns : Begun(y)' <=> Begun(y)
      BY <2>9, EndsKeepBegun
    <3> QED
      BY <3>1, <3>3, <3>4, FinishOwners DEF FramesHoldConnection
  <2>10. ASSUME NEW x \in Txns, AbandonThread(x)
        PROVE  Inv'
    <3>1. /\ status[x] = "ready" /\ status'[x] = "done" /\ outcome'[x] = "cancelled"
          /\ \A y \in Txns : y # x => status'[y] = status[y] /\ outcome'[y] = outcome[y]
          /\ UNCHANGED <<owner, thread, session, connection, members, fate>>
      BY <2>0, <2>10 DEF AbandonThread, TypeOK, database
    <3>2. ~Begun(x)
      BY <3>1 DEF BegunInv
    <3> QED
      BY <2>0, <3>1, <3>2 DEF TypeOK, FramesHoldConnection, OwnersKept, IsActive, Abandoned,
         Begun
  <2>11. ASSUME NEW x \in Txns, CompleteJob(x)
        PROVE  Inv'
    <3>1. /\ \A th \in Threads : owner'[th] \in {owner[th], NoTxn}
          /\ UNCHANGED <<status, outcome, thread, session, connection, members, fate>>
      BY <2>11 DEF CompleteJob, database
    <3> QED
      BY <3>1 DEF FramesHoldConnection, OwnersKept, IsActive, Abandoned, Begun
  <2>12. CASE UNCHANGED vars
    BY <2>12 DEF vars, FramesHoldConnection, OwnersKept, IsActive, Abandoned, Begun
  <2> QED
    BY <2>1, <2>2, <2>3, <2>4, <2>5, <2>6, <2>7, <2>8, <2>9, <2>10, <2>11, <2>12
       DEF Next, End
<1>3. CallInv /\ Inv => SessionsAndThreadsKept
  <2> SUFFICES ASSUME CallInv, Inv PROVE SessionsAndThreadsKept
    OBVIOUS
  <2>1. \A x \in Txns : status[x] = "open" => connection = Th(x)
    BY OpenHasFrame DEF FramesHoldConnection
  <2> QED
    BY <2>1 DEF SessionsAndThreadsKept, FramesHoldConnection, OwnersKept
<1> QED
  BY <1>1, <1>2, <1>3, CallsInvariant, BegunCalls, PTL DEF Spec

-----------------------------------------------------------------------------
(* Call trees *)


(* Nested calls form trees, whose roots are the outermost calls; a call    *)
(* that others are nested in has begun, and is open while they are active. *)
Tree ==
  /\ \A y \in Txns : element[y] = IF parent[y] = NoTxn THEN y ELSE element[parent[y]]
  /\ \A y \in Txns : parent[element[y]] = NoTxn
  /\ \A y \in Txns : element[y] # y => status[element[y]] \in {"open", "done"}
  /\ \A y \in Txns : status[y] \in {"none", "waiting"} => parent[y] = NoTxn
  /\ \A y \in Txns : parent[y] # NoTxn => status[parent[y]] \in {"open", "done"}
  /\ \A y \in Txns : IsActive(y) /\ parent[y] # NoTxn => status[parent[y]] = "open"

(* No call is nested, however deep, in itself. *)
Acyclic == \A S \in SUBSET Txns : S # {} => \E y \in S : parent[y] \notin S

(* The thread of a call in progress is acquired for its outermost call. *)
OwnedThreads == \A y \in Txns : IsActive(y) => owner[Th(y)] = element[y]

TreeInv == CallInv /\ BegunInv /\ OwnersKept /\ Tree /\ Acyclic /\ OwnedThreads

-----------------------------------------------------------------------------
(* Once nothing is active in an outermost call, nothing else is active in  *)
(* its whole tree.                                                         *)
LEMMA LastOfTree ==
  ASSUME TypeOK, Tree, Acyclic, NEW x \in Txns, ActiveChildren(x) = {},
         NEW y \in Txns, IsActive(y), element[y] = x
  PROVE  y = x
<1> DEFINE S == {z \in Txns : IsActive(z) /\ element[z] = x /\ z # x}
<1>1. ASSUME NEW z \in S PROVE parent[z] \in S
  <2>1. parent[z] # NoTxn /\ parent[z] \in Txns
    BY DEF Tree, TypeOK
  <2>2. status[parent[z]] = "open" /\ element[parent[z]] = x
    BY <2>1 DEF Tree
  <2>3. parent[z] # x
    BY DEF ActiveChildren
  <2> QED
    BY <2>1, <2>2, <2>3 DEF IsActive
<1>2. S = {}
  <2>1. S \in SUBSET Txns
    OBVIOUS
  <2> HIDE DEF S
  <2> QED
    BY <1>1, <2>1 DEF Acyclic
<1> QED
  BY <1>2

(* A call in progress belongs to an outermost call in progress. *)
LEMMA RootActive ==
  ASSUME TreeInv, NEW y \in Txns, IsActive(y)
  PROVE  IsActive(element[y]) /\ element[element[y]] = element[y]
<1>1. TypeOK /\ Tree /\ Th(y) \in Threads /\ owner[Th(y)] = element[y]
  BY DEF TreeInv, CallInv, ElementsHaveThreads, OwnedThreads
<1>2. element[y] \in Txns /\ element[y] # NoTxn
  BY <1>1, TransactionAssumption DEF TypeOK
<1>3. IsActive(element[y])
  <2>1. element[y] # y => Begun(element[y])
    BY DEF TreeInv, BegunInv
  <2> QED
    BY <1>1, <1>2, <2>1 DEF TreeInv, OwnersKept, Abandoned
<1>4. element[element[y]] = element[y]
  BY <1>1, <1>2 DEF Tree
<1> QED
  BY <1>3, <1>4

(* Steps that nest no call. *)
LEMMA SameParents ==
  ASSUME Acyclic, parent' = parent
  PROVE  Acyclic'
<1> SUFFICES ASSUME NEW S \in SUBSET Txns, S # {}
             PROVE  \E y \in S : parent'[y] \notin S
  BY DEF Acyclic
<1>1. \E y \in S : parent[y] \notin S
  BY DEF Acyclic
<1> QED
  BY <1>1

(* Steps that nest no call and leave what has begun begun. *)
LEMMA SameTree ==
  ASSUME TypeOK, Tree, parent' = parent, element' = element,
         \A y \in Txns : status[y] \in {"open", "done"} => status'[y] \in {"open", "done"},
         \A y \in Txns : status'[y] \in {"none", "waiting"}
                          => status[y] \in {"none", "waiting"},
         \A y \in Txns : IsActive(y)' /\ parent[y] # NoTxn => status'[parent[y]] = "open"
  PROVE  Tree'
<1>1. \A y \in Txns : element[y] \in Txns /\ (parent[y] # NoTxn => parent[y] \in Txns)
  BY DEF TypeOK
<1>2. \A y \in Txns : element[y] # y => status'[element[y]] \in {"open", "done"}
  BY <1>1 DEF Tree
<1>3. \A y \in Txns : parent[y] # NoTxn => status'[parent[y]] \in {"open", "done"}
  BY <1>1 DEF Tree
<1> QED
  BY <1>2, <1>3 DEF Tree

(* A call ends: its thread is freed if it was the last of its tree.        *)
LEMMA FinishTree ==
  ASSUME TreeInv, NEW x \in Txns, status[x] \in {"waiting", "ready", "open"},
         ActiveChildren(x) = {},
         NEW result \in {"returned", "threw", "cancelled"}, Finish(x, result),
         UNCHANGED <<parent, element, thread>>
  PROVE  Tree' /\ Acyclic' /\ OwnedThreads'
<1>1. TypeOK /\ Tree /\ Acyclic /\ OwnedThreads /\ ElementsHaveThreads
  BY DEF TreeInv, CallInv
<1>2. /\ status'[x] = "done" /\ \A y \in Txns : y # x => status'[y] = status[y]
      /\ \A th \in Threads : owner'[th] = IF owner[th] = x THEN NoTxn ELSE owner[th]
  BY <1>1 DEF TypeOK, Finish
<1>3. Tree'
  <2>1. ASSUME NEW y \in Txns, IsActive(y)', parent[y] # NoTxn
        PROVE  status'[parent[y]] = "open"
    <3>1. IsActive(y) /\ parent[y] # x
      BY <1>2, <2>1 DEF IsActive, ActiveChildren
    <3> QED
      BY <1>1, <1>2, <2>1, <3>1 DEF Tree, TypeOK
  <2> QED
    BY <1>1, <1>2, <2>1, SameTree
<1>4. Acyclic'
  BY <1>1, SameParents
<1>5. OwnedThreads'
  <2> SUFFICES ASSUME NEW y \in Txns, IsActive(y)'
               PROVE  owner'[Th(y)] = element[y]
    BY DEF OwnedThreads, Th
  <2>1. IsActive(y) /\ y # x
    BY <1>2 DEF IsActive
  <2>2. owner[Th(y)] = element[y] /\ Th(y) \in Threads
    BY <1>1, <2>1 DEF OwnedThreads, ElementsHaveThreads
  <2>3. element[y] # x
    BY <1>1, <2>1, LastOfTree
  <2> QED
    BY <1>2, <2>2, <2>3
<1> QED
  BY <1>3, <1>4, <1>5

(* A call that asks for a thread or gets one is a root, a nested one a     *)
(* leaf below an open call, and beginning changes no tree.                 *)
LEMMA StartTree ==
  ASSUME TreeInv, NEW x \in Txns,
         \/ Request(x)
         \/ \E th \in Threads : AcquireThread(x, th)
         \/ \E p \in Txns : Nest(x, p)
         \/ Begin(x)
  PROVE  Tree' /\ Acyclic' /\ OwnedThreads'
<1>1. TypeOK /\ Tree /\ Acyclic /\ OwnedThreads /\ ElementsHaveThreads /\ OwnersKept
  BY DEF TreeInv, CallInv
<1>2. CASE Request(x)
  <2>1. UNCHANGED <<parent, element, thread, owner>>
    BY <1>2 DEF Request
  <2>2. /\ status[x] = "none" /\ status'[x] = "waiting"
        /\ \A y \in Txns : y # x => status'[y] = status[y]
    BY <1>1, <1>2 DEF Request, TypeOK
  <2>3. Tree'
    <3>1. ASSUME NEW y \in Txns, IsActive(y)', parent[y] # NoTxn
          PROVE  status'[parent[y]] = "open"
      BY <1>1, <2>2, <3>1 DEF Tree, TypeOK, IsActive
    <3> QED
      BY <1>1, <2>1, <2>2, <3>1, SameTree
  <2> QED
    BY <1>1, <2>1, <2>2, <2>3, SameParents DEF OwnedThreads, IsActive, Th
<1>3. ASSUME NEW th \in Threads, AcquireThread(x, th)
      PROVE  Tree' /\ Acyclic' /\ OwnedThreads'
  <2>1. UNCHANGED <<parent, element>>
    BY <1>3 DEF AcquireThread
  <2>2. /\ status[x] = "waiting" /\ status'[x] = "ready"
        /\ \A y \in Txns : y # x => status'[y] = status[y]
        /\ thread'[x] = th /\ \A y \in Txns : y # x => thread'[y] = thread[y]
        /\ owner[th] = NoTxn /\ owner'[th] = x
        /\ \A u \in Threads : u # th => owner'[u] = owner[u]
    BY <1>1, <1>3 DEF AcquireThread, TypeOK
  <2>3. Tree'
    <3>1. ASSUME NEW y \in Txns, IsActive(y)', parent[y] # NoTxn
          PROVE  status'[parent[y]] = "open"
      BY <1>1, <2>2, <3>1 DEF Tree, TypeOK, IsActive
    <3> QED
      BY <1>1, <2>1, <2>2, <3>1, SameTree
  <2>4. OwnedThreads'
    <3> SUFFICES ASSUME NEW y \in Txns, IsActive(y)'
                 PROVE  owner'[thread'[element[y]]] = element[y]
      BY <2>1 DEF OwnedThreads, Th
    <3>1. CASE y = x
      BY <1>1, <2>2, <3>1 DEF ElementsHaveThreads
    <3>2. CASE y # x
      <4>1. IsActive(y)
        BY <2>2, <3>2 DEF IsActive
      <4>2. element[y] # x /\ element[y] \in Txns /\ thread[element[y]] \in Threads
            /\ owner[thread[element[y]]] = element[y]
        BY <1>1, <2>2, <4>1 DEF ElementsHaveThreads, OwnedThreads, Th, TypeOK
      <4> QED
        BY <2>2, <4>2, TransactionAssumption
    <3> QED
      BY <3>1, <3>2
  <2> QED
    BY <1>1, <2>1, <2>3, <2>4, SameParents
<1>4. ASSUME NEW p \in Txns, Nest(x, p)
      PROVE  Tree' /\ Acyclic' /\ OwnedThreads'
  <2>1. UNCHANGED <<thread, owner>>
    BY <1>4 DEF Nest
  <2>2. /\ status[x] = "none" /\ status'[x] = "ready" /\ status[p] = "open" /\ x # p
        /\ \A y \in Txns : y # x => status'[y] = status[y]
        /\ parent'[x] = p /\ \A y \in Txns : y # x => parent'[y] = parent[y]
        /\ element'[x] = element[p] /\ \A y \in Txns : y # x => element'[y] = element[y]
    BY <1>1, <1>4 DEF Nest, TypeOK
  <2>3. /\ \A y \in Txns : parent[y] # x
        /\ \A y \in Txns : y # x => element[y] # x
        /\ parent[x] = NoTxn /\ element[x] = x /\ NoTxn # p
    BY <1>1, <2>2, TransactionAssumption DEF Tree
  <2>4. Tree'
    <3>1. \A y \in Txns : element'[y] = IF parent'[y] = NoTxn THEN y ELSE element'[parent'[y]]
      BY <1>1, <2>2, <2>3 DEF Tree, TypeOK
    <3>2. \A y \in Txns : parent'[element'[y]] = NoTxn
      BY <1>1, <2>2, <2>3 DEF Tree, TypeOK
    <3>3. \A y \in Txns : element'[y] # y => status'[element'[y]] \in {"open", "done"}
      BY <1>1, <2>2, <2>3 DEF Tree, TypeOK
    <3>4. \A y \in Txns : status'[y] \in {"none", "waiting"} => parent'[y] = NoTxn
      BY <1>1, <2>2 DEF Tree
    <3>5. \A y \in Txns : parent'[y] # NoTxn => status'[parent'[y]] \in {"open", "done"}
      BY <1>1, <2>2, <2>3 DEF Tree, TypeOK
    <3>6. \A y \in Txns : IsActive(y)' /\ parent'[y] # NoTxn => status'[parent'[y]] = "open"
      BY <1>1, <2>2, <2>3 DEF Tree, TypeOK, IsActive
    <3> QED
      BY <3>1, <3>2, <3>3, <3>4, <3>5, <3>6 DEF Tree
  <2>5. Acyclic'
    <3> SUFFICES ASSUME NEW S \in SUBSET Txns, S # {}
                 PROVE  \E y \in S : parent'[y] \notin S
      BY DEF Acyclic
    <3>1. CASE S = {x}
      BY <2>2, <3>1
    <3>2. CASE S # {x}
      <4>1. S \ {x} \in SUBSET Txns /\ S \ {x} # {}
        BY <3>2
      <4>2. PICK y \in S \ {x} : parent[y] \notin S \ {x}
        BY <1>1, <4>1 DEF Acyclic
      <4>3. parent'[y] \notin S
        BY <2>2, <2>3, <4>2
      <4> QED
        BY <4>2, <4>3
    <3> QED
      BY <3>1, <3>2
  <2>6. OwnedThreads'
    <3>1. IsActive(p) /\ element[p] \in Txns
      BY <1>1, <2>2 DEF IsActive, TypeOK
    <3> QED
      BY <1>1, <2>1, <2>2, <3>1 DEF OwnedThreads, IsActive, Th
  <2> QED
    BY <2>4, <2>5, <2>6
<1>5. CASE Begin(x)
  <2>1. UNCHANGED <<parent, element, thread, owner>>
    BY <1>5 DEF Begin
  <2>2. /\ status[x] = "ready" /\ status'[x] = "open"
        /\ \A y \in Txns : y # x => status'[y] = status[y]
    BY <1>1, <1>5 DEF Begin, TypeOK
  <2>3. Tree'
    <3>1. ASSUME NEW y \in Txns, IsActive(y)', parent[y] # NoTxn
          PROVE  status'[parent[y]] = "open"
      BY <1>1, <2>2, <3>1 DEF Tree, TypeOK, IsActive
    <3> QED
      BY <1>1, <2>1, <2>2, <3>1, SameTree
  <2> QED
    BY <1>1, <2>1, <2>2, <2>3, SameParents DEF OwnedThreads, IsActive, Th
<1> QED
  BY <1>2, <1>3, <1>4, <1>5

(* The tree of calls and the threads acquired for it, whatever callers     *)
(* start concurrently or cancel (createTransactionContext, Nest's inherited *)
(* TransactionElement and thread-local).                                   *)
THEOREM CallTrees == Spec => []TreeInv
<1> DEFINE Inv == Tree /\ Acyclic /\ OwnedThreads
<1>1. Init => Inv
  <2> SUFFICES ASSUME Init PROVE Inv
    OBVIOUS
  <2>1. \A y \in Txns : /\ parent[y] = NoTxn /\ element[y] = y /\ ~IsActive(y)
                        /\ status[y] = "none"
    BY DEF Init, IsActive
  <2>2. Acyclic
    BY <2>1, TransactionAssumption DEF Acyclic
  <2> QED
    BY <2>1, <2>2 DEF Tree, OwnedThreads
<1>2. CallInv /\ BegunInv /\ SessionsAndThreadsKept /\ Inv /\ [Next]_vars => Inv'
  <2> SUFFICES ASSUME CallInv, BegunInv, SessionsAndThreadsKept, Inv, [Next]_vars
               PROVE  Inv'
    OBVIOUS
  <2>1. TreeInv
    BY DEF TreeInv, SessionsAndThreadsKept, OwnersKept
  <2>2. ASSUME NEW x \in Txns,
               \/ Request(x)
               \/ \E th \in Threads : AcquireThread(x, th)
               \/ \E p \in Txns : Nest(x, p)
               \/ Begin(x)
        PROVE  Inv'
    BY <2>1, <2>2, StartTree
  <2>3. ASSUME NEW x \in Txns, BeginFails(x) \/ CancelBeforeBegin(x)
        PROVE  Inv'
    <3>1. /\ status[x] \in {"waiting", "ready"}
          /\ Finish(x, "threw") \/ Finish(x, "cancelled")
          /\ UNCHANGED <<parent, element, thread>>
      BY <2>3 DEF BeginFails, CancelBeforeBegin
    <3>2. ActiveChildren(x) = {}
      BY <2>1, <3>1, TransactionAssumption DEF TreeInv, Tree, ActiveChildren
    <3> QED
      BY <2>1, <3>1, <3>2, FinishTree
  <2>4. ASSUME NEW x \in Txns, InBlock(x)
        PROVE  Inv'
    <3>1. UNCHANGED <<status, parent, element, thread, owner>>
      BY <2>4 DEF InBlock, WriteRow, Notify, Execute, QueueTrigger,
         QueueTriggersRacing, CancelWrite
    <3>2. Tree' /\ OwnedThreads'
      BY <3>1 DEF Tree, OwnedThreads, IsActive, Th
    <3> QED
      BY <3>1, <3>2, SameParents
  <2>5. ASSUME NEW x \in Txns, End(x) \/ \E returned \in BOOLEAN : CancelInBlock(x, returned)
        PROVE  Inv'
    <3>1. BlockOver(x)
      BY <2>5 DEF End, Return, Throw, CommitFails, CancelInBlock
    <3>2. /\ \E result \in {"returned", "threw", "cancelled"} : Finish(x, result)
          /\ UNCHANGED <<parent, element, thread>>
      BY <2>5 DEF End, Return, Throw, CommitFails, CancelInBlock, EndInner, EndLast
    <3> QED
      BY <2>1, <3>1, <3>2, FinishTree DEF BlockOver
  <2>6. ASSUME NEW x \in Txns, AbandonThread(x)
        PROVE  Inv'
    <3>1. /\ status[x] = "ready" /\ status'[x] = "done"
          /\ \A y \in Txns : y # x => status'[y] = status[y]
          /\ UNCHANGED <<parent, element, thread, owner>>
      BY <2>1, <2>6 DEF AbandonThread, TreeInv, CallInv, TypeOK
    <3>2. \A y \in Txns : IsActive(y)' => IsActive(y)
      BY <3>1 DEF IsActive
    <3>3. \A y \in Txns : parent[y] # x
      BY <2>1, <3>1, TransactionAssumption DEF TreeInv, Tree
    <3>4. Tree'
      <4>1. ASSUME NEW y \in Txns, IsActive(y)', parent[y] # NoTxn
            PROVE  status'[parent[y]] = "open"
        BY <2>1, <3>1, <3>2, <3>3, <4>1 DEF TreeInv, CallInv, TypeOK, Tree
      <4> QED
        BY <2>1, <3>1, <4>1, SameTree DEF TreeInv, CallInv
    <3>5. OwnedThreads'
      BY <3>1, <3>2 DEF OwnedThreads, Th
    <3> QED
      BY <3>1, <3>4, <3>5, SameParents
  <2>7. ASSUME NEW x \in Txns, CompleteJob(x)
        PROVE  Inv'
    <3>1. /\ status[x] = "done"
          /\ \A th \in Threads : owner[th] # x => owner'[th] = owner[th]
          /\ UNCHANGED <<status, parent, element, thread>>
      BY <2>7 DEF CompleteJob
    <3>2. OwnedThreads'
      <4> SUFFICES ASSUME NEW y \in Txns, IsActive(y)
                   PROVE  owner'[Th(y)] = element[y]
        BY <3>1 DEF OwnedThreads, IsActive, Th
      <4>1. owner[Th(y)] = element[y] /\ Th(y) \in Threads
        BY <2>1 DEF OwnedThreads, TreeInv, CallInv, ElementsHaveThreads
      <4>2. element[y] # x
        BY <2>1, <3>1, RootActive DEF IsActive
      <4> QED
        BY <3>1, <4>1, <4>2
    <3>3. Tree'
      BY <3>1 DEF Tree, IsActive
    <3> QED
      BY <3>1, <3>2, <3>3, SameParents
  <2>8. CASE UNCHANGED vars
    <3>1. UNCHANGED <<status, parent, element, thread, owner>>
      BY <2>8 DEF vars
    <3>2. Tree' /\ OwnedThreads'
      BY <3>1 DEF Tree, OwnedThreads, IsActive, Th
    <3> QED
      BY <3>1, <3>2, SameParents
  <2> QED
    BY <2>2, <2>3, <2>4, <2>5, <2>6, <2>7, <2>8 DEF Next
<1>3. CallInv /\ BegunInv /\ SessionsAndThreadsKept /\ Inv => TreeInv
  BY DEF TreeInv, SessionsAndThreadsKept, OwnersKept
<1> QED
  BY <1>1, <1>2, <1>3, CallsInvariant, BegunCalls, ThreadsKept, PTL DEF Spec

-----------------------------------------------------------------------------
(* Frames, when nothing is cancelled *)

(* Without cancellation a thread has a frame for each open call on it and  *)
(* no more.                                                                *)
FramesExact == \A th \in Threads : Cardinality(OpenOn(th)) = Len(session[th])

(* The frames of a thread belong to calls of the tree it is acquired for,  *)
(* the last one to its root and no other; none is left marked.             *)
FramesOfTree ==
  \A th \in Threads : \A i \in 1..Len(session[th]) :
    LET f == session[th][i]
    IN /\ ~f.marked
       /\ status[f.txn] \in {"open", "done"}
       /\ element[f.txn] = owner[th]
       /\ i = Len(session[th]) <=> f.txn = owner[th]

StackInv == FramesExact /\ FramesOfTree

(* Pushing and popping frames, position by position. *)
LEMMA PushFrame ==
  ASSUME NEW s \in Seq(Frame), NEW f \in Frame
  PROVE  /\ <<f>> \o s \in Seq(Frame)
         /\ Len(<<f>> \o s) = Len(s) + 1
         /\ (<<f>> \o s)[1] = f
         /\ \A i \in 1..Len(s) : (<<f>> \o s)[i + 1] = s[i]
         /\ \A i \in 2..(Len(s) + 1) : (<<f>> \o s)[i] = s[i - 1]
<1>1. <<f>> \in Seq(Frame) /\ Len(<<f>>) = 1 /\ <<f>>[1] = f
  OBVIOUS
<1>2. Len(s) \in Nat
  OBVIOUS
<1> QED
  BY <1>1, <1>2, ConcatProperties

(* What is left of a stack, frame by frame, when the top one is popped. *)
LEMMA PopFrame ==
  ASSUME NEW s \in Seq(Frame), Len(s) > 1, NEW failed \in BOOLEAN
  PROVE  LET t == PassOn(Tail(s), failed)
         IN /\ t \in Seq(Frame)
            /\ Len(t) = Len(s) - 1
            /\ \A i \in 1..Len(t) :
                 /\ t[i].txn = s[i + 1].txn
                 /\ t[i].marked = s[i + 1].marked
                 /\ t[i].childFailed <=> s[i + 1].childFailed \/ (i = 1 /\ failed)
<1>1. Len(s) \in Nat /\ s # <<>>
  OBVIOUS
<1>2. /\ Tail(s) \in Seq(Frame) /\ Len(Tail(s)) = Len(s) - 1
      /\ \A i \in 1..(Len(s) - 1) : Tail(s)[i] = s[i + 1]
  BY <1>1
<1> DEFINE u == Tail(s)
           f == [u[1] EXCEPT !.childFailed = u[1].childFailed \/ failed]
<1>3. PassOn(u, failed) = [u EXCEPT ![1] = f]
  BY DEF PassOn
<1>4. u \in Seq(Frame) /\ Len(u) = Len(s) - 1 /\ 1 \in 1..Len(u) /\ u[1] \in Frame
  BY <1>1, <1>2
<1>5. /\ f \in Frame /\ f.txn = u[1].txn /\ f.marked = u[1].marked
      /\ f.childFailed <=> u[1].childFailed \/ failed
  BY <1>4 DEF Frame
<1> HIDE DEF u, f
<1>6. /\ PassOn(u, failed) \in Seq(Frame) /\ Len(PassOn(u, failed)) = Len(u)
      /\ \A i \in 1..Len(u) : PassOn(u, failed)[i] = IF i = 1 THEN f ELSE u[i]
  BY <1>3, <1>4, <1>5, ExceptSeq
<1>7. \A i \in 1..Len(u) : u[i] = s[i + 1]
  BY <1>2, <1>4 DEF u
<1>8. PassOn(Tail(s), failed) = PassOn(u, failed)
  BY DEF u
<1> QED
  BY <1>4, <1>5, <1>6, <1>7, <1>8

(* Marking the top frame changes nothing else of the stack. *)
LEMMA MarkedTail ==
  ASSUME NEW s \in Seq(Frame), s # <<>>
  PROVE  /\ Tail(Marked(s)) = Tail(s)
         /\ Head(Marked(s)).txn = Head(s).txn
         /\ Head(Marked(s)).marked = TRUE
         /\ Head(Marked(s)).childFailed = Head(s).childFailed
<1> DEFINE f == [s[1] EXCEPT !.marked = TRUE]
<1>1. s[1] \in Frame /\ 1 \in 1..Len(s) /\ Len(s) \in Nat
  OBVIOUS
<1>2. Marked(s) = [s EXCEPT ![1] = f]
  BY DEF Marked
<1>3. /\ f \in Frame /\ f.txn = s[1].txn /\ f.marked = TRUE
      /\ f.childFailed = s[1].childFailed
  BY <1>1 DEF Frame
<1> HIDE DEF f
<1>4. /\ Marked(s) \in Seq(Frame) /\ Len(Marked(s)) = Len(s)
      /\ \A i \in 1..Len(s) : Marked(s)[i] = IF i = 1 THEN f ELSE s[i]
  BY <1>1, <1>2, <1>3, ExceptSeq
<1>5. Tail(Marked(s)) = Tail(s)
  BY <1>1, <1>4
<1>6. Head(Marked(s)) = f /\ Head(s) = s[1]
  BY <1>1, <1>4
<1> QED
  BY <1>3, <1>5, <1>6

-----------------------------------------------------------------------------
(* How a call ends, when nothing is cancelled *)

(* What endTransaction will make of the top frame of x's thread. *)
EndsWell(x, result) == result = "returned" /\ ~Head(session[Th(x)]).childFailed

PopInner(x, result) ==
  LET stack == session[Th(x)]
      ok == EndsWell(x, result)
  IN /\ BlockOver(x)
     /\ Len(stack) > 1
     /\ session' = [session EXCEPT ![Th(x)] = PassOn(Tail(stack), ~ok)]
     /\ commit' = [commit EXCEPT ![Head(stack).txn] = @ \/ ok]
     /\ SendTableTrigger(x, {})
     /\ Finish(x, result)
     /\ UNCHANGED <<parent, element, thread, connection, dirty, due, members, fate,
                    inflight>>

PopLast(x, result) ==
  LET stack == session[Th(x)]
      ok == EndsWell(x, result)
  IN /\ BlockOver(x)
     /\ Len(stack) = 1
     /\ session' = [session EXCEPT ![Th(x)] = <<>>]
     /\ commit' = [commit EXCEPT ![Head(stack).txn] = @ \/ ok]
     /\ SendTableTrigger(x, IF ok THEN due ELSE {})
     /\ fate' = [y \in Txns |-> IF y \notin members THEN fate[y]
                                ELSE IF ok THEN "committed" ELSE "rolledBack"]
     /\ connection' = NoThread /\ dirty' = {} /\ due' = {} /\ members' = {}
     /\ Finish(x, result)
     /\ UNCHANGED <<parent, element, thread, inflight>>

(* A call ends with the top frame unmarked, or marked just now. *)
LEMMA EndShape ==
  ASSUME CallInv, FramesOfTree, NEW x \in Txns, End(x)
  PROVE  \/ \E result \in {"returned", "threw"} : PopInner(x, result)
         \/ \E result \in {"returned", "threw"} : PopLast(x, result)
         \/ CommitFails(x)
<1> DEFINE stack == session[Th(x)]
<1>1. BlockOver(x) /\ status[x] = "open"
  BY DEF End, Return, Throw, CommitFails, BlockOver
<1>2. Th(x) \in Threads /\ stack \in Seq(Frame) /\ stack # <<>>
  BY <1>1, OpenHasFrame
<1>3. Len(stack) \in Nat \ {0} /\ Head(stack) = stack[1] /\ stack[1] \in Frame
  BY <1>2
<1>4. ~Head(stack).marked
  BY <1>2, <1>3 DEF FramesOfTree
<1>5. /\ Tail(stack) # <<>> => Len(stack) > 1
      /\ Tail(stack) = <<>> => Len(stack) = 1
  <2>1. Len(Tail(stack)) = Len(stack) - 1 /\ Tail(stack) \in Seq(Frame)
    BY <1>2, <1>3
  <2>2. Tail(stack) # <<>> => Len(Tail(stack)) \in Nat \ {0}
    BY <2>1, EmptySeq
  <2>3. Tail(stack) = <<>> => Len(Tail(stack)) = 0
    BY EmptySeq
  <2> HIDE DEF stack
  <2> QED
    BY <1>3, <2>1, <2>2, <2>3
<1>6. CASE Return(x)
  <2>1. /\ Tail(Marked(stack)) = Tail(stack)
        /\ Head(Marked(stack)).txn = Head(stack).txn
        /\ Succeeds(Head(Marked(stack))) <=> EndsWell(x, "returned")
    BY <1>2, MarkedTail DEF Succeeds, EndsWell
  <2>2. Succeeds(Head(Marked(stack))) = EndsWell(x, "returned")
    BY <2>1 DEF Succeeds, EndsWell
  <2>3. CASE EndInner(x, Marked(stack), "returned")
    BY <1>1, <1>5, <2>1, <2>2, <2>3 DEF EndInner, PopInner
  <2>4. CASE EndLast(x, Marked(stack), "returned")
    BY <1>1, <1>5, <2>1, <2>2, <2>4 DEF EndLast, PopLast
  <2> QED
    BY <1>6, <2>3, <2>4 DEF Return
<1>7. CASE Throw(x)
  <2>1. Succeeds(Head(stack)) = EndsWell(x, "threw")
    BY <1>4 DEF Succeeds, EndsWell
  <2>2. CASE EndInner(x, stack, "threw")
    BY <1>1, <1>5, <2>1, <2>2 DEF EndInner, PopInner
  <2>3. CASE EndLast(x, stack, "threw")
    BY <1>1, <1>5, <2>1, <2>3 DEF EndLast, PopLast
  <2> QED
    BY <1>7, <2>2, <2>3 DEF Throw
<1> QED
  BY <1>6, <1>7 DEF End

-----------------------------------------------------------------------------
(* Calls and their frames, when nothing is cancelled *)

(* A thread has frames exactly while a call is open on it. *)
LEMMA FramesMeanOpen ==
  ASSUME CallInv, FramesExact, NEW th \in Threads, session[th] # <<>>
  PROVE  \E y \in Txns : status[y] = "open" /\ Th(y) = th
<1>1. IsFiniteSet(OpenOn(th)) /\ Cardinality(OpenOn(th)) = Len(session[th])
  BY DEF CallInv, FramesSuffice, FramesExact
<1>2. Len(session[th]) # 0
  <2>1. session[th] \in Seq(Frame)
    BY DEF CallInv, TypeOK
  <2> QED
    BY <2>1
<1>3. OpenOn(th) # {}
  BY <1>1, <1>2, FS_EmptySet
<1> QED
  BY <1>3 DEF OpenOn

(* A call that is about to begin opens its thread's session if and only if *)
(* it is an outermost one.                                                 *)
LEMMA FirstIsOutermost ==
  ASSUME TreeInv, FramesExact, NEW x \in Txns, status[x] = "ready"
  PROVE  /\ Th(x) \in Threads /\ owner[Th(x)] = element[x]
         /\ session[Th(x)] = <<>> <=> parent[x] = NoTxn
         /\ parent[x] = NoTxn => element[x] = x
<1>1. IsActive(x) /\ TypeOK /\ Tree /\ CallInv
  BY DEF IsActive, TreeInv, CallInv
<1>2. /\ Th(x) \in Threads /\ owner[Th(x)] = element[x]
      /\ parent[x] = NoTxn => element[x] = x
  BY <1>1 DEF TreeInv, CallInv, ElementsHaveThreads, OwnedThreads, Tree
<1>3. ASSUME parent[x] # NoTxn PROVE session[Th(x)] # <<>>
  <2>1. parent[x] \in Txns /\ status[parent[x]] = "open" /\ Th(parent[x]) = Th(x)
    BY <1>1, <1>3 DEF Tree, TypeOK, Th
  <2> QED
    BY <1>1, <2>1, OpenHasFrame
<1>4. ASSUME session[Th(x)] # <<>> PROVE parent[x] # NoTxn
  <2>1. PICK y \in Txns : status[y] = "open" /\ Th(y) = Th(x)
    BY <1>1, <1>2, <1>4, FramesMeanOpen
  <2>2. element[y] = element[x]
    BY <1>2, <2>1 DEF TreeInv, OwnedThreads, IsActive
  <2> QED
    BY <1>1, <2>1, <2>2 DEF Tree
<1> QED
  BY <1>2, <1>3, <1>4

(* The call that ends with the last frame is the outermost one, the calls  *)
(* nested in it have ended, and it ends no sooner.                         *)
LEMMA LastIsOutermost ==
  ASSUME TreeInv, FramesExact, FramesHoldConnection,
         NEW x \in Txns, status[x] = "open", ActiveChildren(x) = {}
  PROVE  /\ Th(x) \in Threads /\ owner[Th(x)] = element[x]
         /\ connection = Th(x)
         /\ session[Th(x)] \in Seq(Frame) /\ Len(session[Th(x)]) \in Nat \ {0}
         /\ Len(session[Th(x)]) = 1 <=> parent[x] = NoTxn
         /\ parent[x] = NoTxn => /\ element[x] = x
                                 /\ \A y \in Txns : status[y] = "open" => y = x
         /\ parent[x] # NoTxn => element[x] # x
<1>1. IsActive(x) /\ TypeOK /\ Tree /\ CallInv /\ Acyclic
  BY DEF IsActive, TreeInv, CallInv
<1>2. /\ Th(x) \in Threads /\ owner[Th(x)] = element[x]
      /\ connection = Th(x)
      /\ session[Th(x)] \in Seq(Frame) /\ Len(session[Th(x)]) \in Nat \ {0}
  <2>1. /\ Th(x) \in Threads /\ owner[Th(x)] = element[x]
        /\ session[Th(x)] \in Seq(Frame) /\ session[Th(x)] # <<>>
    BY <1>1, OpenHasFrame DEF TreeInv, OwnedThreads
  <2> QED
    BY <2>1, EmptySeq DEF FramesHoldConnection
<1>3. /\ IsFiniteSet(OpenOn(Th(x))) /\ x \in OpenOn(Th(x))
      /\ Cardinality(OpenOn(Th(x))) = Len(session[Th(x)])
  BY <1>1, <1>2 DEF CallInv, FramesSuffice, FramesExact, OpenOn
<1>4. ASSUME parent[x] = NoTxn
      PROVE  /\ element[x] = x /\ Len(session[Th(x)]) = 1
             /\ \A y \in Txns : status[y] = "open" => y = x
  <2>1. element[x] = x
    BY <1>1, <1>4 DEF Tree
  <2>2. ASSUME NEW y \in Txns, status[y] = "open" PROVE y = x
    <3>1. IsActive(y) /\ Th(y) = Th(x)
      BY <1>1, <1>2, <2>2, OpenHasFrame DEF FramesHoldConnection, IsActive
    <3>2. element[y] = x
      BY <1>2, <2>1, <3>1 DEF TreeInv, OwnedThreads
    <3> QED
      BY <1>1, <3>1, <3>2, LastOfTree
  <2>3. OpenOn(Th(x)) = {x}
    BY <1>3, <2>2 DEF OpenOn
  <2> QED
    BY <1>3, <2>1, <2>2, <2>3, FS_Singleton
<1>5. ASSUME parent[x] # NoTxn
      PROVE  Len(session[Th(x)]) # 1 /\ element[x] # x
  <2>1. parent[x] \in Txns /\ status[parent[x]] = "open" /\ Th(parent[x]) = Th(x)
    BY <1>1, <1>5 DEF Tree, TypeOK, Th
  <2>2. parent[x] # x
    <3>1. {x} \in SUBSET Txns /\ {x} # {}
      OBVIOUS
    <3>2. PICK y \in {x} : parent[y] \notin {x}
      BY <1>1, <3>1 DEF Acyclic
    <3> QED
      BY <3>2
  <2>3. parent[x] \in OpenOn(Th(x))
    BY <2>1 DEF OpenOn
  <2>4. \A y : OpenOn(Th(x)) # {y}
    BY <1>3, <2>2, <2>3
  <2>5. Cardinality(OpenOn(Th(x))) # 1
    BY <1>3, <2>4, FS_Singleton
  <2> QED
    BY <1>1, <1>3, <1>5, <2>5 DEF Tree
<1> QED
  BY <1>2, <1>4, <1>5

-----------------------------------------------------------------------------
(* Steps that move no frame. *)
LEMMA SameExact ==
  ASSUME FramesExact, session' = session, \A th \in Threads : OpenOn(th)' = OpenOn(th)
  PROVE  FramesExact'
BY DEF FramesExact

(* A step that leaves the frames, their calls and the owner of their       *)
(* thread as they are keeps them those of one tree.                        *)
LEMMA SameStacks ==
  ASSUME FramesOfTree, TypeOK, session' = session,
         \A y \in Txns : status[y] \in {"open", "done"} =>
           status'[y] \in {"open", "done"} /\ element'[y] = element[y],
         \A th \in Threads : session[th] # <<>> => owner'[th] = owner[th]
  PROVE  FramesOfTree'
<1> SUFFICES ASSUME NEW th \in Threads, NEW i \in 1..Len(session[th])
             PROVE  LET f == session[th][i]
                    IN /\ ~f.marked
                       /\ status'[f.txn] \in {"open", "done"}
                       /\ element'[f.txn] = owner'[th]
                       /\ i = Len(session[th]) <=> f.txn = owner'[th]
  BY DEF FramesOfTree
<1>1. session[th] \in Seq(Frame)
  BY DEF TypeOK
<1>2. session[th] # <<>> /\ session[th][i] \in Frame
  BY <1>1
<1>3. session[th][i].txn \in Txns
  BY <1>2 DEF Frame
<1> QED
  BY <1>2, <1>3 DEF FramesOfTree

(* A call ends and takes the top frame off its thread. *)
LEMMA PopExact ==
  ASSUME CallInv, FramesExact, NEW x \in Txns, status[x] = "open",
         NEW s \in Seq(Frame), Len(s) = Len(session[Th(x)]) - 1,
         session' = [session EXCEPT ![Th(x)] = s],
         status' = [status EXCEPT ![x] = "done"],
         element' = element, thread' = thread
  PROVE  FramesExact'
<1> SUFFICES ASSUME NEW th \in Threads
             PROVE  Cardinality(OpenOn(th)') = Len(session'[th])
  BY DEF FramesExact
<1>1. IsFiniteSet(OpenOn(th)) /\ Cardinality(OpenOn(th)) = Len(session[th])
  BY DEF CallInv, FramesSuffice, FramesExact
<1>2. session \in [Threads -> Seq(Frame)]
  BY DEF CallInv, TypeOK
<1>3. status \in [Txns -> {"none", "waiting", "ready", "open", "done"}]
  BY DEF CallInv, TypeOK
<1>4. CASE th # Th(x)
  <2>1. OpenOn(th)' = OpenOn(th)
    BY <1>3, <1>4 DEF OpenOn, Th
  <2> QED
    BY <1>1, <1>2, <1>4, <2>1
<1>5. CASE th = Th(x)
  <2>1. OpenOn(th)' = OpenOn(th) \ {x} /\ x \in OpenOn(th)
    BY <1>3, <1>5 DEF OpenOn, Th
  <2>2. Cardinality(OpenOn(th)') = Cardinality(OpenOn(th)) - 1
    BY <1>1, <2>1, FS_RemoveElement
  <2>3. session'[th] = s
    BY <1>2, <1>5
  <2> QED
    BY <1>1, <1>5, <2>2, <2>3
<1> QED
  BY <1>4, <1>5

(* The steps up to beginTransactionWithListener leave all frames as they   *)
(* are.                                                                    *)
LEMMA StackStarts ==
  ASSUME TreeInv, SessionsAndThreadsKept, StackInv, NEW x \in Txns,
         \/ Request(x)
         \/ \E th \in Threads : AcquireThread(x, th)
         \/ \E p \in Txns : Nest(x, p)
         \/ BeginFails(x)
  PROVE  StackInv'
<1>1. TypeOK /\ Tree /\ CallInv /\ FramesExact /\ FramesOfTree /\ ElementsHaveThreads
  BY DEF TreeInv, CallInv, StackInv
<1>2. CASE Request(x)
  <2>1. /\ UNCHANGED <<element, thread, owner, session>>
        /\ status' = [status EXCEPT ![x] = "waiting"] /\ status[x] = "none"
    BY <1>2 DEF Request, database
  <2>2. \A th \in Threads : OpenOn(th)' = OpenOn(th)
    BY <1>1, <2>1 DEF TypeOK, OpenOn, Th
  <2>3. FramesOfTree'
    BY <1>1, <2>1, SameStacks DEF TypeOK
  <2> QED
    BY <1>1, <2>1, <2>2, <2>3, SameExact DEF StackInv
<1>3. ASSUME NEW th \in Threads, AcquireThread(x, th)
      PROVE  StackInv'
  <2>1. /\ UNCHANGED <<element, session>>
        /\ status' = [status EXCEPT ![x] = "ready"] /\ status[x] = "waiting"
        /\ thread' = [thread EXCEPT ![x] = th]
        /\ owner[th] = NoTxn /\ \A u \in Threads : u # th => owner'[u] = owner[u]
    BY <1>1, <1>3 DEF AcquireThread, database, TypeOK
  <2>2. \A y \in Txns : IsActive(y) => element[y] # x
    BY <1>1, <2>1 DEF ElementsHaveThreads
  <2>3. \A u \in Threads : OpenOn(u)' = OpenOn(u)
    BY <1>1, <2>1, <2>2 DEF TypeOK, OpenOn, Th, IsActive
  <2>4. session[th] = <<>>
    <3> SUFFICES ASSUME session[th] # <<>> PROVE FALSE
      OBVIOUS
    <3>1. PICK y \in Txns : status[y] = "open" /\ Th(y) = th
      BY <1>1, FramesMeanOpen
    <3>2. element[y] \in Txns /\ owner[th] = element[y]
      BY <1>1, <3>1 DEF TreeInv, OwnedThreads, IsActive, TypeOK
    <3> QED
      BY <2>1, <3>2, TransactionAssumption
  <2>5. FramesOfTree'
    BY <1>1, <2>1, <2>4, SameStacks DEF TypeOK
  <2> QED
    BY <1>1, <2>1, <2>3, <2>5, SameExact DEF StackInv
<1>4. ASSUME NEW p \in Txns, Nest(x, p)
      PROVE  StackInv'
  <2>1. /\ UNCHANGED <<thread, owner, session>>
        /\ status' = [status EXCEPT ![x] = "ready"] /\ status[x] = "none"
        /\ element' = [element EXCEPT ![x] = element[p]]
    BY <1>4 DEF Nest, database
  <2>2. \A u \in Threads : OpenOn(u)' = OpenOn(u)
    BY <1>1, <2>1 DEF TypeOK, OpenOn, Th
  <2>3. FramesOfTree'
    BY <1>1, <2>1, SameStacks DEF TypeOK
  <2> QED
    BY <1>1, <2>1, <2>2, <2>3, SameExact DEF StackInv
<1>5. CASE BeginFails(x)
  <2>1. /\ UNCHANGED <<element, thread, session>>
        /\ status' = [status EXCEPT ![x] = "done"] /\ status[x] = "ready"
    BY <1>5 DEF BeginFails, database, Finish
  <2>2. \A u \in Threads : OpenOn(u)' = OpenOn(u)
    BY <1>1, <2>1 DEF TypeOK, OpenOn, Th
  <2>3. connection = NoThread
    <3>1. Th(x) \in Threads /\ session[Th(x)] \in Seq(Frame)
      BY <1>1, <2>1 DEF ElementsHaveThreads, IsActive, TypeOK
    <3>2. session[Th(x)] # <<>> => ~Head(session[Th(x)]).marked
      BY <1>1, <3>1 DEF FramesOfTree
    <3> QED
      BY <1>5, <3>2 DEF BeginFails
  <2>4. \A th \in Threads : session[th] = <<>>
    BY <2>3, TransactionAssumption DEF SessionsAndThreadsKept
  <2>5. FramesOfTree'
    BY <1>1, <2>1, <2>4, SameStacks DEF TypeOK
  <2> QED
    BY <1>1, <2>1, <2>2, <2>5, SameExact DEF StackInv
<1> QED
  BY <1>2, <1>3, <1>4, <1>5

(* A call that begins adds itself and its frame. *)
LEMMA StackBegin ==
  ASSUME TreeInv, StackInv, NEW x \in Txns, Begin(x)
  PROVE  StackInv'
<1> DEFINE th == Th(x)
           frame == [txn |-> x, marked |-> FALSE, childFailed |-> FALSE]
           stack == <<frame>> \o session[th]
<1>1. TypeOK /\ Tree /\ CallInv /\ FramesExact /\ FramesOfTree
  BY DEF TreeInv, CallInv, StackInv
<1>2. /\ status[x] = "ready"
      /\ session' = [session EXCEPT ![th] = stack]
      /\ status' = [status EXCEPT ![x] = "open"]
      /\ UNCHANGED <<parent, element, thread, owner>>
  BY DEF Begin
<1>3. /\ th \in Threads /\ owner[th] = element[x]
      /\ session[th] = <<>> <=> parent[x] = NoTxn
      /\ parent[x] = NoTxn => element[x] = x
  BY <1>1, <1>2, FirstIsOutermost
<1>4. /\ session[th] \in Seq(Frame) /\ Len(session[th]) \in Nat
      /\ session[th] = <<>> => Len(session[th]) = 0
      /\ session[th] # <<>> => Len(session[th]) # 0
  BY <1>1, <1>3 DEF TypeOK
<1>5. frame \in Frame
  BY DEF Frame
<1>6. /\ frame.txn = x /\ ~frame.marked
      /\ stack \in Seq(Frame) /\ Len(stack) = Len(session[th]) + 1
      /\ stack[1] = frame
      /\ \A i \in 2..(Len(session[th]) + 1) : stack[i] = session[th][i - 1]
  BY <1>4, <1>5, PushFrame
<1> HIDE DEF frame, stack
<1>7. FramesExact'
  <2> SUFFICES ASSUME NEW u \in Threads
               PROVE  Cardinality(OpenOn(u)') = Len(session'[u])
    BY DEF FramesExact
  <2>1. IsFiniteSet(OpenOn(u)) /\ Cardinality(OpenOn(u)) = Len(session[u])
    BY <1>1 DEF CallInv, FramesSuffice, FramesExact
  <2>2. CASE u # th
    <3>1. OpenOn(u)' = OpenOn(u) /\ session'[u] = session[u]
      BY <1>1, <1>2, <2>2 DEF TypeOK, OpenOn, Th
    <3> QED
      BY <2>1, <3>1
  <2>3. CASE u = th
    <3>1. OpenOn(u)' = OpenOn(u) \cup {x} /\ x \notin OpenOn(u)
      BY <1>1, <1>2, <2>3 DEF TypeOK, OpenOn, Th
    <3>2. Cardinality(OpenOn(u)') = Cardinality(OpenOn(u)) + 1
      BY <2>1, <3>1, FS_AddElement
    <3>3. session'[u] = stack
      BY <1>1, <1>2, <2>3 DEF TypeOK
    <3> QED
      BY <1>6, <2>1, <2>3, <3>2, <3>3
  <2> QED
    BY <2>2, <2>3
<1>8. FramesOfTree'
  <2> SUFFICES ASSUME NEW u \in Threads, NEW i \in 1..Len(session'[u])
               PROVE  LET f == session'[u][i]
                      IN /\ ~f.marked
                         /\ status'[f.txn] \in {"open", "done"}
                         /\ element[f.txn] = owner[u]
                         /\ i = Len(session'[u]) <=> f.txn = owner[u]
    BY <1>2 DEF FramesOfTree
  <2>1. \A y \in Txns : status[y] \in {"open", "done"} => status'[y] \in {"open", "done"}
    BY <1>1, <1>2 DEF TypeOK
  <2>2. \A v \in Threads : \A j \in 1..Len(session[v]) :
          /\ session[v][j].txn \in Txns
          /\ ~session[v][j].marked
          /\ status'[session[v][j].txn] \in {"open", "done"}
          /\ element[session[v][j].txn] = owner[v]
          /\ j = Len(session[v]) <=> session[v][j].txn = owner[v]
    <3> TAKE v \in Threads
    <3> TAKE j \in 1..Len(session[v])
    <3>1. session[v] \in Seq(Frame)
      BY <1>1 DEF TypeOK
    <3>2. session[v][j] \in Frame
      BY <3>1
    <3>3. session[v][j].txn \in Txns
      BY <3>2 DEF Frame
    <3> QED
      BY <1>1, <2>1, <3>3 DEF FramesOfTree
  <2>3. CASE u # th
    <3>1. session'[u] = session[u]
      BY <1>1, <1>2, <2>3 DEF TypeOK
    <3> QED
      BY <2>2, <3>1
  <2>4. CASE u = th /\ i = 1
    <3>1. session'[u] = stack /\ session'[u][i] = frame
      BY <1>1, <1>2, <1>3, <1>6, <2>4 DEF TypeOK
    <3>2. status'[x] = "open"
      BY <1>1, <1>2 DEF TypeOK
    <3>3. x = owner[th] <=> session[th] = <<>>
      BY <1>1, <1>3 DEF Tree
    <3>4. i = Len(session'[u]) <=> session[th] = <<>>
      <4>1. Len(session'[u]) = Len(session[th]) + 1
        BY <1>6, <3>1
      <4> HIDE DEF th
      <4> QED
        BY <1>4, <2>4, <4>1
    <3>5. session'[u][i].txn = x /\ ~session'[u][i].marked
      BY <1>6, <3>1
    <3> QED
      BY <1>3, <2>4, <3>2, <3>3, <3>4, <3>5
  <2>5. CASE u = th /\ i # 1
    <3>1. session'[u] = stack
      BY <1>1, <1>2, <1>3, <2>5 DEF TypeOK
    <3>2. i \in 2..(Len(session[th]) + 1) /\ i - 1 \in 1..Len(session[th])
      BY <1>4, <1>6, <2>5, <3>1
    <3>3. session'[u][i] = session[th][i - 1]
      BY <1>6, <3>1, <3>2
    <3>4. i = Len(session'[u]) <=> i - 1 = Len(session[th])
      BY <1>4, <1>6, <3>1, <3>2
    <3> QED
      BY <1>3, <2>2, <2>5, <3>2, <3>3, <3>4
  <2> QED
    BY <2>3, <2>4, <2>5
<1> QED
  BY <1>7, <1>8 DEF StackInv

(* What is left of the frames when one is taken off a thread with more. *)
LEMMA InnerFrames ==
  ASSUME TypeOK, NEW x \in Txns, Th(x) \in Threads, NEW result, PopInner(x, result)
  PROVE  LET s == session[Th(x)]
             t == session'[Th(x)]
         IN /\ t \in Seq(Frame) /\ Len(t) = Len(s) - 1 /\ Len(s) \in Nat /\ Len(s) > 1
            /\ session' = [session EXCEPT ![Th(x)] = t]
            /\ \A i \in 1..Len(t) :
                 /\ i + 1 \in 1..Len(s)
                 /\ t[i].txn = s[i + 1].txn
                 /\ t[i].marked = s[i + 1].marked
                 /\ t[i].childFailed <=>
                      s[i + 1].childFailed \/ (i = 1 /\ ~EndsWell(x, result))
<1> DEFINE s == session[Th(x)]
           failed == ~EndsWell(x, result)
           t == PassOn(Tail(s), failed)
<1>1. s \in Seq(Frame) /\ Len(s) \in Nat /\ Len(s) > 1
  BY DEF TypeOK, PopInner
<1>2. failed \in BOOLEAN
  OBVIOUS
<1>3. session' = [session EXCEPT ![Th(x)] = t] /\ session'[Th(x)] = t
  BY DEF TypeOK, PopInner
<1> HIDE DEF failed
<1>4. /\ t \in Seq(Frame) /\ Len(t) = Len(s) - 1
      /\ \A i \in 1..Len(t) :
           /\ t[i].txn = s[i + 1].txn
           /\ t[i].marked = s[i + 1].marked
           /\ t[i].childFailed <=> s[i + 1].childFailed \/ (i = 1 /\ failed)
  BY <1>1, <1>2, PopFrame
<1>5. \A i \in 1..Len(t) : i + 1 \in 1..Len(s)
  <2> HIDE DEF s, t
  <2> QED
    BY <1>1, <1>4
<1> HIDE DEF s, t
<1>6. /\ t \in Seq(Frame) /\ Len(t) = Len(s) - 1 /\ Len(s) \in Nat /\ Len(s) > 1
      /\ session' = [session EXCEPT ![Th(x)] = t]
      /\ \A i \in 1..Len(t) :
           /\ i + 1 \in 1..Len(s)
           /\ t[i].txn = s[i + 1].txn
           /\ t[i].marked = s[i + 1].marked
           /\ t[i].childFailed <=> s[i + 1].childFailed \/ (i = 1 /\ failed)
  BY <1>1, <1>3, <1>4, <1>5
<1> QED
  BY <1>3, <1>6 DEF s, failed

(* endTransaction with more frames below removes one call and one frame,   *)
(* and passes a failure on.                                                *)
LEMMA StackInner ==
  ASSUME TreeInv, SessionsAndThreadsKept, StackInv, NEW x \in Txns,
         NEW result \in {"returned", "threw"}, PopInner(x, result)
  PROVE  StackInv'
<1> DEFINE s == session[Th(x)]
           t == session'[Th(x)]
<1>1. /\ TypeOK /\ Tree /\ CallInv /\ FramesExact /\ FramesOfTree
      /\ FramesHoldConnection
  BY DEF TreeInv, CallInv, StackInv, SessionsAndThreadsKept, FramesHoldConnection
<1>2. /\ status[x] = "open" /\ ActiveChildren(x) = {}
      /\ Finish(x, result)
      /\ UNCHANGED <<parent, element, thread>>
  BY DEF PopInner, BlockOver
<1>3. Th(x) \in Threads /\ owner[Th(x)] = element[x] /\ element[x] # x
  <2>1. ASSUME Len(session[Th(x)]) = 1 PROVE FALSE
    BY <2>1 DEF PopInner
  <2> QED
    BY <1>1, <1>2, <2>1, LastIsOutermost
<1>4. /\ t \in Seq(Frame) /\ Len(t) = Len(s) - 1 /\ Len(s) \in Nat
      /\ session' = [session EXCEPT ![Th(x)] = t]
      /\ \A i \in 1..Len(t) : /\ i + 1 \in 1..Len(s)
                              /\ t[i].txn = s[i + 1].txn
                              /\ t[i].marked = s[i + 1].marked
  BY <1>1, <1>3, InnerFrames
<1>5. status' = [status EXCEPT ![x] = "done"]
  BY <1>2 DEF Finish
<1> HIDE DEF t
<1>6. FramesExact'
  BY <1>1, <1>2, <1>4, <1>5, PopExact
<1>7. \A th \in Threads : session'[th] # <<>> => owner'[th] = owner[th]
  <2> SUFFICES ASSUME NEW th \in Threads, session'[th] # <<>>, th # Th(x)
               PROVE  FALSE
    BY <1>2, <1>3 DEF Finish
  <2>1. session[th] # <<>>
    BY <1>1, <1>4 DEF TypeOK
  <2>2. session[Th(x)] # <<>>
    BY <1>1, <1>2, OpenHasFrame
  <2> QED
    BY <1>1, <1>3, <2>1, <2>2 DEF FramesHoldConnection
<1>8. FramesOfTree'
  <2> SUFFICES ASSUME NEW th \in Threads, NEW i \in 1..Len(session'[th])
               PROVE  LET f == session'[th][i]
                      IN /\ ~f.marked
                         /\ status'[f.txn] \in {"open", "done"}
                         /\ element[f.txn] = owner'[th]
                         /\ i = Len(session'[th]) <=> f.txn = owner'[th]
    BY <1>2 DEF FramesOfTree
  <2>1. session'[th] # <<>>
    <3>1. session' \in [Threads -> Seq(Frame)]
      BY <1>1, <1>4 DEF TypeOK
    <3> QED
      BY <3>1
  <2>2. th = Th(x) /\ owner'[th] = owner[th]
    <3>1. th # Th(x) => session'[th] = session[th]
      BY <1>1, <1>4 DEF TypeOK
    <3>2. session[Th(x)] # <<>>
      BY <1>1, <1>2, OpenHasFrame
    <3> QED
      BY <1>1, <1>3, <1>7, <2>1, <3>1, <3>2 DEF FramesHoldConnection
  <2>3. session'[th] = t
    BY <2>2 DEF t
  <2>4. /\ i + 1 \in 1..Len(s)
        /\ t[i].txn = s[i + 1].txn /\ t[i].marked = s[i + 1].marked
    BY <1>4, <2>3
  <2>5. LET f == s[i + 1]
        IN /\ ~f.marked
           /\ status[f.txn] \in {"open", "done"}
           /\ element[f.txn] = owner[th]
           /\ i + 1 = Len(s) <=> f.txn = owner[th]
           /\ f.txn \in Txns
    <3>1. s[i + 1] \in Frame
      BY <1>1, <1>3, <2>4 DEF TypeOK
    <3>2. s[i + 1].txn \in Txns
      BY <3>1 DEF Frame
    <3> QED
      BY <1>1, <1>3, <2>2, <2>4, <3>2 DEF FramesOfTree
  <2>6. status'[t[i].txn] \in {"open", "done"}
    BY <1>1, <1>5, <2>4, <2>5 DEF TypeOK
  <2>7. i = Len(t) <=> i + 1 = Len(s)
    <3> HIDE DEF s
    <3> QED
      BY <1>4, <2>3
  <2> QED
    BY <2>2, <2>3, <2>4, <2>5, <2>6, <2>7
<1> QED
  BY <1>6, <1>8 DEF StackInv

(* endTransaction of the last frame: no other call of the thread is open. *)
LEMMA StackLast ==
  ASSUME TreeInv, SessionsAndThreadsKept, StackInv, NEW x \in Txns,
         \/ \E result \in {"returned", "threw"} : PopLast(x, result)
         \/ CommitFails(x)
  PROVE  StackInv'
<1>1. /\ TypeOK /\ Tree /\ CallInv /\ FramesExact /\ FramesOfTree
      /\ FramesHoldConnection
  BY DEF TreeInv, CallInv, StackInv, SessionsAndThreadsKept, FramesHoldConnection
<1>2. /\ status[x] = "open" /\ ActiveChildren(x) = {} /\ Len(session[Th(x)]) = 1
      /\ status' = [status EXCEPT ![x] = "done"]
      /\ session' = [session EXCEPT ![Th(x)] = <<>>]
      /\ UNCHANGED <<parent, element, thread>>
  BY DEF PopLast, CommitFails, BlockOver, Finish
<1>3. Th(x) \in Threads /\ connection = Th(x)
  BY <1>1, <1>2, LastIsOutermost
<1>4. <<>> \in Seq(Frame) /\ Len(<<>>) = 0
  BY EmptySeq
<1>5. FramesExact'
  <2>1. Len(<<>>) = Len(session[Th(x)]) - 1
    BY <1>2, <1>4
  <2> QED
    BY <1>1, <1>2, <1>4, <2>1, PopExact
<1>6. \A th \in Threads : session'[th] = <<>>
  BY <1>1, <1>2, <1>3 DEF TypeOK, FramesHoldConnection
<1>7. FramesOfTree'
  <2>1. \A th \in Threads : Len(session'[th]) = 0
    BY <1>4, <1>6
  <2> QED
    BY <2>1 DEF FramesOfTree
<1> QED
  BY <1>5, <1>7 DEF StackInv

(* No coroutine of a transaction is cancelled; everything else may be.     *)
NoCancellation == "cancel" \notin Usage

(* Without cancellation a thread has exactly the frames of the open calls  *)
(* of one tree (beginTransactionWithListener, endTransaction).             *)
THEOREM FramesMatchCalls ==
  ASSUME NoCancellation
  PROVE  Spec => []StackInv
<1>1. Init => StackInv
  <2> SUFFICES ASSUME Init PROVE StackInv
    OBVIOUS
  <2>1. \A th \in Threads : OpenOn(th) = {} /\ session[th] = <<>>
    BY DEF Init, OpenOn
  <2>2. Len(<<>>) = 0
    BY EmptySeq
  <2>3. Cardinality({}) = 0
    BY FS_EmptySet
  <2>4. FramesExact
    BY <2>1, <2>2, <2>3 DEF FramesExact
  <2>5. FramesOfTree
    BY <2>1, <2>2 DEF FramesOfTree
  <2> QED
    BY <2>4, <2>5 DEF StackInv
<1>2. TreeInv /\ SessionsAndThreadsKept /\ StackInv /\ [Next]_vars => StackInv'
  <2> SUFFICES ASSUME TreeInv, SessionsAndThreadsKept, StackInv, [Next]_vars
               PROVE  StackInv'
    OBVIOUS
  <2>1. ASSUME NEW x \in Txns,
               \/ Request(x)
               \/ \E th \in Threads : AcquireThread(x, th)
               \/ \E p \in Txns : Nest(x, p)
               \/ BeginFails(x)
        PROVE  StackInv'
    BY <2>1, StackStarts
  <2>2. ASSUME NEW x \in Txns, Begin(x)
        PROVE  StackInv'
    BY <2>2, StackBegin
  <2>3. ASSUME NEW x \in Txns, InBlock(x)
        PROVE  StackInv'
    <3>1. UNCHANGED <<status, element, thread, owner, session>>
      BY <2>3 DEF InBlock, WriteRow, Notify, Execute, QueueTrigger,
         QueueTriggersRacing, CancelWrite, database
    <3> QED
      BY <3>1 DEF StackInv, FramesExact, FramesOfTree, OpenOn, Th
  <2>4. ASSUME NEW x \in Txns, End(x)
        PROVE  StackInv'
    <3>1. CallInv /\ FramesOfTree
      BY DEF TreeInv, StackInv
    <3> QED
      BY <2>4, <3>1, EndShape, StackInner, StackLast
  <2>5. ASSUME NEW x \in Txns,
               \/ CancelBeforeBegin(x) \/ AbandonThread(x) \/ CompleteJob(x)
               \/ \E returned \in BOOLEAN : CancelInBlock(x, returned)
        PROVE  StackInv'
    BY <2>5, NoCancellation DEF NoCancellation, CancelBeforeBegin, AbandonThread,
       CompleteJob, CancelInBlock
  <2>6. CASE UNCHANGED vars
    BY <2>6 DEF vars, StackInv, FramesExact, FramesOfTree, OpenOn, Th
  <2> QED
    BY <2>1, <2>2, <2>3, <2>4, <2>5, <2>6 DEF Next
<1> QED
  BY <1>1, <1>2, CallTrees, ThreadsKept, PTL DEF Spec

-----------------------------------------------------------------------------
(* What becomes of the writes, when nothing is cancelled *)

(* A call that has not begun has done nothing yet, and one that has ended  *)
(* has nothing left to do.                                                 *)
NothingBefore ==
  \A y \in Txns :
    /\ status[y] \notin {"open", "done"} =>
         tables[y] = {} /\ ~commit[y] /\ y \notin members /\ fate[y] = "idle"
    /\ status[y] # "open" => inflight[y] = {}

(* What an open call has queued, or is to queue, is owed by the SQLite     *)
(* transaction in progress, and the listener of an outermost one has heard *)
(* nothing.                                                                *)
OpenQueuesDue ==
  \A y \in Txns : status[y] = "open" =>
    /\ y \in members
    /\ tables[y] \subseteq due /\ inflight[y] \subseteq due
    /\ parent[y] = NoTxn => ~commit[y]

(* The calls in the SQLite transaction belong to the tree whose thread     *)
(* holds the connection, and their fate is open until it ends.             *)
MembersOfTree ==
  /\ connection = NoThread => dirty = {} /\ due = {} /\ members = {}
  /\ connection # NoThread => owner[connection] \in members
  /\ \A y \in members : /\ element[y] = owner[connection]
                        /\ status[y] \in {"open", "done"}
                        /\ fate[y] = "idle"
  /\ \A y \in Txns : fate[y] # "idle" => status[element[y]] = "done"

(* A frame knows of a failure exactly when a nested call has failed: no    *)
(* failure is lost on its way to the last frame.                           *)
FailuresKnown ==
  \A th \in Threads : session[th] # <<>> =>
    ((\E i \in 1..Len(session[th]) : session[th][i].childFailed)
     <=> \E y \in members : status[y] = "done" /\ outcome[y] # "returned")

OutcomeInv ==
  /\ NothingBefore /\ OpenQueuesDue /\ MembersOfTree /\ FailuresKnown
  /\ NothingUnfounded /\ AllOrNothing

(* What the steps below have in common. *)
Settling == /\ TreeInv /\ SessionsAndThreadsKept /\ StackInv /\ OutcomeInv

(* Steps that leave the outermost calls that are over alone. *)
LEMMA SameOutcomes ==
  ASSUME AllOrNothing,
         \A r \in Txns : status'[r] = "done" /\ element'[r] = r /\ Begun(r)' =>
           /\ status[r] = "done" /\ element[r] = r /\ Begun(r)
           /\ \A y \in Txns : element'[y] = r /\ Begun(y)' <=> element[y] = r /\ Begun(y)
           /\ \A y \in Txns : element[y] = r /\ Begun(y) =>
                fate'[y] = fate[y] /\ outcome'[y] = outcome[y]
  PROVE  AllOrNothing'
<1> SUFFICES ASSUME NEW r \in Txns, status'[r] = "done", element'[r] = r, Begun(r)'
             PROVE  LET calls == {y \in Txns : element'[y] = r /\ Begun(y)'}
                    IN \/ \A y \in calls : fate'[y] = "committed" /\ outcome'[y] = "returned"
                       \/ /\ \A y \in calls : fate'[y] = "rolledBack"
                          /\ \E y \in calls : outcome'[y] # "returned"
  BY DEF AllOrNothing
<1> DEFINE calls == {y \in Txns : element[y] = r /\ Begun(y)}
<1>1. status[r] = "done" /\ r \in calls
  OBVIOUS
<1>2. {y \in Txns : element'[y] = r /\ Begun(y)'} = calls
  OBVIOUS
<1>3. \A y \in calls : fate'[y] = fate[y] /\ outcome'[y] = outcome[y]
  OBVIOUS
<1>4. \/ \A y \in calls : fate[y] = "committed" /\ outcome[y] = "returned"
      \/ /\ \A y \in calls : fate[y] = "rolledBack"
         /\ \E y \in calls : outcome[y] # "returned"
  BY <1>1 DEF AllOrNothing
<1> HIDE DEF calls
<1> QED
  BY <1>2, <1>3, <1>4

(* Calls that have not begun are not in the SQLite transaction, and one    *)
(* that fails to begin is not either.                                      *)
LEMMA OutcomeStarts ==
  ASSUME Settling, NEW x \in Txns,
         \/ Request(x)
         \/ \E th \in Threads : AcquireThread(x, th)
         \/ \E p \in Txns : Nest(x, p)
         \/ BeginFails(x)
  PROVE  OutcomeInv'
<1>1. /\ TypeOK /\ Tree /\ CallInv /\ FramesExact /\ FramesOfTree /\ ElementsHaveThreads
      /\ NothingBefore /\ OpenQueuesDue /\ MembersOfTree /\ FailuresKnown
      /\ NothingUnfounded /\ AllOrNothing
  BY DEF Settling, TreeInv, CallInv, StackInv, OutcomeInv
<1>2. /\ status[x] \in {"none", "waiting", "ready"}
      /\ UNCHANGED <<session, connection, dirty, due, members, fate, inflight, tables,
                     commit, unannounced, unfounded>>
  BY DEF Request, AcquireThread, Nest, BeginFails, database, notices
<1>3. /\ \A y \in Txns : y # x => /\ status'[y] = status[y] /\ outcome'[y] = outcome[y]
                                  /\ parent'[y] = parent[y] /\ element'[y] = element[y]
      /\ status'[x] \in {"waiting", "ready", "done"}
      /\ status'[x] # "done" => outcome'[x] = outcome[x]
  BY <1>1 DEF TypeOK, Request, AcquireThread, Nest, BeginFails, Finish
<1>4. x \notin members /\ fate[x] = "idle" /\ ~Begun(x)
  BY <1>1, <1>2 DEF NothingBefore, Begun
<1>5. \A y \in Txns : Begun(y)' <=> Begun(y)
  BY <1>2 DEF Begun
<1>6. NothingBefore'
  BY <1>1, <1>2, <1>3 DEF NothingBefore
<1>7. OpenQueuesDue'
  BY <1>1, <1>2, <1>3 DEF OpenQueuesDue
<1>8. MembersOfTree'
  <2>1. members # {} => /\ connection \in Threads /\ owner'[connection] = owner[connection]
    <3> SUFFICES ASSUME members # {}
                 PROVE  connection \in Threads /\ owner'[connection] = owner[connection]
      OBVIOUS
    <3>1. connection \in Threads
      BY <1>1 DEF MembersOfTree, TypeOK
    <3>2. PICK y \in members : owner[connection] = element[y]
      BY <1>1 DEF MembersOfTree
    <3>3. owner[connection] \in Txns
      BY <1>1, <3>2 DEF TypeOK
    <3>4. ASSUME NEW th \in Threads, AcquireThread(x, th)
          PROVE  owner'[connection] = owner[connection]
      BY <1>1, <3>1, <3>3, <3>4, TransactionAssumption DEF AcquireThread, TypeOK
    <3>5. CASE BeginFails(x)
      <4>1. status[x] = "ready" /\ \A th \in Threads : owner[th] # x => owner'[th] = owner[th]
        BY <3>5 DEF BeginFails, Finish
      <4>2. /\ Th(x) \in Threads
            /\ session[Th(x)] \in Seq(Frame)
        BY <1>1, <4>1 DEF ElementsHaveThreads, IsActive, TypeOK
      <4>3. session[Th(x)] # <<>> => ~Head(session[Th(x)]).marked
        BY <1>1, <4>2 DEF FramesOfTree
      <4>4. connection = NoThread
        BY <3>5, <4>3 DEF BeginFails
      <4> QED
        BY <3>1, <4>4, TransactionAssumption
    <3> QED
      BY <3>1, <3>4, <3>5 DEF Request, Nest
  <2>2. \A y \in members : /\ y # x /\ y \in Txns
                           /\ element'[y] = owner'[connection]
                           /\ status'[y] \in {"open", "done"}
                           /\ fate[y] = "idle"
    BY <1>1, <1>3, <1>4, <2>1 DEF MembersOfTree, TypeOK
  <2>3. connection # NoThread => owner'[connection] \in members
    BY <1>1, <2>1 DEF MembersOfTree
  <2>4. \A y \in Txns : fate[y] # "idle" => status'[element'[y]] = "done"
    <3> SUFFICES ASSUME NEW y \in Txns, fate[y] # "idle"
                 PROVE  status'[element'[y]] = "done"
      OBVIOUS
    <3>1. y # x /\ status[element[y]] = "done" /\ element[y] \in Txns
      BY <1>1, <1>4 DEF MembersOfTree, TypeOK
    <3> QED
      BY <1>2, <1>3, <3>1
  <2> QED
    BY <1>1, <1>2, <2>2, <2>3, <2>4 DEF MembersOfTree
<1>9. FailuresKnown'
  <2>1. \A y \in members : /\ status'[y] = "done" <=> status[y] = "done"
                           /\ outcome'[y] = outcome[y]
    BY <1>1, <1>3, <1>4 DEF TypeOK
  <2> QED
    BY <1>1, <1>2, <2>1 DEF FailuresKnown
<1>10. AllOrNothing'
  <2> SUFFICES ASSUME NEW r \in Txns, status'[r] = "done", element'[r] = r, Begun(r)'
               PROVE  /\ status[r] = "done" /\ element[r] = r /\ Begun(r)
                      /\ \A y \in Txns : element'[y] = r /\ Begun(y)'
                                         <=> element[y] = r /\ Begun(y)
                      /\ \A y \in Txns : element[y] = r /\ Begun(y) =>
                           fate'[y] = fate[y] /\ outcome'[y] = outcome[y]
    BY <1>1, SameOutcomes
  <2>1. r # x
    BY <1>4, <1>5
  <2>2. status[r] = "done" /\ element[r] = r /\ Begun(r)
    BY <1>3, <1>5, <2>1
  <2>3. \A y \in Txns : element'[y] = r /\ Begun(y)' <=> element[y] = r /\ Begun(y)
    BY <1>3, <1>4, <1>5
  <2>4. \A y \in Txns : Begun(y) => fate'[y] = fate[y] /\ outcome'[y] = outcome[y]
    BY <1>2, <1>3, <1>4
  <2> QED
    BY <2>2, <2>3, <2>4
<1> QED
  BY <1>1, <1>2, <1>6, <1>7, <1>8, <1>9, <1>10 DEF OutcomeInv, NothingUnfounded

(* A call that begins joins the SQLite transaction of its own tree, or     *)
(* starts one.                                                             *)
LEMMA OutcomeBegin ==
  ASSUME Settling, NEW x \in Txns, Begin(x)
  PROVE  OutcomeInv'
<1> DEFINE th == Th(x)
           frame == [txn |-> x, marked |-> FALSE, childFailed |-> FALSE]
           stack == <<frame>> \o session[th]
<1>1. /\ TypeOK /\ Tree /\ TreeInv /\ FramesExact /\ FramesHoldConnection
      /\ NothingBefore /\ OpenQueuesDue /\ MembersOfTree /\ FailuresKnown
      /\ NothingUnfounded /\ AllOrNothing
  BY DEF Settling, TreeInv, CallInv, StackInv, OutcomeInv, SessionsAndThreadsKept,
     FramesHoldConnection
<1>2. /\ status[x] = "ready"
      /\ session' = [session EXCEPT ![th] = stack]
      /\ session[th] = <<>> => connection = NoThread
      /\ connection' = th
      /\ members' = members \cup {x}
      /\ status'[x] = "open" /\ \A y \in Txns : y # x => status'[y] = status[y]
      /\ UNCHANGED <<outcome, parent, element, thread, owner, dirty, due, fate, inflight,
                     tables, commit, notices>>
  BY <1>1 DEF Begin, TypeOK
<1>3. th \in Threads /\ owner[th] = element[x]
  BY <1>1, <1>2, FirstIsOutermost
<1>4. /\ x \notin members /\ fate[x] = "idle"
      /\ tables[x] = {} /\ inflight[x] = {} /\ ~commit[x]
  BY <1>1, <1>2 DEF NothingBefore
<1>5. /\ frame \in Frame /\ ~frame.childFailed
      /\ session[th] \in Seq(Frame) /\ Len(session[th]) \in Nat
  <2>1. frame \in Frame /\ ~frame.childFailed
    BY DEF Frame
  <2>2. session[th] \in Seq(Frame) /\ Len(session[th]) \in Nat
    BY <1>1, <1>3 DEF TypeOK
  <2> QED
    BY <2>1, <2>2
<1> HIDE DEF frame
<1>6. /\ Len(stack) = Len(session[th]) + 1
      /\ stack[1] = frame
      /\ \A i \in 1..Len(session[th]) : stack[i + 1] = session[th][i]
      /\ \A i \in 2..(Len(session[th]) + 1) : stack[i] = session[th][i - 1]
  BY <1>5, PushFrame
<1> HIDE DEF stack
<1>7. connection = NoThread \/ connection = th
  BY <1>1, <1>2, <1>3 DEF FramesHoldConnection
<1>8. NothingBefore'
  BY <1>1, <1>2 DEF NothingBefore
<1>9. OpenQueuesDue'
  BY <1>1, <1>2, <1>4 DEF OpenQueuesDue
<1>10. MembersOfTree'
  <2>1. \A y \in members : /\ y \in Txns /\ y # x /\ element[y] = owner[th]
                           /\ status'[y] \in {"open", "done"} /\ fate[y] = "idle"
    BY <1>1, <1>2, <1>4, <1>7 DEF MembersOfTree, TypeOK
  <2>2. \A y \in Txns : fate[y] # "idle" => status'[element[y]] = "done"
    BY <1>1, <1>2 DEF MembersOfTree, TypeOK
  <2>3. th # NoThread
    BY <1>3, TransactionAssumption
  <2>4. owner[th] \in members'
    <3>1. CASE connection = th
      BY <1>1, <1>2, <2>3, <3>1 DEF MembersOfTree
    <3>2. CASE connection # th
      <4>1. session[th] = <<>>
        BY <1>1, <1>3, <3>2 DEF FramesHoldConnection
      <4>2. element[x] = x
        BY <1>1, <1>2, <4>1, FirstIsOutermost
      <4> QED
        BY <1>2, <1>3, <4>2
    <3> QED
      BY <3>1, <3>2
  <2> QED
    BY <1>2, <1>3, <1>4, <2>1, <2>2, <2>3, <2>4 DEF MembersOfTree
<1>11. FailuresKnown'
  <2> SUFFICES ASSUME NEW u \in Threads, session'[u] # <<>>
               PROVE  (\E i \in 1..Len(session'[u]) : session'[u][i].childFailed)
                      <=> \E y \in members' : status'[y] = "done" /\ outcome'[y] # "returned"
    BY DEF FailuresKnown
  <2>1. u = th /\ session'[u] = stack
    <3>1. u # th => session[u] # <<>>
      BY <1>1, <1>2 DEF TypeOK
    <3>2. u # th => connection = u
      BY <1>1, <3>1 DEF FramesHoldConnection
    <3> QED
      BY <1>1, <1>2, <1>3, <1>7, <3>2, TransactionAssumption DEF TypeOK
  <2>2. (\E i \in 1..Len(stack) : stack[i].childFailed)
        <=> \E i \in 1..Len(session[th]) : session[th][i].childFailed
    <3>1. ASSUME NEW i \in 1..Len(stack), stack[i].childFailed
          PROVE  \E j \in 1..Len(session[th]) : session[th][j].childFailed
      <4>1. i # 1
        BY <1>5, <1>6, <3>1
      <4>2. i \in 2..(Len(session[th]) + 1) /\ i - 1 \in 1..Len(session[th])
        BY <1>5, <1>6, <4>1
      <4> QED
        BY <1>6, <3>1, <4>2
    <3>2. ASSUME NEW i \in 1..Len(session[th]), session[th][i].childFailed
          PROVE  \E j \in 1..Len(stack) : stack[j].childFailed
      <4>1. i + 1 \in 1..Len(stack)
        BY <1>5, <1>6
      <4> QED
        BY <1>6, <3>2, <4>1
    <3> QED
      BY <3>1, <3>2
  <2>3. (\E y \in members' : status'[y] = "done" /\ outcome'[y] # "returned")
        <=> \E y \in members : status[y] = "done" /\ outcome[y] # "returned"
    BY <1>1, <1>2, <1>4 DEF TypeOK
  <2>4. CASE session[th] # <<>>
    BY <1>1, <1>3, <2>1, <2>2, <2>3, <2>4 DEF FailuresKnown
  <2>5. CASE session[th] = <<>>
    <3>1. ~\E i \in 1..Len(session[th]) : session[th][i].childFailed
      BY <2>5
    <3>2. members = {}
      BY <1>1, <1>2, <2>5 DEF MembersOfTree
    <3> QED
      BY <2>1, <2>2, <2>3, <3>1, <3>2
  <2> QED
    BY <2>4, <2>5
<1>12. AllOrNothing'
  <2>1. IsActive(element[x]) /\ element[x] \in Txns
    BY <1>1, <1>2, RootActive DEF IsActive, TypeOK
  <2>2. \A y \in Txns : y # x => (Begun(y)' <=> Begun(y))
    BY <1>2 DEF Begun
  <2> SUFFICES ASSUME NEW r \in Txns, status'[r] = "done", element'[r] = r, Begun(r)'
               PROVE  /\ status[r] = "done" /\ element[r] = r /\ Begun(r)
                      /\ \A y \in Txns : element'[y] = r /\ Begun(y)'
                                         <=> element[y] = r /\ Begun(y)
                      /\ \A y \in Txns : element[y] = r /\ Begun(y) =>
                           fate'[y] = fate[y] /\ outcome'[y] = outcome[y]
    BY <1>1, SameOutcomes
  <2>3. r # x /\ status[r] = "done"
    BY <1>2
  <2>4. element[x] # r
    BY <2>1, <2>3 DEF IsActive
  <2> QED
    BY <1>2, <2>2, <2>3, <2>4
<1> QED
  BY <1>1, <1>2, <1>8, <1>9, <1>10, <1>11, <1>12 DEF OutcomeInv, NothingUnfounded, notices

(* A block owes a notification before it queues it, so what is queued is   *)
(* owed; execute adds nothing to either.                                   *)
LEMMA OutcomeBlock ==
  ASSUME Settling, NEW x \in Txns, InBlock(x)
  PROVE  OutcomeInv'
<1>1. /\ TypeOK /\ TreeInv
      /\ NothingBefore /\ OpenQueuesDue /\ MembersOfTree /\ FailuresKnown
      /\ NothingUnfounded /\ AllOrNothing
  BY DEF Settling, TreeInv, CallInv, OutcomeInv
<1>2. UNCHANGED <<status, outcome, parent, element, thread, owner, session,
                  connection, members, fate, commit, notices>>
  BY DEF InBlock, WriteRow, Notify, Execute, QueueTrigger,
     QueueTriggersRacing, CancelWrite, database
<1>3. /\ status[x] = "open"
      /\ due \subseteq due'
      /\ tables'[x] \subseteq due' /\ inflight'[x] \subseteq due'
      /\ \A y \in Txns : y # x => tables'[y] = tables[y] /\ inflight'[y] = inflight[y]
  <2>1. inflight[x] # {} => status[x] = "open"
    BY <1>1 DEF NothingBefore
  <2>2. status[x] = "open" => tables[x] \subseteq due /\ inflight[x] \subseteq due
    BY <1>1 DEF OpenQueuesDue
  <2>3. ASSUME NEW t \in Tables, WriteRow(x, t)
        PROVE  <1>3!:
    BY <1>1, <2>2, <2>3 DEF TypeOK, WriteRow
  <2>4. ASSUME NEW t \in Tables, QueueTrigger(x, t)
        PROVE  <1>3!:
    BY <1>1, <2>1, <2>2, <2>4 DEF TypeOK, QueueTrigger, database
  <2>5. ASSUME NEW t \in Tables, NEW u \in Tables, QueueTriggersRacing(x, t, u)
        PROVE  <1>3!:
    BY <1>1, <2>1, <2>2, <2>5 DEF TypeOK, QueueTriggersRacing, database
  <2>6. ASSUME NEW t \in Tables, CancelWrite(x, t)
        PROVE  <1>3!:
    BY <1>1, <2>1, <2>2, <2>6 DEF TypeOK, CancelWrite, database
  <2>7. ASSUME NEW t \in Tables, Notify(x, t)
        PROVE  <1>3!:
    BY <1>1, <2>2, <2>7 DEF TypeOK, Notify
  <2>8. ASSUME NEW t \in Tables, Execute(x, t)
        PROVE  <1>3!:
    BY <1>1, <2>2, <2>8 DEF TypeOK, Execute
  <2> QED
    BY <2>3, <2>4, <2>5, <2>6, <2>7, <2>8 DEF InBlock
<1>4. NothingBefore' /\ OpenQueuesDue'
  BY <1>1, <1>2, <1>3 DEF NothingBefore, OpenQueuesDue
<1>5. MembersOfTree'
  <2>1. connection # NoThread
    <3>1. x \in members
      BY <1>1, <1>3 DEF OpenQueuesDue
    <3> QED
      BY <1>1, <3>1 DEF MembersOfTree
  <2> QED
    BY <1>1, <1>2, <2>1 DEF MembersOfTree
<1>6. FailuresKnown' /\ NothingUnfounded' /\ AllOrNothing'
  BY <1>1, <1>2 DEF FailuresKnown, NothingUnfounded, AllOrNothing, Begun, notices
<1> QED
  BY <1>4, <1>5, <1>6 DEF OutcomeInv

(* The failures the frames know of, before and after one is popped. *)
LEMMA FailurePassedOn ==
  ASSUME TypeOK, NEW x \in Txns, Th(x) \in Threads, NEW result, PopInner(x, result)
  PROVE  (\E i \in 1..Len(session'[Th(x)]) : session'[Th(x)][i].childFailed)
         <=> \/ \E i \in 1..Len(session[Th(x)]) : session[Th(x)][i].childFailed
             \/ result # "returned"
<1> DEFINE s == session[Th(x)]
           t == session'[Th(x)]
           failed == ~EndsWell(x, result)
<1>1. /\ Len(t) = Len(s) - 1 /\ Len(s) \in Nat /\ Len(s) > 1
      /\ \A i \in 1..Len(t) :
           /\ i + 1 \in 1..Len(s)
           /\ t[i].childFailed <=> s[i + 1].childFailed \/ (i = 1 /\ failed)
  BY InnerFrames
<1>2. failed <=> s[1].childFailed \/ result # "returned"
  <2>1. session[Th(x)] \in Seq(Frame)
    BY DEF TypeOK
  <2>2. Head(session[Th(x)]) = session[Th(x)][1]
    BY <1>1, <2>1
  <2> QED
    BY <2>2 DEF EndsWell
<1>3. 1 \in 1..Len(s) /\ 1 \in 1..Len(t)
  <2> HIDE DEF s, t
  <2> QED
    BY <1>1
<1> HIDE DEF s, t, failed
<1>4. ASSUME NEW i \in 1..Len(t), t[i].childFailed
      PROVE  (\E j \in 1..Len(s) : s[j].childFailed) \/ result # "returned"
  <2>1. CASE s[i + 1].childFailed
    BY <1>1, <2>1
  <2>2. CASE failed
    BY <1>2, <1>3, <2>2
  <2> QED
    BY <1>1, <1>4, <2>1, <2>2
<1>5. ASSUME (\E j \in 1..Len(s) : s[j].childFailed) \/ result # "returned"
      PROVE  \E i \in 1..Len(t) : t[i].childFailed
  <2>1. CASE failed
    BY <1>1, <1>3, <2>1
  <2>2. CASE ~failed
    <3>1. PICK j \in 1..Len(s) : s[j].childFailed
      BY <1>2, <1>5, <2>2
    <3>2. j # 1
      BY <1>2, <2>2, <3>1
    <3>3. j - 1 \in 1..Len(t) /\ (j - 1) + 1 = j
      BY <1>1, <3>2
    <3> QED
      BY <1>1, <3>1, <3>3
  <2> QED
    BY <2>1, <2>2
<1> QED
  BY <1>4, <1>5 DEF s, t

(* A nested call that fails leaves the mark of its failure in the frames   *)
(* below.                                                                  *)
LEMMA OutcomeInner ==
  ASSUME Settling, NEW x \in Txns, NEW result \in {"returned", "threw"},
         PopInner(x, result)
  PROVE  OutcomeInv'
<1>1. /\ TypeOK /\ Tree /\ TreeInv /\ FramesExact /\ FramesOfTree /\ FramesHoldConnection
      /\ NothingBefore /\ OpenQueuesDue /\ MembersOfTree /\ FailuresKnown
      /\ NothingUnfounded /\ AllOrNothing
  BY DEF Settling, TreeInv, CallInv, StackInv, OutcomeInv, SessionsAndThreadsKept,
     FramesHoldConnection
<1>2. /\ status[x] = "open" /\ ActiveChildren(x) = {} /\ inflight[x] = {}
      /\ Len(session[Th(x)]) > 1
      /\ UNCHANGED <<parent, element, thread, connection, dirty, due, members, fate,
                     inflight>>
  BY DEF PopInner, BlockOver
<1>3. /\ status'[x] = "done" /\ \A y \in Txns : y # x => status'[y] = status[y]
      /\ outcome'[x] = result /\ \A y \in Txns : y # x => outcome'[y] = outcome[y]
      /\ \A th \in Threads : owner[th] # x => owner'[th] = owner[th]
  BY <1>1 DEF TypeOK, PopInner, Finish
<1>4. /\ Th(x) \in Threads /\ owner[Th(x)] = element[x] /\ connection = Th(x)
      /\ element[x] # x /\ parent[x] # NoTxn
  <2>1. ASSUME Len(session[Th(x)]) = 1 PROVE FALSE
    BY <1>2, <2>1
  <2> QED
    BY <1>1, <1>2, <2>1, LastIsOutermost
<1>5. parent[x] \in Txns /\ status[parent[x]] = "open" /\ parent[x] # x
  BY <1>1, <1>2, <1>4 DEF Tree, TypeOK, IsActive, ActiveChildren
<1> DEFINE f == Head(session[Th(x)]).txn
<1>6. f \in Txns /\ status[f] \in {"open", "done"} /\ f # owner[Th(x)]
  <2>1. session[Th(x)] \in Seq(Frame)
    BY <1>1, <1>4 DEF TypeOK
  <2>2. /\ 1 \in 1..Len(session[Th(x)]) /\ session[Th(x)][1] \in Frame
        /\ Head(session[Th(x)]) = session[Th(x)][1]
    BY <1>2, <2>1
  <2>3. ASSUME Len(session[Th(x)]) = 1 PROVE FALSE
    BY <1>2, <2>3
  <2>4. /\ status[session[Th(x)][1].txn] \in {"open", "done"}
        /\ 1 = Len(session[Th(x)]) <=> session[Th(x)][1].txn = owner[Th(x)]
    BY <1>1, <1>4, <2>2 DEF FramesOfTree
  <2>5. session[Th(x)][1].txn \in Txns
    BY <2>2 DEF Frame
  <2> QED
    BY <2>2, <2>3, <2>4, <2>5
<1>7. \A y \in Txns : y # f => commit'[y] = commit[y]
  BY <1>1, <1>6 DEF PopInner, TypeOK
<1>8. /\ \A y \in Txns : y # parent[x] => tables'[y] = tables[y]
      /\ tables'[parent[x]] \subseteq tables[parent[x]] \cup tables[x]
      /\ unfounded' = unfounded
  <2>1. SendTableTrigger(x, {})
    BY DEF PopInner
  <2> QED
    BY <1>1, <1>4, <1>5, <2>1 DEF SendTableTrigger, TypeOK
<1> HIDE DEF f
<1>9. NothingBefore'
  BY <1>1, <1>2, <1>3, <1>5, <1>6, <1>7, <1>8 DEF NothingBefore
<1>10. OpenQueuesDue'
  <2> SUFFICES ASSUME NEW y \in Txns, status'[y] = "open"
               PROVE  /\ y \in members
                      /\ tables'[y] \subseteq due /\ inflight[y] \subseteq due
                      /\ parent[y] = NoTxn => ~commit'[y]
    BY <1>2 DEF OpenQueuesDue
  <2>1. status[y] = "open" /\ y # x
    BY <1>3
  <2>2. tables[x] \subseteq due
    BY <1>1, <1>2 DEF OpenQueuesDue
  <2>3. /\ y \in members /\ tables[y] \subseteq due /\ inflight[y] \subseteq due
        /\ parent[y] = NoTxn => ~commit[y]
    BY <1>1, <2>1 DEF OpenQueuesDue
  <2>4. tables'[y] \subseteq due
    BY <1>8, <2>2, <2>3
  <2>5. parent[y] = NoTxn => y # f
    <3>1. element[y] = owner[Th(x)]
      BY <1>1, <1>4, <2>3 DEF MembersOfTree
    <3> QED
      BY <1>1, <1>6, <3>1 DEF Tree
  <2> QED
    BY <1>7, <2>3, <2>4, <2>5
<1>11. MembersOfTree'
  <2>1. owner'[connection] = owner[connection]
    BY <1>3, <1>4
  <2> QED
    BY <1>1, <1>2, <1>3, <1>4, <2>1 DEF MembersOfTree, TypeOK
<1>12. FailuresKnown'
  <2> SUFFICES ASSUME NEW th \in Threads, session'[th] # <<>>
               PROVE  (\E i \in 1..Len(session'[th]) : session'[th][i].childFailed)
                      <=> \E y \in members : status'[y] = "done" /\ outcome'[y] # "returned"
    BY <1>2 DEF FailuresKnown
  <2>1. session[Th(x)] # <<>>
    BY <1>1, <1>4 DEF FramesHoldConnection
  <2>2. th = Th(x)
    <3>1. th # Th(x) => session'[th] = session[th]
      BY <1>1 DEF TypeOK, PopInner
    <3> QED
      BY <1>1, <1>4, <3>1 DEF FramesHoldConnection
  <2>3. (\E i \in 1..Len(session[Th(x)]) : session[Th(x)][i].childFailed)
        <=> \E y \in members : status[y] = "done" /\ outcome[y] # "returned"
    BY <1>1, <1>4, <2>1 DEF FailuresKnown
  <2>4. x \in members /\ members \subseteq Txns
    BY <1>1, <1>2 DEF OpenQueuesDue, TypeOK
  <2>5. (\E y \in members : status'[y] = "done" /\ outcome'[y] # "returned")
        <=> \/ \E y \in members : status[y] = "done" /\ outcome[y] # "returned"
            \/ result # "returned"
    BY <1>2, <1>3, <2>4
  <2> QED
    BY <1>1, <1>4, <2>2, <2>3, <2>5, FailurePassedOn
<1>13. AllOrNothing'
  <2>1. IsActive(element[x]) /\ element[x] \in Txns /\ element[element[x]] = element[x]
    BY <1>1, <1>2, RootActive DEF IsActive, TypeOK
  <2>2. \A y \in Txns : Begun(y)' <=> Begun(y)
    BY <1>2 DEF Begun
  <2> SUFFICES ASSUME NEW r \in Txns, status'[r] = "done", element'[r] = r, Begun(r)'
               PROVE  /\ status[r] = "done" /\ element[r] = r /\ Begun(r)
                      /\ \A y \in Txns : element'[y] = r /\ Begun(y)'
                                         <=> element[y] = r /\ Begun(y)
                      /\ \A y \in Txns : element[y] = r /\ Begun(y) =>
                           fate'[y] = fate[y] /\ outcome'[y] = outcome[y]
    BY <1>1, SameOutcomes
  <2>3. r # x /\ status[r] = "done"
    BY <1>2, <1>3, <1>4
  <2>4. element[x] # r
    BY <2>1, <2>3 DEF IsActive
  <2> QED
    BY <1>2, <1>3, <2>2, <2>3, <2>4
<1> QED
  BY <1>1, <1>8, <1>9, <1>10, <1>11, <1>12, <1>13 DEF OutcomeInv, NothingUnfounded

(* The SQLite transaction ends with its outermost call. *)
LEMMA OutcomeLast ==
  ASSUME Settling, NEW x \in Txns, NEW result \in {"returned", "threw"},
         \/ PopLast(x, result)
         \/ CommitFails(x) /\ result = "threw"
  PROVE  OutcomeInv'
<1> DEFINE ok == EndsWell(x, result)
<1>1. /\ TypeOK /\ Tree /\ TreeInv /\ FramesExact /\ FramesOfTree /\ FramesHoldConnection
      /\ NothingBefore /\ OpenQueuesDue /\ MembersOfTree /\ FailuresKnown
      /\ NothingUnfounded /\ AllOrNothing
  BY DEF Settling, TreeInv, CallInv, StackInv, OutcomeInv, SessionsAndThreadsKept,
     FramesHoldConnection
<1>2. /\ status[x] = "open" /\ ActiveChildren(x) = {} /\ inflight[x] = {}
      /\ Len(session[Th(x)]) = 1
      /\ session' = [session EXCEPT ![Th(x)] = <<>>]
      /\ connection' = NoThread /\ dirty' = {} /\ due' = {} /\ members' = {}
      /\ UNCHANGED <<parent, element, thread, inflight>>
  BY DEF PopLast, CommitFails, BlockOver
<1>3. /\ status'[x] = "done" /\ \A y \in Txns : y # x => status'[y] = status[y]
      /\ outcome'[x] = result /\ \A y \in Txns : y # x => outcome'[y] = outcome[y]
  BY <1>1 DEF TypeOK, PopLast, CommitFails, Finish
<1>4. /\ Th(x) \in Threads /\ owner[Th(x)] = x /\ connection = Th(x)
      /\ element[x] = x /\ parent[x] = NoTxn
      /\ \A y \in Txns : status[y] = "open" => y = x
  BY <1>1, <1>2, LastIsOutermost
<1> DEFINE f == Head(session[Th(x)])
<1>5. f = session[Th(x)][1] /\ 1 \in 1..Len(session[Th(x)]) /\ f.txn = x
  <2>1. session[Th(x)] \in Seq(Frame)
    BY <1>1, <1>4 DEF TypeOK
  <2>2. f = session[Th(x)][1] /\ 1 \in 1..Len(session[Th(x)])
    BY <1>2, <2>1
  <2> QED
    BY <1>1, <1>2, <1>4, <2>2 DEF FramesOfTree
<1>6. \A y \in Txns : y # x => commit'[y] = commit[y]
  BY <1>1, <1>5 DEF PopLast, CommitFails, TypeOK
<1>7. tables' = tables
  BY <1>4 DEF PopLast, CommitFails, SendTableTrigger
<1>8. ok => PopLast(x, result) /\ result = "returned"
  BY DEF EndsWell
<1>9. unfounded' = {}
  <2>1. unfounded = {}
    BY <1>1 DEF NothingUnfounded
  <2>2. CASE PopLast(x, result)
    <3>1. commit'[x] <=> commit[x] \/ ok
      BY <1>1, <1>5, <2>2 DEF PopLast, TypeOK
    <3>2. ~commit[x] /\ tables[x] \subseteq due
      BY <1>1, <1>2, <1>4 DEF OpenQueuesDue
    <3>3. SendTableTrigger(x, IF ok THEN due ELSE {})
      BY <2>2 DEF PopLast
    <3> HIDE DEF ok
    <3>4. unfounded' = unfounded \cup ((IF commit'[x] /\ parent[x] = NoTxn
                                           THEN tables[x] ELSE {})
                                        \ (IF ok THEN due ELSE {}))
      BY <3>3 DEF SendTableTrigger
    <3>5. CASE ok
      BY <2>1, <3>2, <3>4, <3>5
    <3>6. CASE ~ok
      BY <2>1, <3>1, <3>2, <3>4, <3>6
    <3> QED
      BY <3>5, <3>6
  <2>3. CASE CommitFails(x)
    BY <2>1, <2>3 DEF CommitFails, notices
  <2> QED
    BY <2>2, <2>3
<1>10. \A y \in Txns : fate'[y] = IF y \notin members THEN fate[y]
                                  ELSE IF ok THEN "committed" ELSE "rolledBack"
  <2>1. CASE PopLast(x, result)
    BY <2>1 DEF PopLast
  <2>2. CASE CommitFails(x) /\ result = "threw"
    BY <2>2 DEF CommitFails, EndsWell
  <2> QED
    BY <2>1, <2>2
<1>11. ok <=> /\ result = "returned"
              /\ \A y \in members : status[y] = "done" => outcome[y] = "returned"
  <2>1. f.childFailed <=> \E i \in 1..Len(session[Th(x)]) : session[Th(x)][i].childFailed
    BY <1>2, <1>5
  <2>2. session[Th(x)] # <<>>
    BY <1>1, <1>4 DEF FramesHoldConnection
  <2>3. f.childFailed <=> \E y \in members : status[y] = "done" /\ outcome[y] # "returned"
    BY <1>1, <1>4, <2>1, <2>2 DEF FailuresKnown
  <2> QED
    BY <2>3 DEF EndsWell
<1> HIDE DEF ok, f
<1>12. NothingBefore'
  <2>1. \A y \in Txns : status[y] \notin {"open", "done"} => y \notin members
    BY <1>1 DEF NothingBefore
  <2> QED
    BY <1>1, <1>2, <1>3, <1>6, <1>7, <1>10, <2>1 DEF NothingBefore
<1>13. OpenQueuesDue'
  BY <1>3, <1>4 DEF OpenQueuesDue
<1>14. MembersOfTree'
  <2>1. \A y \in Txns : fate'[y] # "idle" => status'[element[y]] = "done"
    <3> SUFFICES ASSUME NEW y \in Txns, fate'[y] # "idle"
                 PROVE  status'[element[y]] = "done"
      OBVIOUS
    <3>1. CASE y \in members
      BY <1>1, <1>3, <1>4, <3>1 DEF MembersOfTree
    <3>2. CASE y \notin members
      <4>1. status[element[y]] = "done" /\ element[y] \in Txns
        BY <1>1, <1>10, <3>2 DEF MembersOfTree, TypeOK
      <4> QED
        BY <1>2, <1>3, <4>1
    <3> QED
      BY <3>1, <3>2
  <2> QED
    BY <1>2, <2>1 DEF MembersOfTree
<1>15. FailuresKnown'
  <2>1. \A th \in Threads : session'[th] = <<>>
    BY <1>1, <1>2, <1>4 DEF TypeOK, FramesHoldConnection
  <2> QED
    BY <2>1 DEF FailuresKnown
<1>16. AllOrNothing'
  <2>1. \A y \in Txns : Begun(y)' <=> Begun(y)
    BY <1>2, <1>10 DEF Begun
  <2>2. \A y \in members : element[y] = x /\ fate[y] = "idle" /\ y \in Txns
    BY <1>1, <1>4 DEF MembersOfTree, TypeOK
  <2>3. \A y \in Txns : element[y] = x /\ Begun(y) => y \in members
    BY <1>1, <1>2 DEF MembersOfTree, Begun
  <2>4. \A y \in members : y # x => status[y] = "done"
    BY <1>1, <1>4, <2>2 DEF MembersOfTree
  <2>5. x \in members
    BY <1>1, <1>2 DEF OpenQueuesDue
  <2> SUFFICES ASSUME NEW r \in Txns, status'[r] = "done", element[r] = r, Begun(r)
               PROVE  LET calls == {y \in Txns : element[y] = r /\ Begun(y)}
                      IN \/ \A y \in calls : fate'[y] = "committed" /\ outcome'[y] = "returned"
                         \/ /\ \A y \in calls : fate'[y] = "rolledBack"
                            /\ \E y \in calls : outcome'[y] # "returned"
    BY <1>2, <2>1 DEF AllOrNothing
  <2> DEFINE calls == {y \in Txns : element[y] = r /\ Begun(y)}
  <2>6. CASE r = x
    <3>1. calls = members
      BY <2>2, <2>3, <2>6 DEF Begun
    <3>2. CASE ok
      <4>1. \A y \in members : fate'[y] = "committed" /\ outcome'[y] = "returned"
        BY <1>3, <1>10, <1>11, <2>2, <2>4, <3>2
      <4> QED
        BY <3>1, <4>1
    <3>3. CASE ~ok
      <4>1. \A y \in members : fate'[y] = "rolledBack"
        BY <1>10, <2>2, <3>3
      <4>2. \E y \in members : outcome'[y] # "returned"
        BY <1>2, <1>3, <1>11, <2>2, <2>5, <3>3
      <4> QED
        BY <3>1, <4>1, <4>2
    <3> QED
      BY <3>2, <3>3
  <2>7. CASE r # x
    <3>1. \A y \in calls : fate'[y] = fate[y] /\ outcome'[y] = outcome[y]
      BY <1>3, <1>4, <1>10, <2>2, <2>7
    <3>2. status[r] = "done" /\ r \in calls
      BY <1>3, <2>7
    <3>3. \/ \A y \in calls : fate[y] = "committed" /\ outcome[y] = "returned"
          \/ /\ \A y \in calls : fate[y] = "rolledBack"
             /\ \E y \in calls : outcome[y] # "returned"
      BY <1>1, <3>2 DEF AllOrNothing
    <3> HIDE DEF calls
    <3>4. \/ \A y \in calls : fate'[y] = "committed" /\ outcome'[y] = "returned"
          \/ /\ \A y \in calls : fate'[y] = "rolledBack"
             /\ \E y \in calls : outcome'[y] # "returned"
      BY <3>1, <3>3
    <3> QED
      BY <3>4 DEF calls
  <2> QED
    BY <2>6, <2>7
<1> QED
  BY <1>9, <1>12, <1>13, <1>14, <1>15, <1>16 DEF OutcomeInv, NothingUnfounded

-----------------------------------------------------------------------------
(* Nothing cancelled, whatever is nested, started concurrently or written  *)
(* in parallel: the account of the SQLite transaction in progress.         *)
THEOREM OutcomesInvariant ==
  ASSUME NoCancellation
  PROVE  Spec => []OutcomeInv
<1>1. Init => OutcomeInv
  <2> SUFFICES ASSUME Init PROVE OutcomeInv
    OBVIOUS
  <2>1. NothingBefore /\ OpenQueuesDue /\ MembersOfTree
    BY DEF Init, NothingBefore, OpenQueuesDue, MembersOfTree
  <2>2. FailuresKnown /\ NothingUnfounded /\ AllOrNothing
    BY DEF Init, FailuresKnown, NothingUnfounded, AllOrNothing, Begun
  <2> QED
    BY <2>1, <2>2 DEF OutcomeInv
<1>2. TreeInv /\ SessionsAndThreadsKept /\ StackInv /\ OutcomeInv /\ [Next]_vars
      => OutcomeInv'
  <2> SUFFICES ASSUME Settling, [Next]_vars PROVE OutcomeInv'
    BY DEF Settling
  <2>1. ASSUME NEW x \in Txns,
               \/ Request(x)
               \/ \E th \in Threads : AcquireThread(x, th)
               \/ \E p \in Txns : Nest(x, p)
               \/ BeginFails(x)
        PROVE  OutcomeInv'
    BY <2>1, OutcomeStarts
  <2>2. ASSUME NEW x \in Txns, Begin(x)
        PROVE  OutcomeInv'
    BY <2>2, OutcomeBegin
  <2>3. ASSUME NEW x \in Txns, InBlock(x)
        PROVE  OutcomeInv'
    BY <2>3, OutcomeBlock
  <2>4. ASSUME NEW x \in Txns, End(x)
        PROVE  OutcomeInv'
    <3>1. CallInv /\ FramesOfTree
      BY DEF Settling, TreeInv, StackInv
    <3>2. CASE CommitFails(x)
      <4>1. "threw" \in {"returned", "threw"}
        OBVIOUS
      <4> QED
        BY <3>2, <4>1, OutcomeLast
    <3> QED
      BY <2>4, <3>1, <3>2, EndShape, OutcomeInner, OutcomeLast
  <2>5. ASSUME NEW x \in Txns,
               \/ CancelBeforeBegin(x) \/ AbandonThread(x) \/ CompleteJob(x)
               \/ \E returned \in BOOLEAN : CancelInBlock(x, returned)
        PROVE  OutcomeInv'
    BY <2>5, NoCancellation DEF NoCancellation, CancelBeforeBegin, AbandonThread,
       CompleteJob, CancelInBlock
  <2>6. CASE UNCHANGED vars
    BY <2>6 DEF vars, Settling, OutcomeInv, NothingBefore, OpenQueuesDue, MembersOfTree,
       FailuresKnown, NothingUnfounded, AllOrNothing, Begun
  <2> QED
    BY <2>1, <2>2, <2>3, <2>4, <2>5, <2>6 DEF Next
<1> QED
  BY <1>1, <1>2, CallTrees, ThreadsKept, FramesMatchCalls, PTL DEF Spec

(* The calls in the SQLite transaction in progress are one tree's, the one *)
(* whose thread holds the connection (withTransaction, beginTransaction).  *)
THEOREM OneAtATime ==
  ASSUME NoCancellation
  PROVE  Spec => []OneTransactionAtATime
<1>1. OutcomeInv => OneTransactionAtATime
  BY DEF OutcomeInv, MembersOfTree, OneTransactionAtATime
<1> QED
  BY <1>1, OutcomesInvariant, PTL

(* No table is announced before, or without, the COMMIT of its changes     *)
(* (sendTableTrigger after endTransaction).                                *)
THEOREM NothingAnnouncedUnfounded ==
  ASSUME NoCancellation
  PROVE  Spec => []NothingUnfounded
<1>1. OutcomeInv => NothingUnfounded
  BY DEF OutcomeInv
<1> QED
  BY <1>1, OutcomesInvariant, PTL

(* One call that fails rolls back the whole tree, and if none does all of  *)
(* it is committed (withTransaction's KDoc).                               *)
THEOREM TreesAreAtomic ==
  ASSUME NoCancellation
  PROVE  Spec => []AllOrNothing
<1>1. OutcomeInv => AllOrNothing
  BY DEF OutcomeInv
<1> QED
  BY <1>1, OutcomesInvariant, PTL

-----------------------------------------------------------------------------
(* Deadlock freedom, when nothing is cancelled *)

(* What each of the fair actions of a call waits for: a thread that is     *)
(* free; the connection, or a frame of the own thread to put one more on;  *)
(* a write of the block to be queued; the block to be over.  With a frame  *)
(* on the thread Throw is possible as soon as the block is over.           *)
CanGetThread(x) == status[x] = "waiting" /\ \E th \in Threads : owner[th] = NoTxn
CanBegin(x) ==
  /\ status[x] = "ready"
  /\ session[Th(x)] = <<>> => connection = NoThread
CanQueue(x) == status[x] = "open" /\ \E t \in Tables : t \in inflight[x]
CanEnd(x) == BlockOver(x) /\ session[Th(x)] # <<>>

CanGoOn(x) == CanGetThread(x) \/ CanBegin(x) \/ CanQueue(x) \/ CanEnd(x)

NoDeadlock ==
  (\E x \in Txns : status[x] \in {"waiting", "ready", "open"})
     => \E x \in Txns : CanGoOn(x)

(* Some open call of a thread that has any has no open call nested in it:  *)
(* otherwise `parent` would map the nested ones onto all of them, so all   *)
(* would be nested in one another.                                         *)
LEMMA InnermostOpen ==
  ASSUME Acyclic, NEW th \in Threads, IsFiniteSet(OpenOn(th)), OpenOn(th) # {}
  PROVE  \E x \in OpenOn(th) : \A y \in OpenOn(th) : parent[y] # x
<1> SUFFICES ASSUME \A x \in OpenOn(th) : \E y \in OpenOn(th) : parent[y] = x
             PROVE  FALSE
  OBVIOUS
<1> DEFINE S == OpenOn(th)
           N == {y \in S : parent[y] \in S}
           f == [y \in N |-> parent[y]]
<1>1. f \in [N -> S] /\ \A x \in S : \E y \in N : f[y] = x
  OBVIOUS
<1>2. f \in Surjection(N, S)
  <2> HIDE DEF f, N, S
  <2> QED
    BY <1>1, Fun_IsSurj
<1>3. N \in SUBSET S
  OBVIOUS
<1>4. S \in SUBSET Txns
  BY DEF OpenOn
<1>5. N = S
  <2> HIDE DEF f, N
  <2>1. IsFiniteSet(N) /\ Cardinality(N) <= Cardinality(S)
    BY <1>3, FS_Subset
  <2>2. Cardinality(S) <= Cardinality(N)
    BY <1>2, <2>1, FS_Surjection
  <2>3. Cardinality(S) \in Nat /\ Cardinality(N) \in Nat
    BY <2>1, FS_CardinalityType
  <2>4. Cardinality(S) = Cardinality(N)
    BY <2>1, <2>2, <2>3
  <2> QED
    BY <1>3, <2>4, FS_Subset
<1>6. \A y \in S : parent[y] \in S
  BY <1>5
<1> QED
  BY <1>4, <1>6 DEF Acyclic

(* The thread that holds the connection can always go on: with a call that *)
(* waits to begin on it, or with an innermost open one.                    *)
LEMMA HolderGoesOn ==
  ASSUME TreeInv, FramesHoldConnection, FramesExact, connection # NoThread
  PROVE  \E x \in Txns : CanGoOn(x)
<1>1. connection \in Threads
  BY DEF TreeInv, CallInv, TypeOK
<1>2. PICK th \in Threads : th = connection
  BY <1>1
<1>3. session[th] # <<>> /\ session[th] \in Seq(Frame)
  BY <1>2 DEF FramesHoldConnection, TreeInv, CallInv, TypeOK
<1>4. IsFiniteSet(OpenOn(th)) /\ OpenOn(th) # {}
  <2>1. IsFiniteSet(OpenOn(th)) /\ Cardinality(OpenOn(th)) = Len(session[th])
    BY DEF TreeInv, CallInv, FramesSuffice, FramesExact
  <2>2. Len(session[th]) # 0
    BY <1>3
  <2> QED
    BY <2>1, <2>2, FS_EmptySet
<1>5. CASE \E y \in Txns : status[y] = "ready" /\ Th(y) = th
  BY <1>3, <1>5 DEF CanGoOn, CanBegin
<1>6. CASE \A y \in Txns : ~(status[y] = "ready" /\ Th(y) = th)
  <2>1. PICK x \in OpenOn(th) : \A y \in OpenOn(th) : parent[y] # x
    BY <1>4, InnermostOpen DEF TreeInv
  <2>2. x \in Txns /\ status[x] = "open" /\ Th(x) = th
    BY <2>1 DEF OpenOn
  <2>3. x # NoTxn
    BY <2>2, TransactionAssumption
  <2>4. ASSUME NEW y \in ActiveChildren(x) PROVE FALSE
    <3>1. y \in Txns /\ parent[y] = x /\ IsActive(y)
      BY <2>4 DEF ActiveChildren
    <3>2. element[y] = element[x]
      BY <2>3, <3>1 DEF TreeInv, Tree
    <3>3. Th(y) = th
      BY <2>2, <3>2 DEF Th
    <3>4. status[y] = "open"
      BY <1>6, <3>1, <3>3 DEF IsActive
    <3> QED
      BY <2>1, <3>1, <3>3, <3>4 DEF OpenOn
  <2>5. CASE inflight[x] = {}
    BY <1>3, <2>2, <2>4, <2>5 DEF CanGoOn, CanEnd, BlockOver
  <2>6. CASE inflight[x] # {}
    <3>1. inflight[x] \subseteq Tables
      BY <2>2 DEF TreeInv, CallInv, TypeOK
    <3> QED
      BY <2>2, <2>6, <3>1 DEF CanGoOn, CanQueue
  <2> QED
    BY <2>2, <2>5, <2>6
<1> QED
  BY <1>5, <1>6

(* Where no coroutine is cancelled, no call ends cancelled. *)
LEMMA NeverCancelled ==
  ASSUME NoCancellation
  PROVE  Spec => [](\A x \in Txns : outcome[x] # "cancelled")
<1> DEFINE NoneCancelled == \A x \in Txns : outcome[x] # "cancelled"
<1>1. Init => NoneCancelled
  BY DEF Init
<1>2. TypeOK /\ NoneCancelled /\ [Next]_vars => NoneCancelled'
  <2> SUFFICES ASSUME TypeOK, NoneCancelled, [Next]_vars PROVE NoneCancelled'
    OBVIOUS
  <2>1. ASSUME NEW x \in Txns, outcome' = outcome
                              \/ outcome' = [outcome EXCEPT ![x] = "threw"]
                              \/ outcome' = [outcome EXCEPT ![x] = "returned"]
        PROVE  NoneCancelled'
    BY <2>1 DEF TypeOK
  <2>2. ASSUME NEW x \in Txns, InBlock(x)
        PROVE  outcome' = outcome
    BY <2>2 DEF InBlock, WriteRow, Notify, Execute, QueueTrigger, QueueTriggersRacing,
       CancelWrite
  <2>3. ASSUME NEW x \in Txns,
               \/ Request(x) \/ Begin(x)
               \/ \E th \in Threads : AcquireThread(x, th)
               \/ \E p \in Txns : Nest(x, p)
        PROVE  outcome' = outcome
    BY <2>3 DEF Request, Begin, AcquireThread, Nest
  <2>4. ASSUME NEW x \in Txns, End(x) \/ BeginFails(x)
        PROVE  \/ outcome' = [outcome EXCEPT ![x] = "threw"]
               \/ outcome' = [outcome EXCEPT ![x] = "returned"]
    BY <2>4 DEF End, Return, Throw, CommitFails, BeginFails, EndInner, EndLast, Finish
  <2>5. ASSUME NEW x \in Txns,
               \/ CancelBeforeBegin(x) \/ AbandonThread(x) \/ CompleteJob(x)
               \/ \E returned \in BOOLEAN : CancelInBlock(x, returned)
        PROVE  FALSE
    BY <2>5, NoCancellation DEF NoCancellation, CancelBeforeBegin, AbandonThread,
       CompleteJob, CancelInBlock
  <2>6. CASE UNCHANGED vars
    BY <2>6 DEF vars
  <2> HIDE DEF NoneCancelled
  <2> QED
    BY <2>1, <2>2, <2>3, <2>4, <2>5, <2>6 DEF Next
<1> QED
  BY <1>1, <1>2, TransactionTypes, PTL DEF Spec

(* Calls of withTransaction never wait for each other only, for threads of *)
(* the executor or for SQLite's connection, however they nest: as long as  *)
(* one is in progress, one can go on (suspendingTransactionsWontDeadlock). *)
THEOREM NeverDeadlocked ==
  ASSUME NoCancellation, Threads # {}
  PROVE  Spec => []NoDeadlock
<1>1. TreeInv /\ SessionsAndThreadsKept /\ StackInv
      /\ (\A x \in Txns : outcome[x] # "cancelled") => NoDeadlock
  <2> SUFFICES ASSUME TreeInv, SessionsAndThreadsKept, StackInv,
                      \A y \in Txns : outcome[y] # "cancelled",
                      NEW x \in Txns, status[x] \in {"waiting", "ready", "open"}
               PROVE  \E y \in Txns : CanGoOn(y)
    BY DEF NoDeadlock
  <2>1. FramesHoldConnection /\ FramesExact
    BY DEF SessionsAndThreadsKept, FramesHoldConnection, StackInv
  <2>2. CASE connection # NoThread
    BY <2>1, <2>2, HolderGoesOn
  <2>3. CASE connection = NoThread
    <3>1. \A th \in Threads : session[th] = <<>>
      BY <2>1, <2>3, TransactionAssumption DEF FramesHoldConnection
    <3>2. \A y \in Txns : status[y] # "open"
      BY <3>1, OpenHasFrame DEF TreeInv
    <3>3. CASE \E y \in Txns : status[y] = "ready"
      BY <2>3, <3>3 DEF CanGoOn, CanBegin
    <3>4. CASE \A y \in Txns : status[y] # "ready"
      <4>1. \A th \in Threads : owner[th] = NoTxn
        <5> SUFFICES ASSUME NEW th \in Threads, owner[th] # NoTxn
                     PROVE  FALSE
          OBVIOUS
        <5>1. owner[th] \in Txns
          BY DEF TreeInv, CallInv, TypeOK
        <5>2. IsActive(owner[th])
          BY <5>1 DEF TreeInv, OwnersKept, Abandoned
        <5> QED
          BY <3>2, <3>4, <5>1, <5>2 DEF IsActive
      <4>2. status[x] = "waiting"
        BY <3>2, <3>4
      <4> QED
        BY <4>1, <4>2 DEF CanGoOn, CanGetThread
    <3> QED
      BY <3>3, <3>4
  <2> QED
    BY <2>2, <2>3
<1> QED
  BY <1>1, CallTrees, ThreadsKept, FramesMatchCalls, NeverCancelled, PTL

-----------------------------------------------------------------------------
(* The thread of a transaction                                             *)

(* The pool has a thread taken for x. *)
Lent(x) == \E th \in Threads : owner[th] = x

(* The lease of an outermost call, which may last longer than the call; a  *)
(* nested one has none of its own, it runs on the thread of the call it is *)
(* nested in.                                                              *)
LeaseOf(x) ==
  CASE ~IsOutermost(x) -> "none"
    [] IsOutermost(x) /\ (IsActive(x) \/ Lent(x)) -> "held"
    [] IsOutermost(x) /\ status[x] = "done" /\ ~Lent(x) -> "over"
    [] OTHER -> status[x]

Lease == INSTANCE ThreadLease WITH
  Calls <- Txns, NoCall <- NoTxn,
  lease <- [x \in Txns |-> LeaseOf(x)], holder <- owner

(* Threads are acquired for outermost calls.                               *)
OwnersOutermost == \A th \in Threads : owner[th] # NoTxn => IsOutermost(owner[th])

(* Steps that move no lease.                                               *)
LEMMA LeaseStutter ==
  ASSUME \A x \in Txns : LeaseOf(x)' = LeaseOf(x), owner' = owner
  PROVE  UNCHANGED Lease!vars
<1>1. [x \in Txns |-> LeaseOf(x)]' = [x \in Txns |-> LeaseOf(x)]
  OBVIOUS
<1> QED
  BY <1>1 DEF Lease!vars

(* Steps that move the lease of one call. *)
LEMMA LeaseMoves ==
  ASSUME NEW x \in Txns, NEW l, LeaseOf(x)' = l,
         \A y \in Txns : y # x => LeaseOf(y)' = LeaseOf(y)
  PROVE  [y \in Txns |-> LeaseOf(y)]' = [[y \in Txns |-> LeaseOf(y)] EXCEPT ![x] = l]
OBVIOUS

(* A nested call ends on a thread that is not its own to give back; an     *)
(* outermost one, or its Job when it left its thread behind, gives back    *)
(* the thread it has.                                                      *)
LEMMA LeaseEnds ==
  ASSUME TypeOK, TypeOK', OwnersKept, OwnersOutermost, NEW x \in Txns,
         status[x] \in {"waiting", "ready", "open"} \/ (status[x] = "done" /\ Lent(x)),
         status[x] = "waiting" => IsOutermost(x),
         status' = [status EXCEPT ![x] = "done"], parent' = parent,
         owner' = [th \in Threads |-> IF owner[th] = x THEN NoTxn ELSE owner[th]]
  PROVE  [Lease!Next]_(Lease!vars)
<1>1. /\ \A y \in Txns : y # x => /\ status'[y] = status[y]
                                  /\ Lent(y)' <=> Lent(y)
      /\ \A y \in Txns : IsOutermost(y)' <=> IsOutermost(y)
      /\ status'[x] = "done" /\ ~Lent(x)'
  BY TransactionAssumption DEF TypeOK, Lent, IsOutermost
<1>2. \A y \in Txns : y # x => LeaseOf(y)' = LeaseOf(y)
  BY <1>1 DEF LeaseOf, IsActive
<1>3. CASE ~IsOutermost(x)
  <2>1. LeaseOf(x)' = LeaseOf(x)
    BY <1>1, <1>3 DEF LeaseOf
  <2>2. owner' = owner
    BY <1>3, TransactionAssumption DEF TypeOK, OwnersOutermost
  <2> QED
    BY <1>2, <2>1, <2>2, LeaseStutter
<1>4. CASE IsOutermost(x)
  <2>1. LeaseOf(x)' = "over"
    BY <1>1, <1>4 DEF LeaseOf, IsActive
  <2>2. [y \in Txns |-> LeaseOf(y)]' = [[y \in Txns |-> LeaseOf(y)] EXCEPT ![x] = "over"]
    BY <1>2, <2>1, LeaseMoves
  <2>3. CASE status[x] = "waiting"
    <3>0. \A th \in Threads : owner[th] # x
      BY <2>3, TransactionAssumption DEF OwnersKept, IsActive, Abandoned
    <3>1. owner' = owner
      BY <3>0 DEF TypeOK
    <3>2. LeaseOf(x) = "waiting"
      BY <1>4, <2>3, <3>0 DEF LeaseOf, IsActive, Lent
    <3>3. Lease!GoWithout(x)
      BY <2>2, <3>1, <3>2 DEF Lease!GoWithout
    <3> QED
      BY <3>3 DEF Lease!Next
  <2>4. CASE status[x] \in {"ready", "open", "done"}
    <3>1. LeaseOf(x) = "held"
      BY <1>4, <2>4 DEF LeaseOf, IsActive
    <3>2. Lease!GiveBack(x)
      BY <2>2, <3>1 DEF Lease!GiveBack
    <3> QED
      BY <3>2 DEF Lease!Next
  <2> QED
    BY <2>3, <2>4
<1> QED
  BY <1>3, <1>4

(* Whatever callers do and whoever is cancelled, the thread of an          *)
(* outermost call is leased to it from acquireTransactionThread to its     *)
(* last release(), or, when it never came to acquire(), to the completion  *)
(* of its Job: owner is the `holder` of ThreadLease.                       *)
THEOREM TransactionsLeaseThreads == Spec => Lease!Spec
<1>1. Init => Lease!Init /\ OwnersOutermost
  BY TransactionAssumption
     DEF Init, Lease!Init, OwnersOutermost, LeaseOf, IsOutermost, IsActive, Lent
<1>2. TreeInv /\ OwnersOutermost /\ [Next]_vars => OwnersOutermost'
  <2> SUFFICES ASSUME TreeInv, OwnersOutermost, [Next]_vars
               PROVE  OwnersOutermost'
    OBVIOUS
  <2>1. TypeOK /\ OwnersKept /\ Tree
    BY DEF TreeInv, CallInv
  <2>2. ASSUME NEW x \in Txns, NEW th \in Threads, AcquireThread(x, th)
        PROVE  OwnersOutermost'
    BY <2>1, <2>2 DEF AcquireThread, TypeOK, OwnersOutermost, IsOutermost, Tree
  <2>3. ASSUME NEW x \in Txns, NEW p \in Txns, Nest(x, p)
        PROVE  OwnersOutermost'
    <3>1. /\ owner' = owner /\ status[x] = "none"
          /\ \A y \in Txns : y # x => parent'[y] = parent[y]
      BY <2>1, <2>3 DEF Nest, TypeOK
    <3>2. \A th \in Threads : owner[th] # x
      BY <2>1, <3>1, TransactionAssumption DEF OwnersKept, IsActive, Abandoned
    <3> QED
      BY <2>1, <3>1, <3>2 DEF OwnersOutermost, IsOutermost, TypeOK
  <2>4. ASSUME parent' = parent, \A th \in Threads : owner'[th] \in {owner[th], NoTxn}
        PROVE  OwnersOutermost'
    BY <2>4 DEF OwnersOutermost, IsOutermost
  <2>5. ASSUME NEW x \in Txns, Request(x) \/ Begin(x) \/ InBlock(x) \/ AbandonThread(x)
        PROVE  OwnersOutermost'
    <3>1. parent' = parent /\ owner' = owner
      BY <2>5 DEF Request, Begin, InBlock, WriteRow, Notify, Execute, QueueTrigger,
         QueueTriggersRacing, CancelWrite, AbandonThread
    <3> QED
      BY <2>4, <3>1
  <2>6. ASSUME NEW x \in Txns,
               \/ BeginFails(x) \/ End(x) \/ CancelBeforeBegin(x) \/ CompleteJob(x)
               \/ \E returned \in BOOLEAN : CancelInBlock(x, returned)
        PROVE  OwnersOutermost'
    <3>1. /\ parent' = parent
          /\ owner' = [th \in Threads |-> IF owner[th] = x THEN NoTxn ELSE owner[th]]
      BY <2>6 DEF BeginFails, End, Return, Throw, EndInner, EndLast, CommitFails,
         CancelBeforeBegin, CompleteJob, CancelInBlock, Finish
    <3> QED
      BY <2>4, <3>1
  <2>7. CASE UNCHANGED vars
    BY <2>7, <2>4 DEF vars
  <2> QED
    BY <2>2, <2>3, <2>5, <2>6, <2>7 DEF Next
<1>3. TreeInv /\ TypeOK' /\ OwnersOutermost /\ [Next]_vars => [Lease!Next]_(Lease!vars)
  <2> SUFFICES ASSUME TreeInv, TypeOK', OwnersOutermost, [Next]_vars
               PROVE  [Lease!Next]_(Lease!vars)
    OBVIOUS
  <2>1. TypeOK /\ OwnersKept /\ Tree /\ OwnedThreads /\ ElementsHaveThreads
    BY DEF TreeInv, CallInv
  <2>2. ASSUME NEW x \in Txns, Request(x)
        PROVE  [Lease!Next]_(Lease!vars)
    <3>1. IsOutermost(x) /\ status[x] = "none" /\ status'[x] = "waiting" /\ parent' = parent
      BY <2>1, <2>2 DEF Request, TypeOK, Tree, IsOutermost
    <3>2. \A y \in Txns : y # x => status'[y] = status[y]
      BY <2>1, <2>2 DEF Request, TypeOK
    <3>0. owner' = owner /\ ~Lent(x)
      BY <2>1, <2>2, TransactionAssumption DEF Request, OwnersKept, IsActive, Abandoned, Lent
    <3>3. LeaseOf(x) = "none" /\ LeaseOf(x)' = "waiting"
      BY <3>0, <3>1 DEF LeaseOf, IsOutermost, IsActive, Lent
    <3>4. \A y \in Txns : y # x => LeaseOf(y)' = LeaseOf(y)
      BY <3>0, <3>1, <3>2 DEF LeaseOf, IsOutermost, IsActive, Lent
    <3>5. [y \in Txns |-> LeaseOf(y)]' = [[y \in Txns |-> LeaseOf(y)] EXCEPT ![x] = "waiting"]
      BY <3>3, <3>4, LeaseMoves
    <3>6. Lease!Ask(x)
      BY <2>2, <3>3, <3>5 DEF Request, Lease!Ask
    <3> QED
      BY <3>6 DEF Lease!Next
  <2>3. ASSUME NEW x \in Txns, NEW th \in Threads, AcquireThread(x, th)
        PROVE  [Lease!Next]_(Lease!vars)
    <3>1. IsOutermost(x) /\ status[x] = "waiting" /\ status'[x] = "ready" /\ parent' = parent
      BY <2>1, <2>3 DEF AcquireThread, TypeOK, Tree, IsOutermost
    <3>2. \A y \in Txns : y # x => status'[y] = status[y]
      BY <2>1, <2>3 DEF AcquireThread, TypeOK
    <3>0. /\ ~Lent(x)
          /\ \A y \in Txns : y # x => (Lent(y)' <=> Lent(y))
      <4>1. ~Lent(x)
        BY <2>1, <3>1, TransactionAssumption DEF OwnersKept, IsActive, Abandoned, Lent
      <4>2. owner[th] = NoTxn /\ owner' = [owner EXCEPT ![th] = x]
        BY <2>3 DEF AcquireThread
      <4> QED
        BY <2>1, <4>1, <4>2, TransactionAssumption DEF TypeOK, Lent
    <3>3. LeaseOf(x) = "waiting" /\ LeaseOf(x)' = "held"
      BY <3>0, <3>1 DEF LeaseOf, IsOutermost, IsActive
    <3>4. \A y \in Txns : y # x => LeaseOf(y)' = LeaseOf(y)
      BY <3>0, <3>1, <3>2 DEF LeaseOf, IsOutermost, IsActive
    <3>5. [y \in Txns |-> LeaseOf(y)]' = [[y \in Txns |-> LeaseOf(y)] EXCEPT ![x] = "held"]
      BY <3>3, <3>4, LeaseMoves
    <3>6. Lease!Take(x, th)
      BY <2>3, <3>3, <3>5 DEF AcquireThread, Lease!Take
    <3> QED
      BY <3>6 DEF Lease!Next
  <2>4. ASSUME NEW x \in Txns, NEW p \in Txns, Nest(x, p)
        PROVE  [Lease!Next]_(Lease!vars)
    <3>1. /\ status[x] = "none" /\ parent'[x] = p /\ owner' = owner
          /\ \A y \in Txns : y # x => status'[y] = status[y] /\ parent'[y] = parent[y]
      BY <2>1, <2>4 DEF Nest, TypeOK
    <3>2. p # NoTxn
      BY TransactionAssumption
    <3>0. ~Lent(x)
      BY <2>1, <3>1, TransactionAssumption DEF OwnersKept, IsActive, Abandoned, Lent
    <3>3. LeaseOf(x) = "none" /\ LeaseOf(x)' = "none"
      BY <3>0, <3>1, <3>2 DEF LeaseOf, IsOutermost, IsActive
    <3>4. \A y \in Txns : y # x => LeaseOf(y)' = LeaseOf(y)
      BY <3>1 DEF LeaseOf, IsOutermost, IsActive, Lent
    <3> QED
      BY <3>1, <3>3, <3>4, LeaseStutter
  <2>5. ASSUME NEW x \in Txns, Begin(x)
        PROVE  [Lease!Next]_(Lease!vars)
    <3>1. /\ status[x] = "ready" /\ status'[x] = "open" /\ owner' = owner /\ parent' = parent
          /\ \A y \in Txns : y # x => status'[y] = status[y]
      BY <2>1, <2>5 DEF Begin, TypeOK
    <3>2. \A y \in Txns : LeaseOf(y)' = LeaseOf(y)
      BY <3>1 DEF LeaseOf, IsOutermost, IsActive, Lent
    <3> QED
      BY <3>1, <3>2, LeaseStutter
  <2>6. ASSUME NEW x \in Txns, InBlock(x)
        PROVE  [Lease!Next]_(Lease!vars)
    <3>1. status' = status /\ owner' = owner /\ parent' = parent
      BY <2>6 DEF InBlock, WriteRow, Notify, Execute, QueueTrigger,
         QueueTriggersRacing, CancelWrite
    <3>2. \A y \in Txns : LeaseOf(y)' = LeaseOf(y)
      BY <3>1 DEF LeaseOf, IsOutermost, IsActive, Lent
    <3> QED
      BY <3>1, <3>2, LeaseStutter
  <2>7. ASSUME NEW x \in Txns,
               \/ BeginFails(x) \/ End(x) \/ CancelBeforeBegin(x) \/ CompleteJob(x)
               \/ \E returned \in BOOLEAN : CancelInBlock(x, returned)
        PROVE  [Lease!Next]_(Lease!vars)
    <3>1. /\ parent' = parent
          /\ status' = [status EXCEPT ![x] = "done"] \/ CompleteJob(x)
          /\ owner' = [th \in Threads |-> IF owner[th] = x THEN NoTxn ELSE owner[th]]
      BY <2>7 DEF BeginFails, End, Return, Throw, EndInner, EndLast, CommitFails,
         CancelBeforeBegin, CompleteJob, CancelInBlock, Finish
    <3>2. status[x] \in {"waiting", "ready", "open"} \/ (status[x] = "done" /\ Lent(x))
      BY <2>7 DEF BeginFails, End, Return, Throw, EndInner, EndLast, CommitFails,
         CancelBeforeBegin, CompleteJob, CancelInBlock, BlockOver, Lent
    <3>3. status[x] = "waiting" => IsOutermost(x)
      BY <2>1 DEF Tree, IsOutermost
    <3>4. CompleteJob(x) => status' = [status EXCEPT ![x] = "done"]
      BY <2>1 DEF CompleteJob, TypeOK
    <3> QED
      BY <2>1, <3>1, <3>2, <3>3, <3>4, LeaseEnds
  <2>8. ASSUME NEW x \in Txns, AbandonThread(x)
        PROVE  [Lease!Next]_(Lease!vars)
    <3>1. /\ status[x] = "ready" /\ status'[x] = "done" /\ parent[x] = NoTxn
          /\ parent' = parent /\ owner' = owner
          /\ \A y \in Txns : y # x => status'[y] = status[y]
      BY <2>1, <2>8 DEF AbandonThread, TypeOK
    <3>2. Lent(x)
      <4>1. Th(x) \in Threads /\ owner[Th(x)] = element[x] /\ element[x] = x
        BY <2>1, <3>1 DEF OwnedThreads, ElementsHaveThreads, Tree, IsActive
      <4> QED
        BY <4>1 DEF Lent
    <3>3. \A y \in Txns : LeaseOf(y)' = LeaseOf(y)
      BY <3>1, <3>2 DEF LeaseOf, IsOutermost, IsActive, Lent
    <3> QED
      BY <3>1, <3>3, LeaseStutter
  <2>9. CASE UNCHANGED vars
    <3>1. status' = status /\ owner' = owner /\ parent' = parent
      BY <2>9 DEF vars
    <3>2. \A y \in Txns : LeaseOf(y)' = LeaseOf(y)
      BY <3>1 DEF LeaseOf, IsOutermost, IsActive, Lent
    <3> QED
      BY <3>1, <3>2, LeaseStutter
  <2> QED
    BY <2>2, <2>3, <2>4, <2>5, <2>6, <2>7, <2>8, <2>9 DEF Next
<1> QED
  BY <1>1, <1>2, <1>3, CallTrees, TransactionTypes, PTL DEF Spec, Lease!Spec

=============================================================================
