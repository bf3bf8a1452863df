------------------------ MODULE TransactionChainProofs ------------------------
(***************************************************************************)
(* Theorems about SuspendingTransaction when blocks nest one call after    *)
(* the other and nothing is cancelled: every frame is ended by the call    *)
(* that began it, every committed change is announced, and withTransaction *)
(* implements AtomicTransaction.  With writes that race or are cancelled,  *)
(* what a commit fails to announce had not been queued.                    *)
(***************************************************************************)
EXTENDS SuspendingTransactionProofs

(* Nothing is cancelled and nested calls are not started concurrently. *)
OneByOne == Usage \cap {"siblings", "cancel"} = {}

(* A block waits for the call it nested before it nests another one.       *)
SingleChild ==
  \A y, z \in Txns :
    IsActive(y) /\ IsActive(z) /\ parent[y] = parent[z] /\ parent[y] # NoTxn => y = z

(* onCommit comes when the call itself ends. *)
OpenUncommitted == \A y \in Txns : status[y] = "open" => ~commit[y]

(* SessionsAreCallChains, frame by frame and call by call. *)
ChildFailed(p) ==
  \E y \in Txns : parent[y] = p /\ status[y] = "done" /\ Begun(y) /\ ~commit[y]

FrameInChain(th, i) ==
  LET f == session[th][i]
  IN /\ status[f.txn] = "open" /\ Th(f.txn) = th
     /\ parent[f.txn] = IF i = Len(session[th]) THEN NoTxn ELSE session[th][i + 1].txn
     /\ f.childFailed <=> ChildFailed(f.txn)

HasFrame(y) == \E i \in 1..Len(session[Th(y)]) : session[Th(y)][i].txn = y

Chained ==
  /\ \A th \in Threads : \A i \in 1..Len(session[th]) : FrameInChain(th, i)
  /\ \A y \in Txns : status[y] = "open" => HasFrame(y)

ChainInv == SingleChild /\ OpenUncommitted /\ Chained

(* What the steps below have in common. *)
Chaining == TreeInv /\ SessionsAndThreadsKept /\ StackInv /\ OutcomeInv /\ ChainInv

(* Frame by frame and call by call, the invariants say what                *)
(* SessionsAreCallChains does.                                             *)
LEMMA ChainsOfFrames ==
  ASSUME FramesOfTree, Chained
  PROVE  SessionsAreCallChains
<1>1. ASSUME NEW th \in Threads, NEW i \in 1..Len(session[th])
      PROVE  ~session[th][i].marked /\ FrameInChain(th, i)
  BY DEF FramesOfTree, Chained
<1>2. \A y \in Txns : status[y] = "open" =>
        \E i \in 1..Len(session[Th(y)]) : session[Th(y)][i].txn = y
  BY DEF Chained, HasFrame
<1> QED
  BY <1>1, <1>2 DEF SessionsAreCallChains, FrameInChain, ChildFailed

(* The frames are those of calls. *)
LEMMA FrameTxn ==
  ASSUME TypeOK, NEW th \in Threads, NEW i \in 1..Len(session[th])
  PROVE  session[th][i].txn \in Txns /\ Len(session[th]) \in Nat
<1>1. session[th] \in Seq(Frame)
  BY DEF TypeOK
<1>2. session[th][i] \in Frame
  BY <1>1
<1> QED
  BY <1>1, <1>2 DEF Frame

-----------------------------------------------------------------------------
(* A frame that is not the last is a call nested in the one below.         *)
LEMMA AboveIsChild ==
  ASSUME TypeOK, Chained, NEW th \in Threads,
         NEW i \in 1..Len(session[th]), i # Len(session[th])
  PROVE  /\ session[th][i].txn \in Txns /\ IsActive(session[th][i].txn)
         /\ parent[session[th][i].txn] = session[th][i + 1].txn
         /\ session[th][i + 1].txn \in Txns
<1>1. session[th] \in Seq(Frame)
  BY DEF TypeOK
<1>2. i + 1 \in 1..Len(session[th])
  BY <1>1
<1>3. session[th][i] \in Frame /\ session[th][i + 1] \in Frame
  BY <1>1, <1>2
<1>4. session[th][i].txn \in Txns /\ session[th][i + 1].txn \in Txns
  BY <1>3 DEF Frame
<1>5. FrameInChain(th, i)
  BY DEF Chained
<1>6. parent[session[th][i].txn] = session[th][i + 1].txn
  BY <1>5 DEF FrameInChain
<1> QED
  BY <1>4, <1>5, <1>6 DEF IsActive, FrameInChain

(* The innermost call has the top frame, and only that. *)
LEMMA TopIsInnermost ==
  ASSUME CallInv, Chained, NEW x \in Txns, status[x] = "open",
         ActiveChildren(x) = {}
  PROVE  /\ Th(x) \in Threads
         /\ 1 \in 1..Len(session[Th(x)])
         /\ \A i \in 1..Len(session[Th(x)]) : session[Th(x)][i].txn = x <=> i = 1
<1>1. /\ TypeOK /\ Th(x) \in Threads
      /\ session[Th(x)] \in Seq(Frame) /\ session[Th(x)] # <<>>
  BY OpenHasFrame DEF CallInv
<1>2. Len(session[Th(x)]) \in Nat \ {0}
  BY <1>1, EmptySeq
<1>3. ASSUME NEW i \in 1..Len(session[Th(x)]), session[Th(x)][i].txn = x
      PROVE  i = 1
  <2> SUFFICES ASSUME i # 1 PROVE FALSE
    OBVIOUS
  <2>1. i - 1 \in 1..Len(session[Th(x)]) /\ i - 1 # Len(session[Th(x)]) /\ (i - 1) + 1 = i
    BY <1>2
  <2>2. /\ session[Th(x)][i - 1].txn \in Txns /\ IsActive(session[Th(x)][i - 1].txn)
        /\ parent[session[Th(x)][i - 1].txn] = x
    BY <1>1, <1>3, <2>1, AboveIsChild
  <2> QED
    BY <2>2 DEF ActiveChildren
<1>4. PICK i \in 1..Len(session[Th(x)]) : session[Th(x)][i].txn = x
  BY DEF Chained, HasFrame
<1>5. i = 1
  BY <1>3, <1>4
<1> QED
  BY <1>1, <1>3, <1>4, <1>5

(* A call that is about to begin was nested in the innermost open call. *)
LEMMA ParentIsTop ==
  ASSUME Chaining, NEW x \in Txns, status[x] = "ready", session[Th(x)] # <<>>
  PROVE  /\ Th(x) \in Threads
         /\ 1 \in 1..Len(session[Th(x)])
         /\ parent[x] = session[Th(x)][1].txn
<1>1. /\ TypeOK /\ Tree /\ TreeInv /\ FramesExact /\ Chained
      /\ SingleChild /\ CallInv
  BY DEF Chaining, TreeInv, CallInv, StackInv, ChainInv
<1>2. Th(x) \in Threads /\ parent[x] # NoTxn
  BY <1>1, FirstIsOutermost
<1>3. parent[x] \in Txns /\ status[parent[x]] = "open" /\ Th(parent[x]) = Th(x)
  BY <1>1, <1>2 DEF Tree, TypeOK, Th, IsActive
<1>4. PICK i \in 1..Len(session[Th(x)]) : session[Th(x)][i].txn = parent[x]
  BY <1>1, <1>3 DEF Chained, HasFrame
<1>5. Len(session[Th(x)]) \in Nat
  BY <1>1, <1>2, LenProperties DEF TypeOK
<1>6. i = 1
  <2> SUFFICES ASSUME i # 1 PROVE FALSE
    OBVIOUS
  <2>1. i - 1 \in 1..Len(session[Th(x)]) /\ i - 1 # Len(session[Th(x)]) /\ (i - 1) + 1 = i
    BY <1>5
  <2> DEFINE y == session[Th(x)][i - 1].txn
  <2>2. y \in Txns /\ IsActive(y) /\ parent[y] = parent[x]
    BY <1>1, <1>2, <1>4, <2>1, AboveIsChild
  <2>3. status[y] = "open"
    BY <1>2, <1>1, <2>1 DEF Chained, FrameInChain
  <2>4. y = x
    BY <1>1, <1>2, <2>2 DEF SingleChild, IsActive
  <2> QED
    BY <2>3, <2>4
<1> QED
  BY <1>2, <1>4, <1>6

-----------------------------------------------------------------------------
(* Steps that leave frames, and the calls that have begun, as they are. *)
LEMMA SameChains ==
  ASSUME TypeOK, Chained, session' = session,
         \A y \in Txns : status'[y] = "open" => status[y] = "open" /\ Th(y)' = Th(y),
         \A y \in Txns : status[y] = "open" =>
           /\ status'[y] = "open" /\ Th(y)' = Th(y) /\ parent'[y] = parent[y]
           /\ ChildFailed(y)' <=> ChildFailed(y)
  PROVE  Chained'
<1>1. ASSUME NEW th \in Threads, NEW i \in 1..Len(session[th])
      PROVE  FrameInChain(th, i)'
  <2> DEFINE y == session[th][i].txn
  <2>1. y \in Txns /\ FrameInChain(th, i)
    BY FrameTxn DEF Chained
  <2>2. status[y] = "open"
    BY <2>1 DEF FrameInChain
  <2>3. /\ status'[y] = "open" /\ Th(y)' = Th(y) /\ parent'[y] = parent[y]
        /\ ChildFailed(y)' <=> ChildFailed(y)
    BY <2>1, <2>2
  <2>4. status'[y] = "open" /\ Th(y)' = th
    BY <2>1, <2>3 DEF FrameInChain
  <2>5. parent'[y] = IF i = Len(session[th]) THEN NoTxn ELSE session[th][i + 1].txn
    BY <2>1, <2>3 DEF FrameInChain
  <2>6. session[th][i].childFailed <=> ChildFailed(y)'
    BY <2>1, <2>3 DEF FrameInChain
  <2> QED
    BY <2>4, <2>5, <2>6 DEF FrameInChain
<1>2. ASSUME NEW y \in Txns, status'[y] = "open"
      PROVE  HasFrame(y)'
  <2>1. HasFrame(y) /\ Th(y)' = Th(y)
    BY <1>2 DEF Chained
  <2> QED
    BY <2>1 DEF HasFrame
<1> QED
  BY <1>1, <1>2 DEF Chained

(* Steps that activate no nested call. *)
LEMMA SameSingle ==
  ASSUME SingleChild,
         \A y \in Txns : IsActive(y)' /\ parent'[y] # NoTxn =>
           IsActive(y) /\ parent'[y] = parent[y]
  PROVE  SingleChild'
BY DEF SingleChild, IsActive

(* Calls that ask for a thread, get one or are nested leave frames alone;  *)
(* a new child is its parent's only one.                                   *)
LEMMA ChainStarts ==
  ASSUME OneByOne, Chaining, NEW x \in Txns,
         \/ Request(x)
         \/ \E th \in Threads : AcquireThread(x, th)
         \/ \E p \in Txns : Nest(x, p)
         \/ BeginFails(x)
  PROVE  ChainInv'
<1>1. /\ TypeOK /\ Tree /\ CallInv /\ ElementsHaveThreads
      /\ NothingBefore /\ SingleChild /\ OpenUncommitted /\ Chained
  BY DEF Chaining, TreeInv, CallInv, OutcomeInv, ChainInv
<1>2. /\ status[x] \in {"none", "waiting", "ready"}
      /\ UNCHANGED <<session, members, fate, commit>>
  BY DEF Request, AcquireThread, Nest, BeginFails, database
<1>3. /\ \A y \in Txns : y # x => /\ status'[y] = status[y] /\ parent'[y] = parent[y]
                                  /\ element'[y] = element[y]
      /\ status'[x] \in {"waiting", "ready", "done"}
  BY <1>1 DEF TypeOK, Request, AcquireThread, Nest, BeginFails, Finish
<1>4. x \notin members /\ fate[x] = "idle" /\ ~Begun(x)
  BY <1>1, <1>2 DEF NothingBefore, Begun
<1>5. \A y \in Txns : Begun(y)' <=> Begun(y)
  BY <1>2 DEF Begun
<1>6. \A y \in Txns : status[y] = "open" => Th(y)' = Th(y)
  <2> SUFFICES ASSUME NEW y \in Txns, status[y] = "open"
               PROVE  thread'[element[y]] = thread[element[y]]
    BY <1>2, <1>3 DEF Th
  <2>1. ASSUME NEW th \in Threads, AcquireThread(x, th)
        PROVE  thread'[element[y]] = thread[element[y]]
    <3>1. element[y] # x
      BY <1>1, <2>1 DEF ElementsHaveThreads, IsActive, AcquireThread
    <3> QED
      BY <1>1, <2>1, <3>1 DEF AcquireThread, TypeOK
  <2> QED
    BY <2>1 DEF Request, Nest, BeginFails
<1>7. \A p \in Txns : ChildFailed(p)' <=> ChildFailed(p)
  <2> SUFFICES ASSUME NEW p \in Txns, NEW y \in Txns
               PROVE  /\ parent'[y] = p /\ status'[y] = "done" /\ Begun(y)' /\ ~commit'[y]
                      <=> /\ parent[y] = p /\ status[y] = "done" /\ Begun(y) /\ ~commit[y]
    BY DEF ChildFailed
  <2> QED
    BY <1>2, <1>3, <1>4, <1>5
<1>8. Chained'
  BY <1>1, <1>2, <1>3, <1>6, <1>7, SameChains
<1>9. OpenUncommitted'
  BY <1>1, <1>2, <1>3 DEF OpenUncommitted
<1>10. SingleChild'
  <2>1. ASSUME NEW p \in Txns, Nest(x, p)
        PROVE  SingleChild'
    <3>1. /\ status[p] = "open" /\ ActiveChildren(p) = {} /\ p # NoTxn
          /\ parent'[x] = p /\ status[x] = "none"
      BY <1>1, <2>1, TransactionAssumption DEF Nest, TypeOK, OneByOne
    <3>2. \A y \in Txns : IsActive(y) => parent[y] # p
      BY <3>1 DEF ActiveChildren
    <3> SUFFICES ASSUME NEW y \in Txns, NEW z \in Txns, IsActive(y)', IsActive(z)',
                        parent'[y] = parent'[z], parent'[y] # NoTxn, y # x
                 PROVE  y = z
      BY DEF SingleChild
    <3>3. IsActive(y) /\ parent'[y] = parent[y]
      BY <1>3 DEF IsActive
    <3>4. z # x
      BY <3>1, <3>2, <3>3
    <3>5. IsActive(z) /\ parent'[z] = parent[z]
      BY <1>3, <3>4 DEF IsActive
    <3> QED
      BY <1>1, <3>3, <3>5 DEF SingleChild
  <2>2. ASSUME Request(x) \/ (\E th \in Threads : AcquireThread(x, th)) \/ BeginFails(x)
        PROVE  SingleChild'
    <3>1. parent' = parent
      BY <2>2 DEF Request, AcquireThread, BeginFails
    <3>2. IsActive(x)' => parent[x] = NoTxn
      BY <1>1, <2>2 DEF Request, AcquireThread, BeginFails, Finish, Tree, IsActive, TypeOK
    <3>3. \A y \in Txns : IsActive(y)' /\ parent'[y] # NoTxn =>
            IsActive(y) /\ parent'[y] = parent[y]
      BY <1>3, <3>1, <3>2 DEF IsActive
    <3> QED
      BY <1>1, <3>3, SameSingle
  <2> QED
    BY <2>1, <2>2
<1> QED
  BY <1>8, <1>9, <1>10 DEF ChainInv

(* A call that begins puts its frame on that of the call it is nested in.  *)
LEMMA ChainBegin ==
  ASSUME Chaining, NEW x \in Txns, Begin(x)
  PROVE  ChainInv'
<1> DEFINE th == Th(x)
           frame == [txn |-> x, marked |-> FALSE, childFailed |-> FALSE]
           s == session[th]
           stack == <<frame>> \o s
<1>1. /\ TypeOK /\ Tree /\ TreeInv /\ CallInv /\ FramesExact
      /\ NothingBefore /\ SingleChild /\ OpenUncommitted /\ Chained
  BY DEF Chaining, TreeInv, CallInv, StackInv, OutcomeInv, ChainInv
<1>2. /\ status[x] = "ready"
      /\ session' = [session EXCEPT ![th] = stack]
      /\ members' = members \cup {x}
      /\ status'[x] = "open" /\ \A y \in Txns : y # x => status'[y] = status[y]
      /\ UNCHANGED <<parent, element, thread, fate, commit>>
  BY <1>1 DEF Begin, TypeOK
<1>3. /\ th \in Threads
      /\ s = <<>> => parent[x] = NoTxn
      /\ s # <<>> => parent[x] = s[1].txn
  BY <1>1, <1>2, FirstIsOutermost, ParentIsTop
<1>4. /\ frame \in Frame /\ frame.txn = x /\ ~frame.childFailed
  BY DEF Frame
<1>5. s \in Seq(Frame) /\ Len(s) \in Nat /\ (s = <<>> <=> Len(s) = 0)
  BY <1>1, <1>3, EmptySeq, LenProperties DEF TypeOK
<1> HIDE DEF frame
<1>6. /\ Len(stack) = Len(s) + 1
      /\ stack[1] = frame
      /\ \A i \in 1..Len(s) : stack[i + 1] = s[i]
      /\ \A i \in 2..(Len(s) + 1) : stack[i] = s[i - 1]
  BY <1>4, <1>5, PushFrame
<1> HIDE DEF stack
<1>7. /\ \A y \in Txns : Th(y)' = Th(y)
      /\ session'[th] = stack
      /\ \A u \in Threads : u # th => session'[u] = session[u]
  BY <1>1, <1>2, <1>3 DEF Th, TypeOK
<1>8. \A p \in Txns : ChildFailed(p)' <=> ChildFailed(p)
  <2> SUFFICES ASSUME NEW p \in Txns, NEW y \in Txns
               PROVE  /\ parent'[y] = p /\ status'[y] = "done" /\ Begun(y)' /\ ~commit'[y]
                      <=> /\ parent[y] = p /\ status[y] = "done" /\ Begun(y) /\ ~commit[y]
    BY DEF ChildFailed
  <2> QED
    BY <1>2 DEF Begun
<1>9. ~ChildFailed(x)
  <2> SUFFICES ASSUME NEW y \in Txns, parent[y] = x PROVE FALSE
    BY DEF ChildFailed
  <2>1. parent[y] # NoTxn
    BY TransactionAssumption
  <2> QED
    BY <1>1, <1>2, <2>1 DEF Tree
<1>10. ASSUME NEW u \in Threads, NEW i \in 1..Len(session[u])
       PROVE  \E y \in Txns :
                /\ y = session[u][i].txn
                /\ status'[y] = "open" /\ Th(y)' = u
                /\ parent'[y] = IF i = Len(session[u]) THEN NoTxn
                                                       ELSE session[u][i + 1].txn
                /\ session[u][i].childFailed <=> ChildFailed(y)'
  <2>1. PICK y \in Txns : y = session[u][i].txn
    BY <1>1, FrameTxn
  <2>2. FrameInChain(u, i)
    BY <1>1 DEF Chained
  <2>3. /\ status[y] = "open" /\ Th(y) = u
        /\ parent[y] = IF i = Len(session[u]) THEN NoTxn ELSE session[u][i + 1].txn
        /\ session[u][i].childFailed <=> ChildFailed(y)
    BY <2>1, <2>2 DEF FrameInChain
  <2>4. status'[y] = "open" /\ Th(y)' = u
    BY <1>2, <1>7, <2>3
  <2>5. session[u][i].childFailed <=> ChildFailed(y)'
    BY <1>8, <2>3
  <2>6. parent'[y] = IF i = Len(session[u]) THEN NoTxn ELSE session[u][i + 1].txn
    BY <1>2, <2>3
  <2> QED
    BY <2>1, <2>4, <2>5, <2>6
<1>11. ASSUME NEW u \in Threads, NEW i \in 1..Len(session'[u])
       PROVE  FrameInChain(u, i)'
  <2>1. CASE u # th
    <3>1. session'[u] = session[u]
      BY <1>7, <2>1
    <3> QED
      BY <1>10, <3>1 DEF FrameInChain
  <2>2. CASE u = th /\ i = 1
    <3>1. session'[u] = stack /\ session'[u][i] = frame
      BY <1>6, <1>7, <2>2
    <3>2. status'[x] = "open" /\ Th(x)' = u
      BY <1>2, <1>7, <2>2
    <3>3. parent'[x] = IF i = Len(stack) THEN NoTxn ELSE stack[i + 1].txn
      <4>1. CASE s = <<>>
        <5>1. i = Len(stack)
          BY <1>5, <1>6, <2>2, <4>1
        <5> QED
          BY <1>2, <1>3, <4>1, <5>1
      <4>2. CASE s # <<>>
        <5>1. i # Len(stack) /\ i \in 1..Len(s)
          BY <1>5, <1>6, <2>2, <4>2
        <5>2. stack[i + 1] = s[1]
          BY <1>6, <2>2, <5>1
        <5> QED
          BY <1>2, <1>3, <4>2, <5>1, <5>2
      <4> QED
        BY <4>1, <4>2
    <3>4. frame.childFailed <=> ChildFailed(x)'
      BY <1>4, <1>8, <1>9
    <3> QED
      BY <1>4, <3>1, <3>2, <3>3, <3>4 DEF FrameInChain
  <2>3. CASE u = th /\ i # 1
    <3> DEFINE j == i - 1
    <3>1. session'[u] = stack
      BY <1>7, <2>3
    <3>2. /\ i \in 2..(Len(s) + 1) /\ j \in 1..Len(s)
          /\ i = Len(stack) <=> j = Len(s)
          /\ i # Len(stack) => i \in 1..Len(s)
          /\ i = j + 1
      <4> HIDE DEF s
      <4> QED
        BY <1>5, <1>6, <2>3, <3>1
    <3>3. stack[i] = s[j] /\ (i # Len(stack) => stack[i + 1] = s[j + 1])
      BY <1>6, <3>2
    <3>4. s = session[u]
      BY <2>3
    <3> HIDE DEF s, j
    <3>5. PICK y \in Txns :
          /\ y = session[u][j].txn
          /\ status'[y] = "open" /\ Th(y)' = u
          /\ parent'[y] = IF j = Len(session[u]) THEN NoTxn ELSE session[u][j + 1].txn
          /\ session[u][j].childFailed <=> ChildFailed(y)'
      BY <1>10, <3>2, <3>4
    <3>6. session'[u][i] = session[u][j]
      BY <3>1, <3>3, <3>4
    <3>7. parent'[y] = IF i = Len(session'[u]) THEN NoTxn ELSE session'[u][i + 1].txn
      BY <3>1, <3>2, <3>3, <3>4, <3>5
    <3> QED
      BY <3>5, <3>6, <3>7 DEF FrameInChain
  <2> QED
    BY <2>1, <2>2, <2>3
<1>12. ASSUME NEW y \in Txns, status'[y] = "open"
       PROVE  HasFrame(y)'
  <2>1. CASE y = x
    <3>1. 1 \in 1..Len(stack)
      BY <1>5, <1>6
    <3>2. Th(y)' = th /\ session'[th][1].txn = y
      BY <1>4, <1>6, <1>7, <2>1
    <3> QED
      BY <1>7, <3>1, <3>2 DEF HasFrame
  <2>2. CASE y # x
    <3>1. HasFrame(y) /\ Th(y) \in Threads
      BY <1>1, <1>2, <1>12, <2>2, OpenHasFrame DEF Chained
    <3>2. PICK j \in 1..Len(session[Th(y)]) : session[Th(y)][j].txn = y
      BY <3>1 DEF HasFrame
    <3>3. CASE Th(y) # th
      BY <1>7, <3>1, <3>2, <3>3 DEF HasFrame
    <3>4. CASE Th(y) = th
      <4>1. j \in 1..Len(s) /\ s[j].txn = y
        BY <3>2, <3>4
      <4>2. j + 1 \in 1..Len(stack)
        <5> HIDE DEF s
        <5> QED
          BY <1>5, <1>6, <4>1
      <4>3. stack[j + 1].txn = y
        BY <1>6, <4>1
      <4>4. session'[Th(y)'] = stack
        BY <1>7, <3>4
      <4> QED
        BY <4>2, <4>3, <4>4 DEF HasFrame
    <3> QED
      BY <3>3, <3>4
  <2> QED
    BY <2>1, <2>2
<1>13. Chained'
  BY <1>11, <1>12 DEF Chained
<1>14. SingleChild'
  <2>1. \A y \in Txns : IsActive(y)' => IsActive(y)
    BY <1>2 DEF IsActive
  <2> QED
    BY <1>1, <1>2, <2>1, SameSingle
<1>15. OpenUncommitted'
  BY <1>1, <1>2 DEF OpenUncommitted, NothingBefore
<1> QED
  BY <1>13, <1>14, <1>15 DEF ChainInv

(* A nested call that ends takes its own frame with it, and tells the call *)
(* it is nested in whether it failed.                                      *)
LEMMA ChainInner ==
  ASSUME Chaining, NEW x \in Txns, NEW result \in {"returned", "threw"},
         PopInner(x, result)
  PROVE  ChainInv'
<1> DEFINE s == session[Th(x)]
           ok == EndsWell(x, result)
<1>1. /\ TypeOK /\ Tree /\ TreeInv /\ CallInv
      /\ OpenQueuesDue /\ SingleChild /\ OpenUncommitted /\ Chained
  BY DEF Chaining, TreeInv, CallInv, OutcomeInv, ChainInv
<1>2. /\ status[x] = "open" /\ ActiveChildren(x) = {}
      /\ UNCHANGED <<parent, element, thread, members, fate>>
      /\ status'[x] = "done" /\ \A y \in Txns : y # x => status'[y] = status[y]
  BY <1>1 DEF PopInner, BlockOver, Finish, TypeOK
<1>3. /\ Th(x) \in Threads
      /\ 1 \in 1..Len(s)
      /\ \A i \in 1..Len(s) : s[i].txn = x <=> i = 1
  BY <1>1, <1>2, TopIsInnermost
<1>4. PICK t \in Seq(Frame) :
        /\ Len(t) = Len(s) - 1 /\ Len(s) \in Nat /\ Len(s) > 1
        /\ session' = [session EXCEPT ![Th(x)] = t]
        /\ \A i \in 1..Len(t) :
             /\ i + 1 \in 1..Len(s)
             /\ t[i].txn = s[i + 1].txn
             /\ t[i].childFailed <=> s[i + 1].childFailed \/ (i = 1 /\ ~ok)
  <2> DEFINE r == session'[Th(x)]
  <2>1. /\ r \in Seq(Frame) /\ Len(r) = Len(s) - 1 /\ Len(s) \in Nat /\ Len(s) > 1
        /\ session' = [session EXCEPT ![Th(x)] = r]
        /\ \A i \in 1..Len(r) :
             /\ i + 1 \in 1..Len(s)
             /\ r[i].txn = s[i + 1].txn
             /\ r[i].childFailed <=> s[i + 1].childFailed \/ (i = 1 /\ ~ok)
    BY <1>1, <1>3, InnerFrames
  <2> HIDE DEF r, s, ok
  <2> QED
    BY <2>1
<1>5. /\ \A y \in Txns : Th(y)' = Th(y)
      /\ session'[Th(x)] = t
      /\ \A u \in Threads : u # Th(x) => session'[u] = session[u]
  BY <1>1, <1>2, <1>3, <1>4 DEF Th, TypeOK
<1>6. \A y \in Txns : y # x => commit'[y] = commit[y]
  <2>1. Head(s).txn = x
    <3>1. s \in Seq(Frame)
      BY <1>1, <1>3 DEF TypeOK
    <3> QED
      BY <1>3, <3>1
  <2> QED
    BY <1>1, <2>1 DEF PopInner, TypeOK
<1>7. commit'[x] <=> ok
  <2>1. Head(s).txn = x
    <3>1. s \in Seq(Frame)
      BY <1>1, <1>3 DEF TypeOK
    <3> QED
      BY <1>3, <3>1
  <2>2. commit'[x] = (commit[x] \/ ok)
    BY <1>1, <2>1 DEF PopInner, TypeOK
  <2>3. ~commit[x]
    BY <1>1, <1>2 DEF OpenUncommitted
  <2> QED
    BY <2>2, <2>3
<1>8. Begun(x)
  BY <1>1, <1>2 DEF OpenQueuesDue, Begun
<1> HIDE DEF ok
<1>9. ASSUME NEW p \in Txns
      PROVE  ChildFailed(p)' <=> ChildFailed(p) \/ (parent[x] = p /\ ~ok)
  <2>1. \A y \in Txns : y # x =>
          (/\ parent'[y] = p /\ status'[y] = "done" /\ Begun(y)' /\ ~commit'[y]
           <=> /\ parent[y] = p /\ status[y] = "done" /\ Begun(y) /\ ~commit[y])
    BY <1>2, <1>6 DEF Begun
  <2>2. /\ parent'[x] = p /\ status'[x] = "done" /\ Begun(x)' /\ ~commit'[x]
        <=> parent[x] = p /\ ~ok
    BY <1>2, <1>7, <1>8 DEF Begun
  <2>3. status[x] # "done"
    BY <1>2
  <2> QED
    BY <2>1, <2>2, <2>3 DEF ChildFailed
<1>10. Len(s) # 1
  <2> SUFFICES ASSUME Len(s) = 1 PROVE FALSE
    OBVIOUS
  <2> HIDE DEF s
  <2> QED
    BY <1>4
<1>11. /\ IsActive(x) /\ parent[x] = s[2].txn /\ parent[x] \in Txns
  <2>1. /\ s[1].txn = x /\ 1 # Len(s)
    BY <1>3, <1>10
  <2>2. parent[s[1].txn] = s[1 + 1].txn /\ s[1 + 1].txn \in Txns
    BY <1>1, <1>3, <2>1, AboveIsChild
  <2> HIDE DEF s
  <2> QED
    BY <1>2, <2>1, <2>2 DEF IsActive
(* the frame below the top is the only one of the call x is nested in *)
<1>12. ASSUME NEW i \in 1..Len(s), i # 1
       PROVE  s[i].txn = parent[x] <=> i = 2
  <2> SUFFICES ASSUME s[i].txn = parent[x] PROVE i = 2
    BY <1>11
  <2>1. i - 1 \in 1..Len(s) /\ i - 1 # Len(s) /\ (i - 1) + 1 = i
    <3> HIDE DEF s
    <3> QED
      BY <1>4, <1>12
  <2>2. /\ s[i - 1].txn \in Txns /\ IsActive(s[i - 1].txn)
        /\ parent[s[i - 1].txn] = parent[x]
    BY <1>1, <1>3, <2>1, AboveIsChild
  <2>3. s[i - 1].txn = x
    BY <1>1, <1>11, <2>2, TransactionAssumption DEF SingleChild
  <2>4. i - 1 = 1
    BY <1>3, <2>1, <2>3
  <2> HIDE DEF s
  <2> QED
    BY <1>4, <2>4
<1>13. ASSUME NEW i \in 1..Len(t)
       PROVE  FrameInChain(Th(x), i)'
  <2>1. /\ i + 1 \in 1..Len(s) /\ i + 1 # 1
        /\ i = Len(t) <=> i + 1 = Len(s)
        /\ i # Len(t) => i + 1 \in 1..Len(t)
        /\ i + 1 = 2 <=> i = 1
    <3> HIDE DEF s
    <3> QED
      BY <1>4
  <2>2. PICK y \in Txns : y = s[i + 1].txn
    BY <1>1, <1>3, <2>1, FrameTxn
  <2>3. FrameInChain(Th(x), i + 1)
    BY <1>1, <1>3, <2>1 DEF Chained
  <2>4. /\ status[y] = "open" /\ Th(y) = Th(x) /\ y # x
        /\ parent[y] = IF i + 1 = Len(s) THEN NoTxn ELSE s[(i + 1) + 1].txn
        /\ s[i + 1].childFailed <=> ChildFailed(y)
    BY <1>3, <2>1, <2>2, <2>3 DEF FrameInChain
  <2>5. /\ t[i].txn = y
        /\ t[i].childFailed <=> s[i + 1].childFailed \/ (i = 1 /\ ~ok)
        /\ i # Len(t) => t[i + 1].txn = s[(i + 1) + 1].txn
    BY <1>4, <2>1, <2>2
  <2>6. y = parent[x] <=> i = 1
    BY <1>12, <2>1, <2>2
  <2>7. t[i].childFailed <=> ChildFailed(y)'
    BY <1>9, <2>4, <2>5, <2>6
  <2>8. status'[y] = "open" /\ Th(y)' = Th(x)
    BY <1>2, <1>5, <2>4
  <2>9. parent'[y] = IF i = Len(t) THEN NoTxn ELSE t[i + 1].txn
    BY <1>2, <2>1, <2>4, <2>5
  <2>10. session'[Th(x)'] = t /\ Th(x)' = Th(x)
    BY <1>5
  <2> HIDE DEF s
  <2> QED
    BY <2>5, <2>7, <2>8, <2>9, <2>10 DEF FrameInChain
<1>14. ASSUME NEW u \in Threads, NEW i \in 1..Len(session[u]), u # Th(x)
       PROVE  FrameInChain(u, i)'
  <2>1. PICK y \in Txns : y = session[u][i].txn
    BY <1>1, FrameTxn
  <2>2. /\ status[y] = "open" /\ Th(y) = u
        /\ parent[y] = IF i = Len(session[u]) THEN NoTxn ELSE session[u][i + 1].txn
        /\ session[u][i].childFailed <=> ChildFailed(y)
    BY <1>1, <2>1 DEF Chained, FrameInChain
  <2>3. y # x /\ y # parent[x]
    <3>1. Th(x) = Th(parent[x])
      BY <1>1, <1>3, <1>11, TransactionAssumption DEF Tree, Th
    <3> QED
      BY <1>14, <2>2, <3>1
  <2>4. /\ status'[y] = "open" /\ Th(y)' = u
        /\ parent'[y] = IF i = Len(session[u]) THEN NoTxn ELSE session[u][i + 1].txn
    BY <1>2, <1>5, <2>2, <2>3
  <2>5. session[u][i].childFailed <=> ChildFailed(y)'
    BY <1>9, <2>2, <2>3
  <2>6. session'[u] = session[u]
    BY <1>5, <1>14
  <2> QED
    BY <2>1, <2>4, <2>5, <2>6 DEF FrameInChain
<1>15. ASSUME NEW y \in Txns, status'[y] = "open"
       PROVE  HasFrame(y)'
  <2>1. status[y] = "open" /\ y # x
    BY <1>2, <1>15
  <2>2. HasFrame(y) /\ Th(y) \in Threads
    BY <1>1, <2>1, OpenHasFrame DEF Chained
  <2>3. PICK j \in 1..Len(session[Th(y)]) : session[Th(y)][j].txn = y
    BY <2>2 DEF HasFrame
  <2>4. CASE Th(y) # Th(x)
    BY <1>5, <2>2, <2>3, <2>4 DEF HasFrame
  <2>5. CASE Th(y) = Th(x)
    <3>1. j \in 1..Len(s) /\ s[j].txn = y /\ j # 1
      BY <1>3, <2>1, <2>3, <2>5
    <3>2. j - 1 \in 1..Len(t) /\ (j - 1) + 1 = j
      <4> HIDE DEF s
      <4> QED
        BY <1>4, <3>1
    <3>3. t[j - 1].txn = y
      BY <1>4, <3>1, <3>2
    <3>4. session'[Th(y)'] = t
      BY <1>5, <2>5
    <3> QED
      BY <3>2, <3>3, <3>4 DEF HasFrame
  <2> QED
    BY <2>4, <2>5
<1>16. Chained'
  <2>1. ASSUME NEW u \in Threads, NEW i \in 1..Len(session'[u])
        PROVE  FrameInChain(u, i)'
    <3>1. CASE u = Th(x)
      <4>1. i \in 1..Len(t)
        BY <1>5, <3>1
      <4>2. Th(x)' = u
        BY <1>5, <3>1
      <4>3. FrameInChain(Th(x), i)'
        BY <1>13, <4>1
      <4> QED
        BY <4>2, <4>3 DEF FrameInChain
    <3>2. CASE u # Th(x)
      BY <1>5, <1>14, <3>2
    <3> QED
      BY <3>1, <3>2
  <2> QED
    BY <1>15, <2>1 DEF Chained
<1>17. SingleChild'
  <2>1. \A y \in Txns : IsActive(y)' => IsActive(y)
    BY <1>2 DEF IsActive
  <2> QED
    BY <1>1, <1>2, <2>1, SameSingle
<1>18. OpenUncommitted'
  BY <1>1, <1>2, <1>6 DEF OpenUncommitted
<1> QED
  BY <1>16, <1>17, <1>18 DEF ChainInv

(* With the outermost call the last frame goes. *)
LEMMA ChainLast ==
  ASSUME Chaining, NEW x \in Txns,
         \/ \E result \in {"returned", "threw"} : PopLast(x, result)
         \/ CommitFails(x)
  PROVE  ChainInv'
<1>1. /\ TypeOK /\ TreeInv /\ FramesExact /\ FramesHoldConnection /\ SingleChild
  BY DEF Chaining, TreeInv, CallInv, StackInv, ChainInv, SessionsAndThreadsKept,
     FramesHoldConnection
<1>2. /\ status[x] = "open" /\ ActiveChildren(x) = {} /\ Len(session[Th(x)]) = 1
      /\ status'[x] = "done" /\ \A y \in Txns : y # x => status'[y] = status[y]
      /\ session' = [session EXCEPT ![Th(x)] = <<>>]
      /\ UNCHANGED parent
  BY <1>1 DEF PopLast, CommitFails, BlockOver, Finish, TypeOK
<1>3. /\ Th(x) \in Threads /\ connection = Th(x)
      /\ \A y \in Txns : status[y] = "open" => y = x
  BY <1>1, <1>2, LastIsOutermost
<1>4. \A y \in Txns : status'[y] # "open"
  BY <1>2, <1>3
<1>5. \A th \in Threads : session'[th] = <<>>
  BY <1>1, <1>2, <1>3 DEF TypeOK, FramesHoldConnection
<1>6. \A th \in Threads : Len(session'[th]) = 0
  BY <1>5, EmptySeq
<1>7. Chained'
  BY <1>4, <1>6 DEF Chained
<1>8. SingleChild'
  <2>1. \A y \in Txns : IsActive(y)' => IsActive(y)
    BY <1>2 DEF IsActive
  <2> QED
    BY <1>1, <1>2, <2>1, SameSingle
<1> QED
  BY <1>4, <1>7, <1>8 DEF ChainInv, OpenUncommitted

(* Blocks neither begin nor end a call. *)
LEMMA ChainBlock ==
  ASSUME ChainInv, NEW x \in Txns, InBlock(x)
  PROVE  ChainInv'
<1>1. UNCHANGED <<status, parent, element, thread, session, members, fate, commit>>
  BY DEF InBlock, WriteRow, Notify, Execute, QueueTrigger, QueueTriggersRacing,
     CancelWrite, database
<1>2. SingleChild' /\ OpenUncommitted'
  BY <1>1 DEF ChainInv, SingleChild, OpenUncommitted, IsActive
<1>3. Chained'
  BY <1>1 DEF ChainInv, Chained, FrameInChain, HasFrame, ChildFailed, Begun, Th
<1> QED
  BY <1>2, <1>3 DEF ChainInv

(* Every frame is ended by the call that began it, and knows of the        *)
(* failures of the calls nested in it, as long as they are nested one      *)
(* after the other and none is cancelled (setTransactionSuccessful and     *)
(* endTransaction act on the top frame).                                   *)
THEOREM ChainsInvariant ==
  ASSUME OneByOne
  PROVE  Spec => []ChainInv
<1>1. NoCancellation
  BY DEF OneByOne, NoCancellation
<1>2. Init => ChainInv
  <2> SUFFICES ASSUME Init PROVE ChainInv
    OBVIOUS
  <2>1. \A y \in Txns : status[y] = "none" /\ ~IsActive(y)
    BY DEF Init, IsActive
  <2>2. \A th \in Threads : Len(session[th]) = 0
    BY EmptySeq DEF Init
  <2> QED
    BY <2>1, <2>2 DEF ChainInv, SingleChild, OpenUncommitted, Chained
<1>3. /\ TreeInv /\ SessionsAndThreadsKept /\ StackInv /\ OutcomeInv
      /\ ChainInv /\ [Next]_vars
      => ChainInv'
  <2> SUFFICES ASSUME Chaining, [Next]_vars PROVE ChainInv'
    BY DEF Chaining
  <2>1. ASSUME NEW x \in Txns,
               \/ Request(x)
               \/ \E th \in Threads : AcquireThread(x, th)
               \/ \E p \in Txns : Nest(x, p)
               \/ BeginFails(x)
        PROVE  ChainInv'
    BY <2>1, ChainStarts
  <2>2. ASSUME NEW x \in Txns, Begin(x)
        PROVE  ChainInv'
    BY <2>2, ChainBegin
  <2>3. ASSUME NEW x \in Txns, InBlock(x)
        PROVE  ChainInv'
    BY <2>3, ChainBlock DEF Chaining
  <2>4. ASSUME NEW x \in Txns, End(x)
        PROVE  ChainInv'
    <3>1. CallInv /\ FramesOfTree
      BY DEF Chaining, TreeInv, StackInv
    <3> QED
      BY <2>4, <3>1, EndShape, ChainInner, ChainLast
  <2>5. ASSUME NEW x \in Txns,
               \/ CancelBeforeBegin(x) \/ AbandonThread(x) \/ CompleteJob(x)
               \/ \E returned \in BOOLEAN : CancelInBlock(x, returned)
        PROVE  ChainInv'
    BY <1>1, <2>5 DEF NoCancellation, CancelBeforeBegin, AbandonThread, CompleteJob,
       CancelInBlock
  <2>6. CASE UNCHANGED vars
    <3>1. UNCHANGED <<status, parent, element, thread, session, members, fate, commit>>
      BY <2>6 DEF vars
    <3>2. SingleChild' /\ OpenUncommitted'
      BY <3>1 DEF Chaining, ChainInv, SingleChild, OpenUncommitted, IsActive
    <3>3. Chained'
      BY <3>1 DEF Chaining, ChainInv, Chained, FrameInChain, HasFrame, ChildFailed, Begun, Th
    <3> QED
      BY <3>2, <3>3 DEF ChainInv
  <2> QED
    BY <2>1, <2>2, <2>3, <2>4, <2>5, <2>6 DEF Next
<1> QED
  BY <1>1, <1>2, <1>3, CallTrees, ThreadsKept, FramesMatchCalls, OutcomesInvariant, PTL
  DEF Spec

(* The property the runs check: SQLite's frames are the chain of calls.    *)
THEOREM FramesAreChains ==
  ASSUME OneByOne
  PROVE  Spec => []SessionsAreCallChains
<1>1. NoCancellation
  BY DEF OneByOne, NoCancellation
<1>2. StackInv /\ ChainInv => SessionsAreCallChains
  BY ChainsOfFrames DEF StackInv, ChainInv
<1> QED
  BY <1>1, <1>2, FramesMatchCalls, ChainsInvariant, PTL

-----------------------------------------------------------------------------
(* Announcements *)

(* Blocks write from one thread, nest one call after the other, and        *)
(* nothing is cancelled, not even a single write.                          *)
PlainUse == Usage = {}

(* Some call in the SQLite transaction has failed: it will be rolled back. *)
Doomed == \E y \in members : status[y] = "done" /\ outcome[y] # "returned"

(* What owes a notification is queued, or on its way to be, by a call that *)
(* is open, unless all of it will be rolled back.                          *)
ChangesQueued ==
  \A t \in due :
    Doomed \/ \E y \in Txns : status[y] = "open" /\ t \in tables[y] \cup inflight[y]

AnnounceInv == ChangesQueued /\ EveryChangeAnnounced

(* A call that ends has the top frame, which knows of failures only if     *)
(* there are any.                                                          *)
LEMMA TopFrame ==
  ASSUME Chaining, NEW x \in Txns, status[x] = "open", ActiveChildren(x) = {}
  PROVE  /\ Head(session[Th(x)]).txn = x
         /\ Head(session[Th(x)]).childFailed => Doomed
         /\ Len(session[Th(x)]) = 1 /\ Doomed => Head(session[Th(x)]).childFailed
<1>1. CallInv /\ TypeOK /\ Chained /\ FailuresKnown
  BY DEF Chaining, TreeInv, CallInv, OutcomeInv, ChainInv
<1>2. /\ Th(x) \in Threads /\ 1 \in 1..Len(session[Th(x)])
      /\ session[Th(x)][1].txn = x
  BY <1>1, TopIsInnermost
<1>3. /\ session[Th(x)] \in Seq(Frame) /\ session[Th(x)] # <<>>
  BY <1>1, OpenHasFrame
<1>4. Head(session[Th(x)]) = session[Th(x)][1]
  BY <1>3
<1>5. (\E i \in 1..Len(session[Th(x)]) : session[Th(x)][i].childFailed) <=> Doomed
  BY <1>1, <1>2, <1>3 DEF FailuresKnown, Doomed
<1>6. ASSUME Len(session[Th(x)]) = 1, Doomed
      PROVE  session[Th(x)][1].childFailed
  BY <1>5, <1>6
<1> QED
  BY <1>2, <1>4, <1>5, <1>6

(* At COMMIT the outermost call has queued exactly what is owed. *)
LEMMA AllQueued ==
  ASSUME Chaining, ChangesQueued, NEW x \in Txns, PopLast(x, "returned"),
         EndsWell(x, "returned")
  PROVE  tables[x] = due
<1>1. /\ TypeOK /\ TreeInv /\ FramesExact /\ FramesHoldConnection /\ OpenQueuesDue
  BY DEF Chaining, TreeInv, CallInv, StackInv, OutcomeInv, SessionsAndThreadsKept,
     FramesHoldConnection
<1>2. /\ status[x] = "open" /\ ActiveChildren(x) = {} /\ inflight[x] = {}
      /\ Len(session[Th(x)]) = 1
  BY DEF PopLast, BlockOver
<1>3. \A y \in Txns : status[y] = "open" => y = x
  BY <1>1, <1>2, LastIsOutermost
<1>4. ~Doomed
  BY <1>2, TopFrame DEF EndsWell
<1>5. due \subseteq tables[x]
  BY <1>2, <1>3, <1>4 DEF ChangesQueued
<1> QED
  BY <1>1, <1>2, <1>5 DEF OpenQueuesDue

(* Before its block a call owes and queues nothing. *)
LEMMA AnnounceStarts ==
  ASSUME Chaining, AnnounceInv, NEW x \in Txns,
         \/ Request(x)
         \/ \E th \in Threads : AcquireThread(x, th)
         \/ \E p \in Txns : Nest(x, p)
         \/ BeginFails(x)
         \/ Begin(x)
  PROVE  AnnounceInv'
<1>1. TypeOK /\ NothingBefore
  BY DEF Chaining, TreeInv, CallInv, OutcomeInv
<1>2. /\ status[x] \in {"none", "waiting", "ready"}
      /\ members \subseteq members'
      /\ UNCHANGED <<due, inflight, tables, unannounced>>
  BY DEF Request, AcquireThread, Nest, BeginFails, Begin, database, notices
<1>3. \A y \in Txns : y # x => status'[y] = status[y] /\ outcome'[y] = outcome[y]
  BY <1>1 DEF TypeOK, Request, AcquireThread, Nest, BeginFails, Begin, Finish
<1>4. x \notin members /\ members \subseteq Txns
  BY <1>1, <1>2 DEF NothingBefore, TypeOK
<1>5. Doomed => Doomed'
  BY <1>2, <1>3, <1>4 DEF Doomed
<1>6. \A y \in Txns : status[y] = "open" => status'[y] = "open"
  BY <1>2, <1>3
<1> QED
  BY <1>2, <1>5, <1>6 DEF AnnounceInv, ChangesQueued, EveryChangeAnnounced

(* A notification owed is on its way to the call's set (sendTableTrigger   *)
(* in a transaction); execute owes none.                                   *)
LEMMA AnnounceBlock ==
  ASSUME PlainUse, Chaining, AnnounceInv, NEW x \in Txns, InBlock(x)
  PROVE  AnnounceInv'
<1>1. TypeOK /\ NothingBefore
  BY DEF Chaining, TreeInv, CallInv, OutcomeInv
<1>2. UNCHANGED <<status, outcome, members, unannounced>>
  BY DEF InBlock, WriteRow, Notify, Execute, QueueTrigger, QueueTriggersRacing,
     CancelWrite, database, notices
<1>3. Doomed' <=> Doomed
  BY <1>2 DEF Doomed
<1>4. /\ status[x] = "open"
      /\ \A y \in Txns : tables[y] \cup inflight[y] \subseteq tables'[y] \cup inflight'[y]
      /\ due' \subseteq due \cup (tables'[x] \cup inflight'[x])
  <2>1. ASSUME NEW t \in Tables, WriteRow(x, t) PROVE <1>4!:
    BY <1>1, <2>1 DEF TypeOK, WriteRow
  <2>2. ASSUME NEW t \in Tables, QueueTrigger(x, t) PROVE <1>4!:
    BY <1>1, <2>2 DEF TypeOK, QueueTrigger, database, NothingBefore
  <2>3. ASSUME NEW t \in Tables, Notify(x, t) PROVE <1>4!:
    BY <1>1, <2>3 DEF TypeOK, Notify
  <2>4. ASSUME NEW t \in Tables, Execute(x, t) PROVE <1>4!:
    BY <1>1, <2>4 DEF TypeOK, Execute
  <2> QED
    BY <2>1, <2>2, <2>3, <2>4 DEF InBlock, QueueTriggersRacing, CancelWrite, PlainUse
<1> QED
  BY <1>2, <1>3, <1>4 DEF AnnounceInv, ChangesQueued, EveryChangeAnnounced

(* A nested call that ends passes its set to its parent, unless it failed  *)
(* and the transaction is doomed.                                          *)
LEMMA AnnounceInner ==
  ASSUME Chaining, AnnounceInv, NEW x \in Txns, NEW result \in {"returned", "threw"},
         PopInner(x, result)
  PROVE  AnnounceInv'
<1>1. /\ TypeOK /\ Tree /\ TreeInv /\ FramesExact /\ FramesHoldConnection /\ OpenQueuesDue
  BY DEF Chaining, TreeInv, CallInv, StackInv, OutcomeInv, SessionsAndThreadsKept,
     FramesHoldConnection
<1>2. /\ status[x] = "open" /\ ActiveChildren(x) = {} /\ inflight[x] = {}
      /\ UNCHANGED <<due, members, inflight>>
      /\ SendTableTrigger(x, {})
      /\ Len(session[Th(x)]) > 1
  BY DEF PopInner, BlockOver
<1>3. /\ status'[x] = "done" /\ \A y \in Txns : y # x => status'[y] = status[y]
      /\ outcome'[x] = result /\ \A y \in Txns : y # x => outcome'[y] = outcome[y]
  BY <1>1 DEF TypeOK, PopInner, Finish
<1>4. /\ x \in members /\ members \subseteq Txns
  BY <1>1, <1>2 DEF OpenQueuesDue, TypeOK
<1>5. parent[x] # NoTxn /\ parent[x] \in Txns /\ status'[parent[x]] = "open"
  <2>1. ASSUME Len(session[Th(x)]) = 1 PROVE FALSE
    BY <1>2, <2>1
  <2>2. parent[x] # NoTxn
    BY <1>1, <1>2, <2>1, LastIsOutermost
  <2>3. parent[x] \in Txns /\ status[parent[x]] = "open"
    BY <1>1, <1>2, <2>2 DEF Tree, TypeOK, IsActive
  <2>4. parent[x] # x
    BY <1>2, <2>3 DEF ActiveChildren, IsActive
  <2> QED
    BY <1>3, <2>2, <2>3, <2>4
<1>6. \A y \in Txns : tables[y] \subseteq tables'[y]
  BY <1>1, <1>2 DEF SendTableTrigger, TypeOK
<1>7. unannounced' = unannounced
  BY <1>2 DEF SendTableTrigger
<1>8. Doomed => Doomed'
  <2> SUFFICES ASSUME NEW y \in members, status[y] = "done", outcome[y] # "returned"
               PROVE  Doomed'
    BY DEF Doomed
  <2>1. y # x
    BY <1>2
  <2> QED
    BY <1>2, <1>3, <1>4, <2>1 DEF Doomed
<1>9. CASE ~EndsWell(x, result)
  <2>1. Doomed'
    <3>1. CASE result # "returned"
      BY <1>2, <1>3, <1>4, <3>1 DEF Doomed
    <3>2. CASE result = "returned"
      BY <1>2, <1>8, <1>9, <3>2, TopFrame DEF EndsWell
    <3> QED
      BY <3>1, <3>2
  <2> QED
    BY <1>7, <2>1 DEF AnnounceInv, ChangesQueued, EveryChangeAnnounced
<1>10. CASE EndsWell(x, result)
  <2>1. commit'[x]
    <3>1. Head(session[Th(x)]).txn = x
      BY <1>2, TopFrame
    <3> QED
      BY <1>1, <1>10, <3>1 DEF PopInner, TypeOK
  <2>2. tables[x] \subseteq tables'[parent[x]]
    BY <1>1, <1>2, <1>5, <2>1 DEF SendTableTrigger, TypeOK
  <2>3. ASSUME NEW t \in due, NEW y \in Txns, status[y] = "open",
               t \in tables[y] \cup inflight[y]
        PROVE  \E z \in Txns : status'[z] = "open" /\ t \in tables'[z] \cup inflight'[z]
    <3>1. CASE y = x
      BY <1>2, <1>5, <2>2, <2>3, <3>1
    <3>2. CASE y # x
      BY <1>2, <1>3, <1>6, <2>3, <3>2
    <3> QED
      BY <3>1, <3>2
  <2> QED
    BY <1>2, <1>7, <1>8, <2>3 DEF AnnounceInv, ChangesQueued, EveryChangeAnnounced
<1> QED
  BY <1>9, <1>10

(* The outermost call announces what all of its calls owe, or rolls their  *)
(* changes back.                                                           *)
LEMMA AnnounceLast ==
  ASSUME Chaining, AnnounceInv, NEW x \in Txns,
         \/ \E result \in {"returned", "threw"} : PopLast(x, result)
         \/ CommitFails(x)
  PROVE  AnnounceInv'
<1>1. due' = {}
  BY DEF PopLast, CommitFails
<1>2. ASSUME NEW result \in {"returned", "threw"}, PopLast(x, result)
      PROVE  unannounced' = unannounced
  <2>1. SendTableTrigger(x, IF EndsWell(x, result) THEN due ELSE {})
    BY <1>2 DEF PopLast
  <2>2. CASE ~EndsWell(x, result)
    BY <2>1, <2>2 DEF SendTableTrigger
  <2>3. CASE EndsWell(x, result)
    <3>1. result = "returned"
      BY <2>3 DEF EndsWell
    <3>2. tables[x] = due
      BY <1>2, <2>3, <3>1, AllQueued DEF AnnounceInv
    <3>3. /\ TypeOK /\ TreeInv /\ FramesExact /\ FramesHoldConnection
      BY DEF Chaining, TreeInv, CallInv, StackInv, SessionsAndThreadsKept,
         FramesHoldConnection
    <3>4. status[x] = "open" /\ ActiveChildren(x) = {} /\ Len(session[Th(x)]) = 1
      BY <1>2 DEF PopLast, BlockOver
    <3>5. parent[x] = NoTxn
      BY <3>3, <3>4, LastIsOutermost
    <3>6. commit'[x]
      <4>1. Head(session[Th(x)]).txn = x
        BY <3>4, TopFrame
      <4> QED
        BY <1>2, <2>3, <3>3, <4>1 DEF PopLast, TypeOK
    <3> QED
      BY <2>1, <2>3, <3>2, <3>5, <3>6 DEF SendTableTrigger
  <2> QED
    BY <2>2, <2>3
<1>3. CommitFails(x) => unannounced' = unannounced
  BY DEF CommitFails, notices
<1> QED
  BY <1>1, <1>2, <1>3 DEF AnnounceInv, ChangesQueued, EveryChangeAnnounced

(* What is queued is what is owed, up to the COMMIT. *)
THEOREM AnnouncementsInvariant ==
  ASSUME PlainUse
  PROVE  Spec => []AnnounceInv
<1>1. OneByOne /\ NoCancellation
  BY DEF PlainUse, OneByOne, NoCancellation
<1>2. Init => AnnounceInv
  BY DEF Init, AnnounceInv, ChangesQueued, EveryChangeAnnounced
<1>3. /\ TreeInv /\ SessionsAndThreadsKept /\ StackInv /\ OutcomeInv /\ ChainInv
      /\ AnnounceInv /\ [Next]_vars
      => AnnounceInv'
  <2> SUFFICES ASSUME Chaining, AnnounceInv, [Next]_vars PROVE AnnounceInv'
    BY DEF Chaining
  <2>1. ASSUME NEW x \in Txns,
               \/ Request(x)
               \/ \E th \in Threads : AcquireThread(x, th)
               \/ \E p \in Txns : Nest(x, p)
               \/ BeginFails(x)
               \/ Begin(x)
        PROVE  AnnounceInv'
    BY <2>1, AnnounceStarts
  <2>2. ASSUME NEW x \in Txns, InBlock(x)
        PROVE  AnnounceInv'
    BY <2>2, AnnounceBlock
  <2>3. ASSUME NEW x \in Txns, End(x)
        PROVE  AnnounceInv'
    <3>1. CallInv /\ FramesOfTree
      BY DEF Chaining, TreeInv, StackInv
    <3> QED
      BY <2>3, <3>1, EndShape, AnnounceInner, AnnounceLast
  <2>4. ASSUME NEW x \in Txns,
               \/ CancelBeforeBegin(x) \/ AbandonThread(x) \/ CompleteJob(x)
               \/ \E returned \in BOOLEAN : CancelInBlock(x, returned)
        PROVE  AnnounceInv'
    BY <1>1, <2>4 DEF NoCancellation, CancelBeforeBegin, AbandonThread, CompleteJob,
       CancelInBlock
  <2>5. CASE UNCHANGED vars
    BY <2>5 DEF vars, AnnounceInv, ChangesQueued, EveryChangeAnnounced, Doomed
  <2> QED
    BY <2>1, <2>2, <2>3, <2>4, <2>5 DEF Next
<1> QED
  BY <1>1, <1>2, <1>3, CallTrees, ThreadsKept, FramesMatchCalls, OutcomesInvariant,
     ChainsInvariant, PTL
  DEF Spec

(* "Transactions queue up all query notifications until they have been     *)
(* applied": every notification a committed transaction owes is sent,      *)
(* however deeply nested the call that owed it (SqliteTransaction.addAll,  *)
(* sendTableTrigger).  execute owes none.                                  *)
THEOREM ChangesAnnounced ==
  ASSUME PlainUse
  PROVE  Spec => []EveryChangeAnnounced
<1>1. AnnounceInv => EveryChangeAnnounced
  BY DEF AnnounceInv
<1> QED
  BY <1>1, AnnouncementsInvariant, PTL

-----------------------------------------------------------------------------
(* withTransaction implements AtomicTransaction                            *)

(* The abstract state of a call, as Atomic defines it. *)
AbsState(y) == IF ~IsOutermost(y) THEN "idle"
               ELSE IF y \in members THEN "running" ELSE fate[y]
AbsChanged(y) == IF IsOutermost(y) /\ y \in members THEN dirty ELSE {}
AbsDue(y) == IF IsOutermost(y) /\ y \in members THEN due ELSE {}
AbsAnnounced(y) == IF IsOutermost(y) /\ fate[y] = "committed" /\ commit[y]
                     THEN tables[y] ELSE {}

(* The abstract variables are the functions of these values. *)
LEMMA AbstractStutter ==
  ASSUME \A y \in Txns : /\ AbsState(y)' = AbsState(y)
                         /\ AbsChanged(y)' = AbsChanged(y)
                         /\ AbsDue(y)' = AbsDue(y)
                         /\ AbsAnnounced(y)' = AbsAnnounced(y)
  PROVE  UNCHANGED Atomic!vars
<1>1. [y \in Txns |-> AbsState(y)]' = [y \in Txns |-> AbsState(y)]
  OBVIOUS
<1>2. [y \in Txns |-> AbsChanged(y)]' = [y \in Txns |-> AbsChanged(y)]
  OBVIOUS
<1>3. [y \in Txns |-> AbsAnnounced(y)]' = [y \in Txns |-> AbsAnnounced(y)]
  OBVIOUS
<1>4. [y \in Txns |-> AbsDue(y)]' = [y \in Txns |-> AbsDue(y)]
  OBVIOUS
<1> QED
  BY <1>1, <1>2, <1>3, <1>4 DEF Atomic!vars, AbsState, AbsChanged, AbsDue, AbsAnnounced

(* Only one outermost call has a frame in the SQLite transaction. *)
LEMMA OneOutermost ==
  ASSUME Settling, NEW x \in members, NEW y \in members, IsOutermost(x), IsOutermost(y)
  PROVE  x = y
<1>1. Tree /\ MembersOfTree /\ TypeOK
  BY DEF Settling, TreeInv, CallInv, OutcomeInv
<1>2. element[x] = element[y] /\ x \in Txns /\ y \in Txns
  BY <1>1 DEF MembersOfTree, TypeOK
<1> QED
  BY <1>1, <1>2 DEF Tree, IsOutermost

(* The calls that do not change the database, or have not begun. *)
LEMMA QuietCalls ==
  ASSUME Chaining, NEW x \in Txns,
         \/ Request(x)
         \/ \E th \in Threads : AcquireThread(x, th)
         \/ \E p \in Txns : Nest(x, p)
         \/ BeginFails(x)
  PROVE  UNCHANGED Atomic!vars
<1>1. TypeOK /\ NothingBefore
  BY DEF Chaining, TreeInv, CallInv, OutcomeInv
<1>2. /\ status[x] \in {"none", "waiting", "ready"}
      /\ UNCHANGED <<dirty, due, members, fate, tables, commit>>
      /\ \A y \in Txns : y # x => parent'[y] = parent[y]
  BY <1>1 DEF Request, AcquireThread, Nest, BeginFails, database, TypeOK
<1>3. x \notin members /\ fate[x] = "idle"
  BY <1>1, <1>2 DEF NothingBefore
<1>4. ASSUME NEW y \in Txns
      PROVE  /\ AbsState(y)' = AbsState(y)
             /\ AbsChanged(y)' = AbsChanged(y)
             /\ AbsDue(y)' = AbsDue(y)
             /\ AbsAnnounced(y)' = AbsAnnounced(y)
  <2>1. CASE y = x
    BY <1>2, <1>3, <2>1 DEF AbsState, AbsChanged, AbsDue, AbsAnnounced, IsOutermost
  <2>2. CASE y # x
    BY <1>2, <2>2 DEF AbsState, AbsChanged, AbsDue, AbsAnnounced, IsOutermost
  <2> QED
    BY <2>1, <2>2
<1> QED
  BY <1>4, AbstractStutter

(* The outermost call begins the transaction; nested calls join it. *)
LEMMA BeginIsStart ==
  ASSUME Chaining, NEW x \in Txns, Begin(x)
  PROVE  Atomic!Start(x) \/ UNCHANGED Atomic!vars
<1>1. /\ TypeOK /\ Tree /\ TreeInv /\ FramesExact /\ NothingBefore /\ MembersOfTree
  BY DEF Chaining, TreeInv, CallInv, StackInv, OutcomeInv
<1>2. /\ status[x] = "ready"
      /\ session[Th(x)] = <<>> => connection = NoThread
      /\ members' = members \cup {x}
      /\ UNCHANGED <<parent, dirty, due, fate, tables, commit>>
  BY DEF Begin
<1>3. x \notin members /\ fate[x] = "idle"
  BY <1>1, <1>2 DEF NothingBefore
<1>4. \A y \in Txns : AbsAnnounced(y)' = AbsAnnounced(y)
  BY <1>2 DEF AbsAnnounced, IsOutermost
<1>5. CASE ~IsOutermost(x)
  <2>1. ASSUME NEW y \in Txns
        PROVE  /\ AbsState(y)' = AbsState(y)
               /\ AbsChanged(y)' = AbsChanged(y)
               /\ AbsDue(y)' = AbsDue(y)
    <3>1. IsOutermost(y)' <=> IsOutermost(y)
      BY <1>2 DEF IsOutermost
    <3>2. IsOutermost(y) => (y \in members' <=> y \in members)
      BY <1>2, <1>5
    <3> QED
      BY <1>2, <3>1, <3>2 DEF AbsState, AbsChanged, AbsDue
  <2> QED
    BY <1>4, <2>1, AbstractStutter
<1>6. CASE IsOutermost(x)
  <2>1. members = {} /\ dirty = {} /\ due = {}
    BY <1>1, <1>2, <1>6, FirstIsOutermost DEF IsOutermost, MembersOfTree
  <2>2. /\ AbsState(x) = "idle" /\ AbsState(x)' = "running"
        /\ \A y \in Txns : y # x => AbsState(y)' = AbsState(y)
        /\ \A y \in Txns : AbsState(y) # "running"
        /\ \A y \in Txns : AbsChanged(y)' = AbsChanged(y) /\ AbsDue(y)' = AbsDue(y)
    <3>1. \A y \in Txns : fate[y] # "running"
      BY <1>1 DEF TypeOK
    <3> QED
      BY <1>2, <1>3, <1>6, <2>1, <3>1 DEF AbsState, AbsChanged, AbsDue, IsOutermost
  <2> DEFINE state == [y \in Txns |-> AbsState(y)]
             changed == [y \in Txns |-> AbsChanged(y)]
             owed == [y \in Txns |-> AbsDue(y)]
             announced == [y \in Txns |-> AbsAnnounced(y)]
  <2>3. /\ state[x] = "idle"
        /\ \A y \in Txns : state[y] # "running"
        /\ state' = [state EXCEPT ![x] = "running"]
        /\ changed' = changed /\ owed' = owed /\ announced' = announced
    BY <1>4, <2>2
  <2> QED
    BY <2>3 DEF Atomic!Start, AbsState, AbsChanged, AbsDue, AbsAnnounced
<1> QED
  BY <1>5, <1>6

(* What the block of any nested call changes or owes is the outermost      *)
(* one's; queueing a trigger is no step of it.                             *)
LEMMA BlockIsChange ==
  ASSUME Chaining, NEW x \in Txns, InBlock(x)
  PROVE  \/ \E c \in Txns : \E t \in Tables :
              Atomic!Change(c, t) \/ Atomic!Notify(c, t) \/ Atomic!Write(c, t)
         \/ UNCHANGED Atomic!vars
<1>1. /\ TypeOK /\ Tree /\ TreeInv /\ Settling /\ NothingBefore /\ OpenQueuesDue
      /\ MembersOfTree
  BY DEF Chaining, Settling, TreeInv, CallInv, OutcomeInv
<1>2. /\ UNCHANGED <<parent, members, fate, commit>>
      /\ \A y \in Txns : y # x => tables'[y] = tables[y]
  BY <1>1 DEF InBlock, WriteRow, Notify, Execute, QueueTrigger, QueueTriggersRacing,
     CancelWrite, database, TypeOK
<1>3. status[x] = "open"
  BY <1>1 DEF InBlock, WriteRow, Notify, Execute, QueueTrigger, QueueTriggersRacing,
     CancelWrite, NothingBefore
<1>4. x \in members /\ fate[x] = "idle"
  BY <1>1, <1>3 DEF OpenQueuesDue, MembersOfTree
<1>5. \A y \in Txns : AbsState(y)' = AbsState(y) /\ AbsAnnounced(y)' = AbsAnnounced(y)
  BY <1>2, <1>4 DEF AbsState, AbsAnnounced, IsOutermost
<1>6. PICK c \in Txns : c = element[x]
  BY <1>1 DEF TypeOK
<1>7. IsActive(c) /\ IsOutermost(c)
  BY <1>1, <1>3, <1>6, RootActive DEF TypeOK, Tree, IsActive, IsOutermost
<1>8. c \in members
  <2>1. status[c] = "open"
    BY <1>1, <1>3, <1>6, <1>7 DEF Tree, IsActive
  <2> QED
    BY <1>1, <1>7, <2>1 DEF OpenQueuesDue
<1>9. \A y \in Txns : y # c => ~(IsOutermost(y) /\ y \in members)
  BY <1>1, <1>7, <1>8, OneOutermost
<1> DEFINE state == [y \in Txns |-> AbsState(y)]
           changed == [y \in Txns |-> AbsChanged(y)]
           owed == [y \in Txns |-> AbsDue(y)]
           announced == [y \in Txns |-> AbsAnnounced(y)]
<1>10. /\ state[c] = "running"
       /\ state' = state /\ announced' = announced
  BY <1>5, <1>7, <1>8 DEF AbsState
<1>11. dirty' = dirty => changed' = changed
  BY <1>2 DEF AbsChanged, IsOutermost
<1>12. due' = due => owed' = owed
  BY <1>2 DEF AbsDue, IsOutermost
<1>13. ASSUME NEW t \in Tables, dirty' = dirty \cup {t}
       PROVE  changed' = [changed EXCEPT ![c] = @ \cup {t}]
  <2>1. /\ AbsChanged(c)' = AbsChanged(c) \cup {t}
        /\ \A y \in Txns : y # c => AbsChanged(y)' = AbsChanged(y)
    BY <1>2, <1>7, <1>8, <1>9, <1>13 DEF AbsChanged, IsOutermost
  <2> QED
    BY <2>1
<1>14. ASSUME NEW t \in Tables, due' = due \cup {t}
       PROVE  owed' = [owed EXCEPT ![c] = @ \cup {t}]
  <2>1. /\ AbsDue(c)' = AbsDue(c) \cup {t}
        /\ \A y \in Txns : y # c => AbsDue(y)' = AbsDue(y)
    BY <1>2, <1>7, <1>8, <1>9, <1>14 DEF AbsDue, IsOutermost
  <2> QED
    BY <2>1
<1>15. ASSUME NEW t \in Tables, WriteRow(x, t)
       PROVE  Atomic!Write(c, t)
  <2>1. dirty' = dirty \cup {t} /\ due' = due \cup {t}
    BY <1>15 DEF WriteRow
  <2> QED
    BY <1>10, <1>13, <1>14, <2>1
    DEF Atomic!Write, AbsState, AbsChanged, AbsDue, AbsAnnounced
<1>16. ASSUME NEW t \in Tables, Notify(x, t)
       PROVE  Atomic!Notify(c, t)
  <2>1. dirty' = dirty /\ due' = due \cup {t}
    BY <1>16 DEF Notify
  <2> QED
    BY <1>10, <1>11, <1>14, <2>1
    DEF Atomic!Notify, AbsState, AbsChanged, AbsDue, AbsAnnounced
<1>17. ASSUME NEW t \in Tables, Execute(x, t)
       PROVE  Atomic!Change(c, t)
  <2>1. dirty' = dirty \cup {t} /\ due' = due
    BY <1>17 DEF Execute
  <2> QED
    BY <1>10, <1>12, <1>13, <2>1
    DEF Atomic!Change, AbsState, AbsChanged, AbsDue, AbsAnnounced
<1>18. CASE \E t \in Tables : \/ QueueTrigger(x, t)
                              \/ \E u \in Tables : QueueTriggersRacing(x, t, u)
                              \/ CancelWrite(x, t)
  <2>1. UNCHANGED <<dirty, due>>
    BY <1>18 DEF QueueTrigger, QueueTriggersRacing, CancelWrite, database
  <2>2. \A y \in Txns : AbsChanged(y)' = AbsChanged(y) /\ AbsDue(y)' = AbsDue(y)
    BY <1>2, <2>1 DEF AbsChanged, AbsDue, IsOutermost
  <2> QED
    BY <1>5, <2>2, AbstractStutter
<1> HIDE DEF state, changed, owed, announced
<1> QED
  BY <1>15, <1>16, <1>17, <1>18 DEF InBlock

(* The end of a nested call is no step of the outermost one. *)
LEMMA InnerIsQuiet ==
  ASSUME Chaining, NEW x \in Txns, NEW result \in {"returned", "threw"},
         PopInner(x, result)
  PROVE  UNCHANGED Atomic!vars
<1>1. /\ TypeOK /\ Tree /\ OpenQueuesDue /\ MembersOfTree
  BY DEF Chaining, TreeInv, CallInv, OutcomeInv
<1>2. /\ status[x] = "open" /\ ActiveChildren(x) = {}
      /\ UNCHANGED <<parent, dirty, due, members, fate>>
      /\ SendTableTrigger(x, {})
  BY DEF PopInner, BlockOver
<1>3. \A y \in Txns : status[y] = "open" => fate[y] = "idle"
  BY <1>1 DEF OpenQueuesDue, MembersOfTree
<1>4. \A y \in Txns : fate[y] # "idle" => commit'[y] = commit[y] /\ tables'[y] = tables[y]
  <2> SUFFICES ASSUME NEW y \in Txns, fate[y] # "idle"
               PROVE  commit'[y] = commit[y] /\ tables'[y] = tables[y]
    OBVIOUS
  <2>1. commit'[y] = commit[y]
    <3>1. Head(session[Th(x)]).txn = x
      BY <1>2, TopFrame
    <3> QED
      BY <1>1, <1>2, <1>3, <3>1 DEF PopInner, TypeOK
  <2>2. tables'[y] = tables[y]
    <3>1. parent[x] # NoTxn => parent[x] # y
      BY <1>1, <1>2, <1>3 DEF Tree, TypeOK, IsActive
    <3> QED
      BY <1>1, <1>2, <3>1 DEF SendTableTrigger, TypeOK
  <2> QED
    BY <2>1, <2>2
<1>5. ASSUME NEW y \in Txns
      PROVE  /\ AbsState(y)' = AbsState(y)
             /\ AbsChanged(y)' = AbsChanged(y)
             /\ AbsDue(y)' = AbsDue(y)
             /\ AbsAnnounced(y)' = AbsAnnounced(y)
  <2>1. AbsAnnounced(y)' = AbsAnnounced(y)
    <3>1. CASE fate[y] = "committed"
      <4>1. commit'[y] = commit[y] /\ tables'[y] = tables[y]
        BY <1>4, <3>1
      <4> QED
        BY <1>2, <4>1 DEF AbsAnnounced, IsOutermost
    <3>2. CASE fate[y] # "committed"
      BY <1>2, <3>2 DEF AbsAnnounced
    <3> QED
      BY <3>1, <3>2
  <2> QED
    BY <1>2, <2>1 DEF AbsState, AbsChanged, AbsDue, IsOutermost
<1> QED
  BY <1>5, AbstractStutter

(* The end of the outermost call is the commit, with its announcement, or  *)
(* the roll-back of everything.                                            *)
LEMMA LastIsEnd ==
  ASSUME Chaining, AnnounceInv, NEW x \in Txns, NEW result \in {"returned", "threw"},
         \/ PopLast(x, result)
         \/ CommitFails(x) /\ result = "threw"
  PROVE  Atomic!Commit(x) \/ Atomic!RollBack(x)
<1> DEFINE ok == EndsWell(x, result)
<1>1. /\ TypeOK /\ TreeInv /\ Settling /\ FramesExact /\ FramesHoldConnection
      /\ OpenQueuesDue /\ MembersOfTree /\ OpenUncommitted
  BY DEF Chaining, Settling, TreeInv, CallInv, StackInv, OutcomeInv, ChainInv,
     SessionsAndThreadsKept, FramesHoldConnection
<1>2. /\ status[x] = "open" /\ ActiveChildren(x) = {}
      /\ Len(session[Th(x)]) = 1
      /\ dirty' = {} /\ due' = {} /\ members' = {}
      /\ UNCHANGED parent
  BY DEF PopLast, CommitFails, BlockOver
<1>3. parent[x] = NoTxn /\ IsOutermost(x) /\ x \in members /\ ~commit[x]
  BY <1>1, <1>2, LastIsOutermost DEF IsOutermost, OpenQueuesDue, OpenUncommitted
<1>4. Head(session[Th(x)]).txn = x
  BY <1>2, TopFrame
<1>5. \A y \in Txns : y # x => commit'[y] = commit[y]
  BY <1>1, <1>4 DEF PopLast, CommitFails, TypeOK
<1>6. tables' = tables
  BY <1>3 DEF PopLast, CommitFails, SendTableTrigger
<1>7. \A y \in Txns : fate'[y] = IF y \notin members THEN fate[y]
                                 ELSE IF ok THEN "committed" ELSE "rolledBack"
  <2>1. CASE PopLast(x, result)
    BY <2>1 DEF PopLast
  <2>2. CASE CommitFails(x) /\ result = "threw"
    BY <2>2 DEF CommitFails, EndsWell
  <2> QED
    BY <2>1, <2>2
<1>8. \A y \in Txns : y # x => ~(IsOutermost(y) /\ y \in members)
  BY <1>1, <1>3, OneOutermost
<1>9. ok => /\ PopLast(x, result) /\ result = "returned" /\ commit'[x]
            /\ tables[x] = due
  <2> SUFFICES ASSUME ok
               PROVE  /\ PopLast(x, result) /\ result = "returned" /\ commit'[x]
                      /\ tables[x] = due
    OBVIOUS
  <2>1. PopLast(x, result) /\ result = "returned"
    BY DEF EndsWell
  <2>2. commit'[x]
    BY <1>1, <1>4, <2>1 DEF PopLast, TypeOK
  <2>3. tables[x] = due
    BY <2>1, AllQueued DEF AnnounceInv
  <2> QED
    BY <2>1, <2>2, <2>3
<1> HIDE DEF ok
<1> DEFINE state == [y \in Txns |-> AbsState(y)]
           changed == [y \in Txns |-> AbsChanged(y)]
           owed == [y \in Txns |-> AbsDue(y)]
           announced == [y \in Txns |-> AbsAnnounced(y)]
<1>10. /\ AbsState(x) = "running"
       /\ AbsState(x)' = IF ok THEN "committed" ELSE "rolledBack"
       /\ \A y \in Txns : y # x => AbsState(y)' = AbsState(y)
  BY <1>2, <1>3, <1>7, <1>8 DEF AbsState, IsOutermost
<1>11. /\ AbsDue(x) = due
       /\ \A y \in Txns : AbsChanged(y)' = {} /\ AbsDue(y)' = {}
       /\ \A y \in Txns : y # x => AbsChanged(y) = {} /\ AbsDue(y) = {}
  BY <1>2, <1>3, <1>8 DEF AbsChanged, AbsDue
<1>12. /\ AbsAnnounced(x) = {}
       /\ AbsAnnounced(x)' = IF ok THEN due ELSE {}
       /\ \A y \in Txns : y # x => AbsAnnounced(y)' = AbsAnnounced(y)
  <2>1. AbsAnnounced(x) = {}
    BY <1>1, <1>3 DEF AbsAnnounced, MembersOfTree
  <2>2. AbsAnnounced(x)' = IF ok THEN due ELSE {}
    BY <1>2, <1>3, <1>6, <1>7, <1>9 DEF AbsAnnounced, IsOutermost
  <2>3. ASSUME NEW y \in Txns, y # x
        PROVE  AbsAnnounced(y)' = AbsAnnounced(y)
    <3>1. commit'[y] = commit[y] /\ tables'[y] = tables[y] /\ parent'[y] = parent[y]
      BY <1>2, <1>5, <1>6, <2>3
    <3>2. IsOutermost(y) => fate'[y] = fate[y]
      BY <1>7, <1>8, <2>3
    <3> QED
      BY <3>1, <3>2 DEF AbsAnnounced, IsOutermost
  <2> QED
    BY <2>1, <2>2, <2>3
<1>13. changed' = [changed EXCEPT ![x] = {}] /\ owed' = [owed EXCEPT ![x] = {}]
  BY <1>11
<1>14. state[x] = "running"
  BY <1>10
<1>15. CASE ok
  <2>1. state' = [state EXCEPT ![x] = "committed"]
    BY <1>10, <1>15
  <2>2. announced' = [announced EXCEPT ![x] = owed[x]]
    BY <1>11, <1>12, <1>15
  <2>3. Atomic!Commit(x)
    BY <1>13, <1>14, <2>1, <2>2
    DEF Atomic!Commit, AbsState, AbsChanged, AbsDue, AbsAnnounced
  <2> QED
    BY <2>3
<1>16. CASE ~ok
  <2>1. state' = [state EXCEPT ![x] = "rolledBack"]
    BY <1>10, <1>16
  <2>2. announced' = announced
    BY <1>12, <1>16
  <2>3. Atomic!RollBack(x)
    BY <1>13, <1>14, <2>1, <2>2
    DEF Atomic!RollBack, AbsState, AbsChanged, AbsDue, AbsAnnounced
  <2> QED
    BY <2>3
<1> QED
  BY <1>15, <1>16

(* Nested to any depth, withTransaction is one atomic transaction: all of  *)
(* its changes are committed, or none, and it announces exactly the tables *)
(* it owes a notification when it commits (beginStatement,                 *)
(* finallyStatement, sendTableTrigger).                                    *)
THEOREM TransactionIsAtomic ==
  ASSUME PlainUse
  PROVE  Spec => ImplementsAtomic
<1>1. OneByOne /\ NoCancellation
  BY DEF PlainUse, OneByOne, NoCancellation
<1>2. Init => Atomic!Init
  BY DEF Init, Atomic!Init, IsOutermost
<1>3. /\ TreeInv /\ SessionsAndThreadsKept /\ StackInv /\ OutcomeInv /\ ChainInv
      /\ AnnounceInv /\ [Next]_vars
      => [Atomic!Next]_(Atomic!vars)
  <2> SUFFICES ASSUME Chaining, AnnounceInv, [Next]_vars
               PROVE  [Atomic!Next]_(Atomic!vars)
    BY DEF Chaining
  <2>1. ASSUME NEW x \in Txns,
               \/ Request(x)
               \/ \E th \in Threads : AcquireThread(x, th)
               \/ \E p \in Txns : Nest(x, p)
               \/ BeginFails(x)
        PROVE  [Atomic!Next]_(Atomic!vars)
    BY <2>1, QuietCalls
  <2>2. ASSUME NEW x \in Txns, Begin(x)
        PROVE  [Atomic!Next]_(Atomic!vars)
    BY <2>2, BeginIsStart DEF Atomic!Next
  <2>3. ASSUME NEW x \in Txns, InBlock(x)
        PROVE  [Atomic!Next]_(Atomic!vars)
    BY <2>3, BlockIsChange DEF Atomic!Next
  <2>4. ASSUME NEW x \in Txns, End(x)
        PROVE  [Atomic!Next]_(Atomic!vars)
    <3>1. CallInv /\ FramesOfTree
      BY DEF Chaining, TreeInv, StackInv
    <3>2. ASSUME NEW result \in {"returned", "threw"}, PopInner(x, result)
          PROVE  UNCHANGED Atomic!vars
      BY <3>2, InnerIsQuiet
    <3>3. ASSUME NEW result \in {"returned", "threw"}, PopLast(x, result)
          PROVE  Atomic!Next
      BY <3>3, LastIsEnd DEF Atomic!Next
    <3>4. ASSUME CommitFails(x)
          PROVE  Atomic!Next
      BY <3>4, LastIsEnd DEF Atomic!Next
    <3> QED
      BY <2>4, <3>1, <3>2, <3>3, <3>4, EndShape
  <2>5. ASSUME NEW x \in Txns,
               \/ CancelBeforeBegin(x) \/ AbandonThread(x) \/ CompleteJob(x)
               \/ \E returned \in BOOLEAN : CancelInBlock(x, returned)
        PROVE  [Atomic!Next]_(Atomic!vars)
    BY <1>1, <2>5 DEF NoCancellation, CancelBeforeBegin, AbandonThread, CompleteJob,
       CancelInBlock
  <2>6. CASE UNCHANGED vars
    <3>1. UNCHANGED <<parent, dirty, due, members, fate, tables, commit>>
      BY <2>6 DEF vars
    <3>2. \A y \in Txns : /\ AbsState(y)' = AbsState(y)
                          /\ AbsChanged(y)' = AbsChanged(y)
                          /\ AbsDue(y)' = AbsDue(y)
                          /\ AbsAnnounced(y)' = AbsAnnounced(y)
      BY <3>1 DEF AbsState, AbsChanged, AbsDue, AbsAnnounced, IsOutermost
    <3> QED
      BY <3>2, AbstractStutter
  <2> QED
    BY <2>1, <2>2, <2>3, <2>4, <2>5, <2>6 DEF Next
<1> QED
  BY <1>1, <1>2, <1>3, CallTrees, ThreadsKept, FramesMatchCalls, OutcomesInvariant,
     ChainsInvariant, AnnouncementsInvariant, PTL
  DEF Spec, ImplementsAtomic, Atomic!Spec

-----------------------------------------------------------------------------
(* What may go unannounced                                                 *)

(* What some call of the SQLite transaction has queued, one that is open   *)
(* has, unless all of it will be rolled back.                              *)
QueuedPassed ==
  \A y \in members : \A t \in tables[y] :
    Doomed \/ \E z \in Txns : status[z] = "open" /\ t \in tables[z]

(* A notification owed at a COMMIT is not sent only if no call of the      *)
(* transaction had queued it: one lost in addAll, or whose write was       *)
(* cancelled, but none on its way from one level to the next.              *)
OnlyUnqueuedLost ==
  [][\A t \in unannounced' \ unannounced : \A y \in members : t \notin tables[y]]_vars

(* Starting calls and writing in a block.                                  *)
LEMMA PassedStarts ==
  ASSUME Chaining, QueuedPassed, NEW x \in Txns,
         \/ Request(x)
         \/ \E th \in Threads : AcquireThread(x, th)
         \/ \E p \in Txns : Nest(x, p)
         \/ BeginFails(x)
         \/ Begin(x)
  PROVE  QueuedPassed'
<1>1. TypeOK /\ NothingBefore
  BY DEF Chaining, TreeInv, CallInv, OutcomeInv
<1>2. /\ status[x] \in {"none", "waiting", "ready"}
      /\ members \subseteq members' /\ members' \subseteq members \cup {x}
      /\ tables' = tables
  BY DEF Request, AcquireThread, Nest, BeginFails, Begin, database
<1>3. \A y \in Txns : y # x => status'[y] = status[y] /\ outcome'[y] = outcome[y]
  BY <1>1 DEF TypeOK, Request, AcquireThread, Nest, BeginFails, Begin, Finish
<1>4. x \notin members /\ members \subseteq Txns /\ tables[x] = {}
  BY <1>1, <1>2 DEF NothingBefore, TypeOK
<1>5. Doomed => Doomed'
  BY <1>2, <1>3, <1>4 DEF Doomed
<1>6. \A y \in Txns : status[y] = "open" => status'[y] = "open"
  BY <1>2, <1>3
<1> QED
  BY <1>2, <1>4, <1>5, <1>6 DEF QueuedPassed

(* A block queues for its own call, which is open; what is lost in addAll  *)
(* is not queued.                                                          *)
LEMMA PassedBlock ==
  ASSUME Chaining, QueuedPassed, NEW x \in Txns, InBlock(x)
  PROVE  QueuedPassed'
<1>1. TypeOK /\ NothingBefore
  BY DEF Chaining, TreeInv, CallInv, OutcomeInv
<1>2. UNCHANGED <<status, outcome, members>>
  BY DEF InBlock, WriteRow, Notify, Execute, QueueTrigger, QueueTriggersRacing,
     CancelWrite, database
<1>3. Doomed' <=> Doomed
  BY <1>2 DEF Doomed
<1>4. /\ status[x] = "open"
      /\ tables[x] \subseteq tables'[x]
      /\ \A y \in Txns : y # x => tables'[y] = tables[y]
  BY <1>1 DEF TypeOK, NothingBefore, InBlock, WriteRow, Notify, Execute, QueueTrigger,
     QueueTriggersRacing, CancelWrite
<1>5. members \subseteq Txns
  BY <1>1 DEF TypeOK
<1> SUFFICES ASSUME NEW y \in members, NEW t \in tables'[y], ~Doomed
             PROVE  \E z \in Txns : status[z] = "open" /\ t \in tables'[z]
  BY <1>2, <1>3 DEF QueuedPassed
<1>6. CASE y = x
  BY <1>4, <1>6
<1>7. CASE y # x
  <2>1. PICK z \in Txns : status[z] = "open" /\ t \in tables[z]
    BY <1>4, <1>5, <1>7 DEF QueuedPassed
  <2>2. t \in tables'[z]
    BY <1>4, <2>1
  <2> QED
    BY <2>1, <2>2
<1> QED
  BY <1>6, <1>7

(* A nested call that ends well passes its set on.                         *)
LEMMA PassedInner ==
  ASSUME Chaining, QueuedPassed, NEW x \in Txns, NEW result \in {"returned", "threw"},
         PopInner(x, result)
  PROVE  QueuedPassed'
<1>1. /\ TypeOK /\ Tree /\ TreeInv /\ FramesExact /\ FramesHoldConnection /\ OpenQueuesDue
  BY DEF Chaining, TreeInv, CallInv, StackInv, OutcomeInv, SessionsAndThreadsKept,
     FramesHoldConnection
<1>2. /\ status[x] = "open" /\ ActiveChildren(x) = {}
      /\ members' = members /\ members \subseteq Txns
      /\ SendTableTrigger(x, {})
      /\ Len(session[Th(x)]) > 1
  BY <1>1 DEF PopInner, BlockOver, TypeOK
<1>3. /\ status'[x] = "done" /\ \A y \in Txns : y # x => status'[y] = status[y]
      /\ outcome'[x] = result /\ \A y \in Txns : y # x => outcome'[y] = outcome[y]
  BY <1>1 DEF TypeOK, PopInner, Finish
<1>4. x \in members
  BY <1>1, <1>2 DEF OpenQueuesDue
<1>5. parent[x] # NoTxn /\ parent[x] \in Txns /\ status'[parent[x]] = "open"
      /\ parent[x] # x
  <2>1. parent[x] # NoTxn
    <3>1. ASSUME Len(session[Th(x)]) = 1 PROVE FALSE
      BY <1>2, <3>1
    <3> QED
      BY <1>1, <1>2, <3>1, LastIsOutermost
  <2>2. parent[x] \in Txns /\ status[parent[x]] = "open"
    BY <1>1, <1>2, <2>1 DEF Tree, TypeOK, IsActive
  <2>3. parent[x] # x
    BY <1>2, <2>2 DEF ActiveChildren, IsActive
  <2> QED
    BY <1>3, <2>1, <2>2, <2>3
<1>6. Doomed => Doomed'
  <2> SUFFICES ASSUME NEW y \in members, status[y] = "done", outcome[y] # "returned"
               PROVE  Doomed'
    BY DEF Doomed
  <2>1. y # x
    BY <1>2
  <2> QED
    BY <1>2, <1>3, <2>1 DEF Doomed
<1>7. CASE ~EndsWell(x, result)
  <2>1. Doomed'
    <3>1. CASE result # "returned"
      BY <1>2, <1>3, <1>4, <3>1 DEF Doomed
    <3>2. CASE result = "returned"
      BY <1>2, <1>6, <1>7, <3>2, TopFrame DEF EndsWell
    <3> QED
      BY <3>1, <3>2
  <2> QED
    BY <2>1 DEF QueuedPassed
<1>8. CASE EndsWell(x, result)
  <2>1. commit'[x]
    <3>1. Head(session[Th(x)]).txn = x
      BY <1>2, TopFrame
    <3> QED
      BY <1>1, <1>8, <3>1 DEF PopInner, TypeOK
  <2>2. /\ tables'[parent[x]] = tables[parent[x]] \cup tables[x]
        /\ \A y \in Txns : y # parent[x] => tables'[y] = tables[y]
    BY <1>1, <1>2, <1>5, <2>1 DEF SendTableTrigger, TypeOK
  <2> SUFFICES ASSUME NEW y \in members, NEW t \in tables'[y], ~Doomed
               PROVE  \E z \in Txns : status'[z] = "open" /\ t \in tables'[z]
    BY <1>2, <1>6 DEF QueuedPassed
  <2>3. CASE t \in tables'[parent[x]]
    BY <1>5, <2>3
  <2>4. CASE t \notin tables'[parent[x]]
    <3>1. y # parent[x] /\ t \in tables[y]
      BY <1>2, <2>2, <2>4
    <3>2. PICK z \in Txns : status[z] = "open" /\ t \in tables[z]
      BY <3>1 DEF QueuedPassed
    <3>3. z # x /\ z # parent[x]
      BY <2>2, <2>4, <3>2
    <3> QED
      BY <1>3, <2>2, <3>2, <3>3
  <2> QED
    BY <2>3, <2>4
<1> QED
  BY <1>7, <1>8

(* The outermost call announces all that any of its calls has queued.      *)
LEMMA LastAnnouncesQueued ==
  ASSUME Chaining, QueuedPassed, NEW x \in Txns, NEW result \in {"returned", "threw"},
         PopLast(x, result)
  PROVE  \A t \in unannounced' \ unannounced : \A y \in members : t \notin tables[y]
<1>1. /\ TypeOK /\ TreeInv /\ FramesExact /\ FramesHoldConnection
  BY DEF Chaining, TreeInv, CallInv, StackInv, SessionsAndThreadsKept, FramesHoldConnection
<1>2. /\ status[x] = "open" /\ ActiveChildren(x) = {} /\ Len(session[Th(x)]) = 1
      /\ SendTableTrigger(x, IF EndsWell(x, result) THEN due ELSE {})
  BY DEF PopLast, BlockOver
<1>3. CASE ~EndsWell(x, result)
  BY <1>2, <1>3 DEF SendTableTrigger
<1>4. CASE EndsWell(x, result)
  <2>1. /\ parent[x] = NoTxn
        /\ \A z \in Txns : status[z] = "open" => z = x
    BY <1>1, <1>2, LastIsOutermost
  <2>2. ~Doomed /\ Head(session[Th(x)]).txn = x
    BY <1>2, <1>4, TopFrame DEF EndsWell
  <2>3. commit'[x]
    BY <1>1, <1>4, <2>2 DEF PopLast, TypeOK
  <2>4. \A y \in members : tables[y] \subseteq tables[x]
    BY <2>1, <2>2 DEF QueuedPassed
  <2>5. unannounced' = unannounced \cup (due \ tables[x])
    BY <1>2, <1>4, <2>1, <2>3 DEF SendTableTrigger
  <2> QED
    BY <2>4, <2>5
<1> QED
  BY <1>3, <1>4

(* However blocks write, from several threads and with single writes       *)
(* cancelled: each table that made it into the set of some call of the     *)
(* transaction is announced with the COMMIT, whatever the depth of that    *)
(* call (sendTableTrigger, SqliteTransaction.parent).                      *)
THEOREM QueuedAreAnnounced ==
  ASSUME OneByOne
  PROVE  Spec => OnlyUnqueuedLost
<1>1. NoCancellation
  BY DEF OneByOne, NoCancellation
<1>2. Init => QueuedPassed
  BY DEF Init, QueuedPassed
<1>3. /\ TreeInv /\ SessionsAndThreadsKept /\ StackInv /\ OutcomeInv /\ ChainInv
      /\ QueuedPassed /\ [Next]_vars
      => /\ QueuedPassed'
         /\ \A t \in unannounced' \ unannounced : \A y \in members : t \notin tables[y]
  <2> SUFFICES ASSUME Chaining, QueuedPassed, [Next]_vars
               PROVE  /\ QueuedPassed'
                      /\ \A t \in unannounced' \ unannounced :
                           \A y \in members : t \notin tables[y]
    BY DEF Chaining
  <2>1. ASSUME NEW x \in Txns,
               \/ Request(x)
               \/ \E th \in Threads : AcquireThread(x, th)
               \/ \E p \in Txns : Nest(x, p)
               \/ BeginFails(x)
               \/ Begin(x)
        PROVE  QueuedPassed' /\ unannounced' = unannounced
    <3>1. unannounced' = unannounced
      BY <2>1 DEF Request, AcquireThread, Nest, BeginFails, Begin, notices
    <3> QED
      BY <2>1, <3>1, PassedStarts
  <2>2. ASSUME NEW x \in Txns, InBlock(x)
        PROVE  QueuedPassed' /\ unannounced' = unannounced
    <3>1. unannounced' = unannounced
      BY <2>2 DEF InBlock, WriteRow, Notify, Execute, QueueTrigger, QueueTriggersRacing,
         CancelWrite, notices
    <3> QED
      BY <2>2, <3>1, PassedBlock
  <2>3. ASSUME NEW x \in Txns, End(x)
        PROVE  /\ QueuedPassed'
               /\ \A t \in unannounced' \ unannounced : \A y \in members : t \notin tables[y]
    <3>1. CallInv /\ FramesOfTree
      BY DEF Chaining, TreeInv, StackInv
    <3>2. ASSUME NEW result \in {"returned", "threw"}, PopInner(x, result)
          PROVE  QueuedPassed' /\ unannounced' = unannounced
      <4>1. unannounced' = unannounced
        BY <3>2 DEF PopInner, SendTableTrigger
      <4> QED
        BY <3>2, <4>1, PassedInner
    <3>3. ASSUME NEW result \in {"returned", "threw"}, PopLast(x, result)
          PROVE  /\ QueuedPassed'
                 /\ \A t \in unannounced' \ unannounced :
                      \A y \in members : t \notin tables[y]
      <4>1. members' = {}
        BY <3>3 DEF PopLast
      <4>2. QueuedPassed'
        BY <4>1 DEF QueuedPassed
      <4> QED
        BY <3>3, <4>2, LastAnnouncesQueued
    <3>4. ASSUME CommitFails(x)
          PROVE  QueuedPassed' /\ unannounced' = unannounced
      BY <3>4 DEF CommitFails, QueuedPassed, notices
    <3> QED
      BY <2>3, <3>1, <3>2, <3>3, <3>4, EndShape
  <2>4. ASSUME NEW x \in Txns,
               \/ CancelBeforeBegin(x) \/ AbandonThread(x) \/ CompleteJob(x)
               \/ \E returned \in BOOLEAN : CancelInBlock(x, returned)
        PROVE  FALSE
    BY <1>1, <2>4 DEF NoCancellation, CancelBeforeBegin, AbandonThread, CompleteJob,
       CancelInBlock
  <2>5. CASE UNCHANGED vars
    BY <2>5 DEF vars, QueuedPassed, Doomed
  <2> QED
    BY <2>1, <2>2, <2>3, <2>4, <2>5 DEF Next
<1> QED
  BY <1>1, <1>2, <1>3, CallTrees, ThreadsKept, FramesMatchCalls, OutcomesInvariant,
     ChainsInvariant, PTL
  DEF Spec, OnlyUnqueuedLost

=============================================================================
