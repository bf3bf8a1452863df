------------------------ MODULE ObservableQueryProofs ------------------------
(***************************************************************************)
(* Theorems about ObservableQuery, for every value of its constants: type  *)
(* correctness, the bound on what piles up for a collector, the account of *)
(* every stale collector, and the runs that a trigger causes.              *)
(***************************************************************************)
EXTENDS ObservableQuery, FiniteSetTheorems, TLAPS

(* A writer that is not in the middle of a write owes nothing. *)
IdleOwesNothing == \A w \in Writers : writer[w] = "idle" => owed[w] = {}

-----------------------------------------------------------------------------
(* Every step of the specification keeps the types of the variables. *)
THEOREM TypeCorrect == Spec => []TypeOK
<1>1. Init => TypeOK
  BY QueryAssumption DEF Init, TypeOK, NothingRead
<1>2. TypeOK /\ [Next]_vars => TypeOK'
  <2> SUFFICES ASSUME TypeOK, [Next]_vars PROVE TypeOK'
    OBVIOUS
  <2>1. ASSUME NEW c \in Collectors, NEW tx \in BOOLEAN, CreateQuery(c, tx)
        PROVE  TypeOK'
    BY QueryAssumption, <2>1 DEF TypeOK, CreateQuery, writeVars, upstream
  <2>2. ASSUME NEW c \in Collectors, NEW tx \in BOOLEAN, Collect(c, tx)
        PROVE  TypeOK'
    BY QueryAssumption, <2>2 DEF TypeOK, Collect, writeVars, upstream
  <2>3. ASSUME NEW c \in Collectors, AllocateSlot(c) \/ Subscribe(c)
        PROVE  TypeOK'
    <3>1. CASE AllocateSlot(c)
      BY <3>1 DEF TypeOK, AllocateSlot, writeVars
    <3>2. CASE Subscribe(c)
      BY <3>2 DEF TypeOK, Subscribe, writeVars
    <3> QED
      BY <2>3, <3>1, <3>2
  <2>4. ASSUME NEW c \in Collectors, RefuseSubscription(c)
        PROVE  TypeOK'
    BY QueryAssumption, <2>4 DEF TypeOK, RefuseSubscription, EndCollection,
       writeVars, upstream
  <2>5. ASSUME NEW c \in Collectors, TakeTrigger(c)
        PROVE  TypeOK'
    BY QueryAssumption, <2>5 DEF TypeOK, TakeTrigger, writeVars
  <2>6. ASSUME NEW c \in Collectors, Receive(c)
        PROVE  TypeOK'
    BY QueryAssumption, <2>6 DEF TypeOK, Receive, writeVars, upstream
  <2>7. ASSUME NEW c \in Collectors, RunQuery(c)
        PROVE  TypeOK'
    BY QueryAssumption, <2>7 DEF TypeOK, RunQuery, writeVars, upstream
  <2>8. ASSUME NEW c \in Collectors, RefuseRun(c)
        PROVE  TypeOK'
    BY QueryAssumption, <2>8 DEF TypeOK, RefuseRun, EndCollection, writeVars,
       upstream
  <2>9. ASSUME NEW c \in Collectors, Cancel(c)
        PROVE  TypeOK'
    BY QueryAssumption, <2>9 DEF TypeOK, Cancel, EndCollection, writeVars,
       upstream
  <2>10. ASSUME NEW c \in Collectors, FreeSlot(c)
        PROVE  TypeOK'
    BY QueryAssumption, <2>10 DEF TypeOK, FreeSlot, writeVars
  <2>11. ASSUME NEW w \in Writers, NEW T \in TriggerSets, NEW kind \in WriteKinds,
               Write(w, T, kind)
        PROVE  TypeOK'
    BY QueryAssumption, <2>11 DEF TypeOK, Write, upstream, Kinds
  <2>12. ASSUME NEW w \in Writers, NEW T \in TriggerSets, Announce(w, T)
        PROVE  TypeOK'
    BY QueryAssumption, <2>12 DEF TypeOK, Announce, upstream
  <2>13. ASSUME NEW w \in Writers, SendTableTrigger(w)
        PROVE  TypeOK'
    <3>1. owed[w] \in SUBSET Tables
      BY DEF TypeOK
    <3>2. inbox' \in [Collectors -> Seq(SUBSET Tables)]
      <4>1. CASE HasRoom
        <5>1. inbox' = [c \in Collectors |-> IF c \in slots
                                              THEN Append(inbox[c], owed[w])
                                              ELSE inbox[c]]
          BY <4>1, <2>13 DEF SendTableTrigger
        <5> QED
          BY <3>1, <5>1 DEF TypeOK
      <4>2. CASE ~HasRoom
        BY <4>2, <2>13 DEF TypeOK, SendTableTrigger
      <4> QED
        BY <4>1, <4>2
    <3>3. missed' \in [Collectors -> SUBSET Tables]
      <4>1. \A c \in Collectors : Missing(c, owed[w]) \in SUBSET Tables
        BY <3>1 DEF TypeOK, Missing
      <4> QED
        BY <4>1, <2>13 DEF TypeOK, SendTableTrigger
    <3>4. /\ writer' \in [Writers -> {"idle", "suspending", "statement"}]
          /\ owed' \in [Writers -> SUBSET Tables]
      BY <2>13 DEF TypeOK, SendTableTrigger
    <3> QED
      BY <3>2, <3>3, <3>4, <2>13 DEF TypeOK, SendTableTrigger
  <2>14. ASSUME NEW w \in Writers, CancelWrite(w)
        PROVE  TypeOK'
    BY QueryAssumption, <2>14 DEF TypeOK, CancelWrite, Missing, upstream
  <2>15. ASSUME NEW T \in TriggerSets, Execute(T)
        PROVE  TypeOK'
    BY QueryAssumption, <2>15 DEF TypeOK, Execute, upstream
  <2>16. CASE UNCHANGED vars
    BY <2>16 DEF TypeOK, vars
  <2> QED
    BY <2>1, <2>2, <2>3, <2>4, <2>5, <2>6, <2>7, <2>8, <2>9,
       <2>10, <2>11, <2>12, <2>13, <2>14, <2>15, <2>16
       DEF Next, CollectorStep
<1> QED
  BY <1>1, <1>2, PTL DEF Spec

(* What piles up for a collector never exceeds the bound, for any number   *)
(* of writers and collectors and any capacities (tryEmit in                *)
(* sendTableTrigger and the channel of flowOn).                            *)
THEOREM BacklogBounded == Spec => []BoundedBacklog
<1>1. Init => BoundedBacklog
  BY QueryAssumption DEF Init, BoundedBacklog
<1>2. TypeOK /\ BoundedBacklog /\ [Next]_vars => BoundedBacklog'
  <2> SUFFICES ASSUME TypeOK, BoundedBacklog, [Next]_vars PROVE BoundedBacklog'
    OBVIOUS
  <2>1. ASSUME NEW c \in Collectors, NEW tx \in BOOLEAN, CreateQuery(c, tx)
        PROVE  BoundedBacklog'
    BY QueryAssumption, <2>1 DEF TypeOK, BoundedBacklog, CreateQuery,
       writeVars, upstream
  <2>2. ASSUME NEW c \in Collectors, NEW tx \in BOOLEAN, Collect(c, tx)
        PROVE  BoundedBacklog'
    BY QueryAssumption, <2>2 DEF TypeOK, BoundedBacklog, Collect, writeVars,
       upstream
  <2>3. ASSUME NEW c \in Collectors, AllocateSlot(c) \/ Subscribe(c)
        PROVE  BoundedBacklog'
    BY QueryAssumption, <2>3 DEF TypeOK, BoundedBacklog, AllocateSlot, Subscribe, writeVars
  <2>4. ASSUME NEW c \in Collectors, RefuseSubscription(c)
        PROVE  BoundedBacklog'
    BY QueryAssumption, <2>4 DEF TypeOK, BoundedBacklog, RefuseSubscription,
       EndCollection, writeVars, upstream
  <2>5. ASSUME NEW c \in Collectors, TakeTrigger(c)
        PROVE  BoundedBacklog'
    BY QueryAssumption, <2>5 DEF TypeOK, BoundedBacklog, TakeTrigger,
       UpstreamFree, writeVars
  <2>6. ASSUME NEW c \in Collectors, Receive(c)
        PROVE  BoundedBacklog'
    BY QueryAssumption, <2>6 DEF TypeOK, BoundedBacklog, Receive, writeVars,
       upstream
  <2>7. ASSUME NEW c \in Collectors, RunQuery(c)
        PROVE  BoundedBacklog'
    BY QueryAssumption, <2>7 DEF TypeOK, BoundedBacklog, RunQuery, writeVars,
       upstream
  <2>8. ASSUME NEW c \in Collectors, RefuseRun(c)
        PROVE  BoundedBacklog'
    BY QueryAssumption, <2>8 DEF TypeOK, BoundedBacklog, RefuseRun,
       EndCollection, writeVars, upstream
  <2>9. ASSUME NEW c \in Collectors, Cancel(c)
        PROVE  BoundedBacklog'
    BY QueryAssumption, <2>9 DEF TypeOK, BoundedBacklog, Cancel,
       EndCollection, writeVars, upstream
  <2>10. ASSUME NEW c \in Collectors, FreeSlot(c)
        PROVE  BoundedBacklog'
    BY QueryAssumption, <2>10 DEF TypeOK, BoundedBacklog, FreeSlot, writeVars
  <2>11. ASSUME NEW w \in Writers, NEW T \in TriggerSets, NEW kind \in WriteKinds,
               Write(w, T, kind)
        PROVE  BoundedBacklog'
    BY QueryAssumption, <2>11 DEF TypeOK, BoundedBacklog, Write, upstream,
       Kinds
  <2>12. ASSUME NEW w \in Writers, NEW T \in TriggerSets, Announce(w, T)
        PROVE  BoundedBacklog'
    BY QueryAssumption, <2>12 DEF TypeOK, BoundedBacklog, Announce, upstream
  <2>13. ASSUME NEW w \in Writers, SendTableTrigger(w)
        PROVE  BoundedBacklog'
    BY QueryAssumption, <2>13 DEF TypeOK, BoundedBacklog, SendTableTrigger,
       HasRoom
  <2>14. ASSUME NEW w \in Writers, CancelWrite(w)
        PROVE  BoundedBacklog'
    BY QueryAssumption, <2>14 DEF TypeOK, BoundedBacklog, CancelWrite,
       upstream
  <2>15. ASSUME NEW T \in TriggerSets, Execute(T)
        PROVE  BoundedBacklog'
    BY QueryAssumption, <2>15 DEF TypeOK, BoundedBacklog, Execute, upstream
  <2>16. CASE UNCHANGED vars
    BY <2>16 DEF BoundedBacklog, vars
  <2> QED
    BY <2>1, <2>2, <2>3, <2>4, <2>5, <2>6, <2>7, <2>8, <2>9,
       <2>10, <2>11, <2>12, <2>13, <2>14, <2>15, <2>16
       DEF Next, CollectorStep
<1> QED
  BY <1>1, <1>2, TypeCorrect, PTL DEF Spec

(* An idle writer has nothing left to announce. *)
THEOREM IdleWriters == Spec => []IdleOwesNothing
<1>1. Init => IdleOwesNothing
  BY QueryAssumption DEF Init, IdleOwesNothing
<1>2. TypeOK /\ IdleOwesNothing /\ [Next]_vars => IdleOwesNothing'
  <2> SUFFICES ASSUME TypeOK, IdleOwesNothing, [Next]_vars PROVE IdleOwesNothing'
    OBVIOUS
  <2>1. ASSUME NEW c \in Collectors, NEW tx \in BOOLEAN, CreateQuery(c, tx)
        PROVE  IdleOwesNothing'
    BY QueryAssumption, <2>1 DEF TypeOK, IdleOwesNothing, CreateQuery,
       writeVars, upstream
  <2>2. ASSUME NEW c \in Collectors, NEW tx \in BOOLEAN, Collect(c, tx)
        PROVE  IdleOwesNothing'
    BY QueryAssumption, <2>2 DEF TypeOK, IdleOwesNothing, Collect, writeVars,
       upstream
  <2>3. ASSUME NEW c \in Collectors, AllocateSlot(c) \/ Subscribe(c)
        PROVE  IdleOwesNothing'
    BY QueryAssumption, <2>3 DEF TypeOK, IdleOwesNothing, AllocateSlot, Subscribe, writeVars
  <2>4. ASSUME NEW c \in Collectors, RefuseSubscription(c)
        PROVE  IdleOwesNothing'
    BY QueryAssumption, <2>4 DEF TypeOK, IdleOwesNothing, RefuseSubscription,
       EndCollection, writeVars, upstream
  <2>5. ASSUME NEW c \in Collectors, TakeTrigger(c)
        PROVE  IdleOwesNothing'
    BY QueryAssumption, <2>5 DEF TypeOK, IdleOwesNothing, TakeTrigger,
       writeVars
  <2>6. ASSUME NEW c \in Collectors, Receive(c)
        PROVE  IdleOwesNothing'
    BY QueryAssumption, <2>6 DEF TypeOK, IdleOwesNothing, Receive, writeVars,
       upstream
  <2>7. ASSUME NEW c \in Collectors, RunQuery(c)
        PROVE  IdleOwesNothing'
    BY QueryAssumption, <2>7 DEF TypeOK, IdleOwesNothing, RunQuery, writeVars,
       upstream
  <2>8. ASSUME NEW c \in Collectors, RefuseRun(c)
        PROVE  IdleOwesNothing'
    BY QueryAssumption, <2>8 DEF TypeOK, IdleOwesNothing, RefuseRun,
       EndCollection, writeVars, upstream
  <2>9. ASSUME NEW c \in Collectors, Cancel(c)
        PROVE  IdleOwesNothing'
    BY QueryAssumption, <2>9 DEF TypeOK, IdleOwesNothing, Cancel,
       EndCollection, writeVars, upstream
  <2>10. ASSUME NEW c \in Collectors, FreeSlot(c)
        PROVE  IdleOwesNothing'
    BY QueryAssumption, <2>10 DEF TypeOK, IdleOwesNothing, FreeSlot, writeVars
  <2>11. ASSUME NEW w \in Writers, NEW T \in TriggerSets, NEW kind \in WriteKinds,
               Write(w, T, kind)
        PROVE  IdleOwesNothing'
    BY QueryAssumption, <2>11 DEF TypeOK, IdleOwesNothing, Write, upstream,
       Kinds
  <2>12. ASSUME NEW w \in Writers, NEW T \in TriggerSets, Announce(w, T)
        PROVE  IdleOwesNothing'
    BY QueryAssumption, <2>12 DEF TypeOK, IdleOwesNothing, Announce, upstream
  <2>13. ASSUME NEW w \in Writers, SendTableTrigger(w)
        PROVE  IdleOwesNothing'
    BY QueryAssumption, <2>13 DEF TypeOK, IdleOwesNothing, SendTableTrigger
  <2>14. ASSUME NEW w \in Writers, CancelWrite(w)
        PROVE  IdleOwesNothing'
    BY QueryAssumption, <2>14 DEF TypeOK, IdleOwesNothing, CancelWrite,
       upstream
  <2>15. ASSUME NEW T \in TriggerSets, Execute(T)
        PROVE  IdleOwesNothing'
    BY QueryAssumption, <2>15 DEF TypeOK, IdleOwesNothing, Execute, upstream
  <2>16. CASE UNCHANGED vars
    BY <2>16 DEF IdleOwesNothing, vars
  <2> QED
    BY <2>1, <2>2, <2>3, <2>4, <2>5, <2>6, <2>7, <2>8, <2>9,
       <2>10, <2>11, <2>12, <2>13, <2>14, <2>15, <2>16
       DEF Next, CollectorStep
<1> QED
  BY <1>1, <1>2, TypeCorrect, PTL DEF Spec

(* A stale collector has a run before it, a writer about to announce, or a *)
(* recorded loss: for any number of tables, writers and collectors.        *)
THEOREM StalenessAccounted == Spec => []StalenessExplained
<1>1. Init => StalenessExplained
  BY QueryAssumption DEF Init, StalenessExplained, Stale, IsOpen, Pending,
     BeingAnnounced
<1>2. TypeOK /\ IdleOwesNothing /\ StalenessExplained /\ [Next]_vars => StalenessExplained'
  <2> SUFFICES ASSUME TypeOK, IdleOwesNothing, StalenessExplained, [Next]_vars PROVE StalenessExplained'
    OBVIOUS
  <2>1. ASSUME NEW c \in Collectors, NEW tx \in BOOLEAN, CreateQuery(c, tx)
        PROVE  StalenessExplained'
    BY QueryAssumption, <2>1 DEF TypeOK, StalenessExplained, Stale, IsOpen,
       Pending, BeingAnnounced, CreateQuery, writeVars, upstream
  <2>2. ASSUME NEW c \in Collectors, NEW tx \in BOOLEAN, Collect(c, tx)
        PROVE  StalenessExplained'
    <3> SUFFICES ASSUME NEW d \in Collectors, NEW t \in Tables,
                        IsOpen(d)', Stale(d, t)'
                 PROVE  Pending(d)' \/ BeingAnnounced(t)' \/ t \in missed'[d]
      BY DEF StalenessExplained
    <3>1. CASE d = c
      BY <2>2, <3>1 DEF TypeOK, Collect, Pending
    <3>2. CASE d # c
      BY <2>2, <3>2 DEF TypeOK, StalenessExplained, Stale, IsOpen, Pending,
         BeingAnnounced, Collect, writeVars, upstream
    <3> QED
      BY <3>1, <3>2
  <2>3. ASSUME NEW c \in Collectors, AllocateSlot(c) \/ Subscribe(c)
        PROVE  StalenessExplained'
    BY QueryAssumption, <2>3 DEF TypeOK, StalenessExplained, Stale, IsOpen,
       Pending, BeingAnnounced, AllocateSlot, Subscribe, writeVars
  <2>4. ASSUME NEW c \in Collectors, RefuseSubscription(c)
        PROVE  StalenessExplained'
    BY QueryAssumption, <2>4 DEF TypeOK, StalenessExplained, Stale, IsOpen,
       Pending, BeingAnnounced, RefuseSubscription, EndCollection, writeVars,
       upstream
  <2>5. ASSUME NEW c \in Collectors, TakeTrigger(c)
        PROVE  StalenessExplained'
    <3> SUFFICES ASSUME NEW d \in Collectors, NEW t \in Tables,
                        IsOpen(d)', Stale(d, t)'
                 PROVE  Pending(d)' \/ BeingAnnounced(t)' \/ t \in missed'[d]
      BY DEF StalenessExplained
    <3>1. IsOpen(d) /\ Stale(d, t)
      BY <2>5 DEF TakeTrigger, IsOpen, Stale, writeVars
    <3>2. CASE Pending(d)
      <4>1. CASE d # c \/ running[d] \/ queued[d] > 0
        BY <2>5, <3>2, <4>1 DEF TypeOK, TakeTrigger, Pending
      <4>2. CASE d = c /\ ~running[d] /\ ~(queued[d] > 0)
        <5>1. PICK i \in 1..Len(inbox[c]) : SelectsFor(c, inbox[c][i])
          BY <3>2, <4>2 DEF Pending
        <5>2. CASE SelectsFor(c, Head(inbox[c]))
          BY <2>5, <4>2, <5>2 DEF TypeOK, TakeTrigger, Pending
        <5>3. CASE ~SelectsFor(c, Head(inbox[c]))
          <6>1. inbox[c] \in Seq(SUBSET Tables) /\ inbox[c] # <<>>
            BY <2>5 DEF TypeOK, TakeTrigger
          <6>2. inbox'[c] = Tail(inbox[c])
            BY <2>5 DEF TypeOK, TakeTrigger
          <6>3. i # 1
            BY <5>1, <5>3, <6>1
          <6>4. /\ i - 1 \in 1..Len(inbox'[c])
                /\ inbox'[c][i - 1] = inbox[c][i]
            BY <6>1, <6>2, <6>3
          <6> QED
            BY <4>2, <5>1, <6>4 DEF Pending, SelectsFor
        <5> QED
          BY <5>2, <5>3
      <4> QED
        BY <4>1, <4>2
    <3>3. CASE BeingAnnounced(t) \/ t \in missed[d]
      BY <2>5, <3>3 DEF TakeTrigger, BeingAnnounced, writeVars
    <3> QED
      BY <3>1, <3>2, <3>3 DEF StalenessExplained
  <2>6. ASSUME NEW c \in Collectors, Receive(c)
        PROVE  StalenessExplained'
    BY QueryAssumption, <2>6 DEF TypeOK, StalenessExplained, Stale, IsOpen,
       Pending, BeingAnnounced, Receive, writeVars, upstream
  <2>7. ASSUME NEW c \in Collectors, RunQuery(c)
        PROVE  StalenessExplained'
    <3> SUFFICES ASSUME NEW d \in Collectors, NEW t \in Tables,
                        IsOpen(d)', Stale(d, t)'
                 PROVE  Pending(d)' \/ BeingAnnounced(t)' \/ t \in missed'[d]
      BY DEF StalenessExplained
    <3>1. d # c
      BY <2>7 DEF TypeOK, RunQuery, Stale, writeVars
    <3> QED
      BY <2>7, <3>1 DEF TypeOK, StalenessExplained, Stale, IsOpen, Pending,
         BeingAnnounced, RunQuery, writeVars, upstream
  <2>8. ASSUME NEW c \in Collectors, RefuseRun(c)
        PROVE  StalenessExplained'
    BY QueryAssumption, <2>8 DEF TypeOK, StalenessExplained, Stale, IsOpen,
       Pending, BeingAnnounced, RefuseRun, EndCollection, writeVars, upstream
  <2>9. ASSUME NEW c \in Collectors, Cancel(c)
        PROVE  StalenessExplained'
    BY QueryAssumption, <2>9 DEF TypeOK, StalenessExplained, Stale, IsOpen,
       Pending, BeingAnnounced, Cancel, EndCollection, writeVars, upstream
  <2>10. ASSUME NEW c \in Collectors, FreeSlot(c)
        PROVE  StalenessExplained'
    BY QueryAssumption, <2>10 DEF TypeOK, StalenessExplained, Stale, IsOpen,
       Pending, BeingAnnounced, FreeSlot, writeVars
  <2>11. ASSUME NEW w \in Writers, NEW T \in TriggerSets, NEW kind \in WriteKinds,
               Write(w, T, kind)
        PROVE  StalenessExplained'
    <3> SUFFICES ASSUME NEW d \in Collectors, NEW t \in Tables,
                        IsOpen(d)', Stale(d, t)'
                 PROVE  Pending(d)' \/ BeingAnnounced(t)' \/ t \in missed'[d]
      BY DEF StalenessExplained
    <3>1. IsOpen(d) /\ (Pending(d) => Pending(d)') /\ missed'[d] = missed[d]
      BY <2>11 DEF Write, IsOpen, Pending, upstream
    <3>2. T \subseteq Tables /\ owed'[w] = T
      BY QueryAssumption, <2>11 DEF TypeOK, Write
    <3>3. CASE t \in T
      BY <3>2, <3>3 DEF BeingAnnounced
    <3>4. CASE t \notin T
      <4>1. Stale(d, t)
        BY <2>11, <3>4 DEF TypeOK, Write, Stale
      <4>2. BeingAnnounced(t) => BeingAnnounced(t)'
        BY <2>11 DEF TypeOK, IdleOwesNothing, Write, BeingAnnounced
      <4> QED
        BY <3>1, <4>1, <4>2 DEF StalenessExplained
    <3> QED
      BY <3>3, <3>4
  <2>12. ASSUME NEW w \in Writers, NEW T \in TriggerSets, Announce(w, T)
        PROVE  StalenessExplained'
    <3> SUFFICES ASSUME NEW d \in Collectors, NEW t \in Tables,
                        IsOpen(d)', Stale(d, t)'
                 PROVE  Pending(d)' \/ BeingAnnounced(t)' \/ t \in missed'[d]
      BY DEF StalenessExplained
    <3>1. /\ IsOpen(d) /\ Stale(d, t)
          /\ Pending(d) => Pending(d)'
          /\ missed'[d] = missed[d]
      BY <2>12 DEF Announce, IsOpen, Stale, Pending, upstream
    <3>2. BeingAnnounced(t) => BeingAnnounced(t)'
      BY <2>12 DEF TypeOK, IdleOwesNothing, Announce, BeingAnnounced
    <3> QED
      BY <3>1, <3>2 DEF StalenessExplained
  <2>13. ASSUME NEW w \in Writers, SendTableTrigger(w)
        PROVE  StalenessExplained'
    <3> SUFFICES ASSUME NEW d \in Collectors, NEW t \in Tables,
                        IsOpen(d)', Stale(d, t)'
                 PROVE  Pending(d)' \/ BeingAnnounced(t)' \/ t \in missed'[d]
      BY DEF StalenessExplained
    <3>1. IsOpen(d) /\ Stale(d, t)
      BY <2>13 DEF SendTableTrigger, IsOpen, Stale
    <3>2. /\ inbox[d] \in Seq(SUBSET Tables)
          /\ owed[w] \in SUBSET Tables
          /\ inbox'[d] = inbox[d] \/ inbox'[d] = Append(inbox[d], owed[w])
          /\ Reaches(d, owed[w]) => inbox'[d] = Append(inbox[d], owed[w])
      BY <2>13 DEF TypeOK, SendTableTrigger, Reaches
    <3>3. CASE Pending(d)
      <4>1. CASE running[d] \/ queued[d] > 0
        BY <2>13, <4>1 DEF SendTableTrigger, Pending
      <4>2. CASE \E i \in 1..Len(inbox[d]) : SelectsFor(d, inbox[d][i])
        <5>1. PICK i \in 1..Len(inbox[d]) : SelectsFor(d, inbox[d][i])
          BY <4>2
        <5>2. i \in 1..Len(inbox'[d]) /\ inbox'[d][i] = inbox[d][i]
          BY <3>2, <5>1
        <5> QED
          BY <5>1, <5>2 DEF Pending, SelectsFor
      <4> QED
        BY <3>3, <4>1, <4>2 DEF Pending
    <3>4. CASE ~Pending(d) /\ t \in owed[w]
      <4>1. CASE Reaches(d, owed[w])
        <5>1. /\ Len(inbox'[d]) \in 1..Len(inbox'[d])
              /\ inbox'[d][Len(inbox'[d])] = owed[w]
          BY <3>2, <4>1
        <5> QED
          BY <4>1, <5>1 DEF Reaches, Pending, SelectsFor
      <4>2. CASE ~Reaches(d, owed[w])
        <5>1. missed'[d] = Missing(d, owed[w])
          BY <2>13, <4>2 DEF SendTableTrigger
        <5> QED
          BY <3>1, <3>4, <5>1 DEF Missing
      <4> QED
        BY <4>1, <4>2
    <3>5. CASE BeingAnnounced(t) /\ t \notin owed[w]
      BY <2>13, <3>5 DEF TypeOK, SendTableTrigger, BeingAnnounced
    <3>6. CASE t \in missed[d]
      BY <2>13, <3>6 DEF SendTableTrigger, Missing
    <3> QED
      BY <3>1, <3>3, <3>4, <3>5, <3>6 DEF StalenessExplained
  <2>14. ASSUME NEW w \in Writers, CancelWrite(w)
        PROVE  StalenessExplained'
    <3> SUFFICES ASSUME NEW d \in Collectors, NEW t \in Tables,
                        IsOpen(d)', Stale(d, t)'
                 PROVE  Pending(d)' \/ BeingAnnounced(t)' \/ t \in missed'[d]
      BY DEF StalenessExplained
    <3>1. IsOpen(d) /\ Stale(d, t) /\ (Pending(d) => Pending(d)')
      BY <2>14 DEF CancelWrite, IsOpen, Stale, Pending, upstream
    <3>2. missed'[d] = Missing(d, owed[w])
      BY <2>14 DEF CancelWrite
    <3>3. CASE ~Pending(d) /\ t \in owed[w]
      BY <3>1, <3>2, <3>3 DEF Missing
    <3>4. CASE BeingAnnounced(t) /\ t \notin owed[w]
      BY <2>14, <3>4 DEF TypeOK, CancelWrite, BeingAnnounced
    <3>5. CASE t \in missed[d]
      BY <3>2, <3>5 DEF Missing
    <3> QED
      BY <3>1, <3>3, <3>4, <3>5 DEF StalenessExplained
  <2>15. ASSUME NEW T \in TriggerSets, Execute(T)
        PROVE  StalenessExplained'
    <3> SUFFICES ASSUME NEW d \in Collectors, NEW t \in Tables,
                        IsOpen(d)', Stale(d, t)'
                 PROVE  Pending(d)' \/ BeingAnnounced(t)' \/ t \in missed'[d]
      BY DEF StalenessExplained
    <3>1. /\ IsOpen(d)
          /\ Pending(d) => Pending(d)'
          /\ BeingAnnounced(t) => BeingAnnounced(t)'
          /\ missed[d] \subseteq missed'[d]
      BY <2>15 DEF Execute, IsOpen, Pending, BeingAnnounced, upstream
    <3>2. CASE t \in T
      BY <2>15, <3>1, <3>2 DEF Execute, Stale
    <3>3. CASE t \notin T
      <4>1. Stale(d, t)
        BY <2>15, <3>3 DEF TypeOK, Execute, Stale
      <4> QED
        BY <3>1, <4>1 DEF StalenessExplained
    <3> QED
      BY <3>2, <3>3
  <2>16. CASE UNCHANGED vars
    BY <2>16 DEF StalenessExplained, Stale, IsOpen, Pending, BeingAnnounced,
       vars
  <2> QED
    BY <2>1, <2>2, <2>3, <2>4, <2>5, <2>6, <2>7, <2>8, <2>9,
       <2>10, <2>11, <2>12, <2>13, <2>14, <2>15, <2>16
       DEF Next, CollectorStep
<1> QED
  BY <1>1, <1>2, TypeCorrect, IdleWriters, PTL DEF Spec

-----------------------------------------------------------------------------
(* The README's promise *)

(* One collector, to which every trigger is of interest, and writes that   *)
(* send their trigger without suspending.  Each of the three is needed:    *)
(* another collector may fill its buffer, and then nobody is told; and     *)
(* triggers for other tables, taken one at a time, fill the buffer too.    *)
SoleObserver ==
  /\ \A c, d \in Collectors : c = d
  /\ \A c \in Collectors : \A T \in TriggerSets : SelectsFor(c, T)
  /\ WriteKinds \subseteq {"statement"}

(* What waits in the buffer, and what is about to be sent, is of interest. *)
OfInterest(c) ==
  /\ \A i \in 1..Len(inbox[c]) : SelectsFor(c, inbox[c][i])
  /\ \A w \in Writers : /\ writer[w] # "idle" => SelectsFor(c, owed[w])
                         /\ writer[w] # "suspending"

AllOfInterest == \A c \in Collectors : OfInterest(c)

(* Under these conditions whatever is announced is of interest. *)
LEMMA InterestKept ==
  ASSUME SoleObserver, TypeOK, AllOfInterest, [Next]_vars
  PROVE  AllOfInterest'
<1> SUFFICES ASSUME NEW d \in Collectors PROVE OfInterest(d)'
  BY DEF AllOfInterest
<1>0. OfInterest(d)
  BY DEF AllOfInterest
<1>1. ASSUME UNCHANGED <<inbox, writer, owed>>
      PROVE  OfInterest(d)'
  BY <1>0, <1>1 DEF OfInterest, SelectsFor
<1>2. ASSUME NEW c \in Collectors, NEW tx \in BOOLEAN, CreateQuery(c, tx) \/ Collect(c, tx)
      PROVE  OfInterest(d)'
  BY <1>1, <1>2 DEF TypeOK, CreateQuery, Collect, writeVars, upstream
<1>3. ASSUME NEW c \in Collectors, AllocateSlot(c) \/ Subscribe(c)
      PROVE  OfInterest(d)'
  BY <1>1, <1>3 DEF AllocateSlot, Subscribe, writeVars
<1>4. ASSUME NEW c \in Collectors, RefuseRun(c) \/ Cancel(c)
      PROVE  OfInterest(d)'
  BY <1>1, <1>4 DEF RefuseRun, Cancel, writeVars, upstream
<1>5. ASSUME NEW c \in Collectors, TakeTrigger(c)
      PROVE  OfInterest(d)'
  <2>1. ASSUME NEW i \in 1..Len(inbox'[d]) PROVE SelectsFor(d, inbox'[d][i])
    <3>1. CASE d = c
      <4>1. inbox[c] \in Seq(SUBSET Tables) /\ inbox[c] # <<>> /\ inbox'[c] = Tail(inbox[c])
        BY <1>5 DEF TypeOK, TakeTrigger
      <4>2. i + 1 \in 1..Len(inbox[c]) /\ inbox'[c][i] = inbox[c][i + 1]
        BY <2>1, <3>1, <4>1
      <4> QED
        BY <1>0, <3>1, <4>2 DEF OfInterest
    <3>2. CASE d # c
      BY <1>0, <1>5, <2>1, <3>2 DEF TypeOK, OfInterest, TakeTrigger
    <3> QED
      BY <3>1, <3>2
  <2> QED
    BY <1>0, <1>5, <2>1 DEF OfInterest, SelectsFor, TakeTrigger, writeVars
<1>6. ASSUME NEW c \in Collectors, Receive(c) \/ RunQuery(c)
      PROVE  OfInterest(d)'
  BY <1>1, <1>6 DEF Receive, RunQuery, writeVars, upstream
<1>7. ASSUME NEW c \in Collectors, RefuseSubscription(c) \/ FreeSlot(c)
      PROVE  OfInterest(d)'
  <2>1. inbox' = [inbox EXCEPT ![c] = <<>>] /\ UNCHANGED <<writer, owed>>
    BY <1>7 DEF RefuseSubscription, FreeSlot, writeVars
  <2>2. \A i \in 1..Len(inbox'[d]) : SelectsFor(d, inbox'[d][i])
    <3>1. CASE d = c
      <4>1. inbox'[d] = <<>>
        BY <2>1, <3>1 DEF TypeOK
      <4> QED
        BY <4>1
    <3>2. CASE d # c
      BY <1>0, <2>1, <3>2 DEF TypeOK, OfInterest
    <3> QED
      BY <3>1, <3>2
  <2> QED
    BY <1>0, <2>1, <2>2 DEF OfInterest, SelectsFor
<1>8. ASSUME NEW w \in Writers, NEW T \in TriggerSets,
             writer' = [writer EXCEPT ![w] = "statement"],
             owed' = [owed EXCEPT ![w] = T], UNCHANGED inbox
      PROVE  OfInterest(d)'
  <2>1. SelectsFor(d, T)
    BY DEF SoleObserver
  <2>2. ASSUME NEW v \in Writers
        PROVE  SelectsFor(d, owed'[v]) \/ (writer'[v] = writer[v] /\ owed'[v] = owed[v])
    BY <1>8, <2>1 DEF TypeOK
  <2>3. \A v \in Writers : writer'[v] = "statement" \/ writer'[v] = writer[v]
    BY <1>8 DEF TypeOK
  <2> QED
    BY <1>0, <1>8, <2>2, <2>3 DEF OfInterest, SelectsFor
<1>9. ASSUME NEW w \in Writers, NEW T \in TriggerSets, NEW kind \in WriteKinds,
             Write(w, T, kind)
      PROVE  OfInterest(d)'
  <2>1. kind = "statement"
    BY DEF SoleObserver
  <2> QED
    BY <1>8, <1>9, <2>1 DEF Write, upstream
<1>10. ASSUME NEW w \in Writers, NEW T \in TriggerSets, Announce(w, T)
       PROVE  OfInterest(d)'
  BY <1>8, <1>10 DEF Announce, upstream
<1>11. ASSUME NEW w \in Writers, SendTableTrigger(w)
       PROVE  OfInterest(d)'
  <2>1. ASSUME NEW i \in 1..Len(inbox'[d]) PROVE SelectsFor(d, inbox'[d][i])
    <3>1. inbox[d] \in Seq(SUBSET Tables) /\ owed[w] \in SUBSET Tables
      BY DEF TypeOK
    <3>2. inbox'[d] = inbox[d] \/ inbox'[d] = Append(inbox[d], owed[w])
      BY <1>11 DEF TypeOK, SendTableTrigger
    <3>3. SelectsFor(d, owed[w])
      BY <1>11 DEF AllOfInterest, OfInterest, SendTableTrigger
    <3>4. CASE inbox'[d] = inbox[d]
      BY <1>0, <2>1, <3>4 DEF OfInterest
    <3>5. CASE inbox'[d] = Append(inbox[d], owed[w])
      <4>1. (i \in 1..Len(inbox[d]) /\ inbox'[d][i] = inbox[d][i]) \/ inbox'[d][i] = owed[w]
        BY <2>1, <3>1, <3>5
      <4> QED
        BY <1>0, <3>3, <4>1 DEF OfInterest
    <3> QED
      BY <3>2, <3>4, <3>5
  <2>2. writer' = [writer EXCEPT ![w] = "idle"] /\ owed' = [owed EXCEPT ![w] = {}]
    BY <1>11 DEF SendTableTrigger
  <2> QED
    BY <1>0, <2>1, <2>2 DEF TypeOK, OfInterest, SelectsFor
<1>12. ASSUME NEW w \in Writers, CancelWrite(w)
       PROVE  FALSE
  BY <1>12 DEF AllOfInterest, OfInterest, CancelWrite
<1>13. ASSUME NEW T \in TriggerSets, Execute(T)
       PROVE  FALSE
  BY <1>13 DEF SoleObserver, Execute
<1>14. CASE UNCHANGED vars
  BY <1>1, <1>14 DEF vars
<1> QED
  BY <1>2, <1>3, <1>4, <1>5, <1>6, <1>7, <1>9, <1>10, <1>11, <1>12, <1>13, <1>14
     DEF Next, CollectorStep

(* README: "any subscribed queries will update with the new data".  Under  *)
(* these conditions they do, however fast the writers are: when the buffer *)
(* has no room for a trigger, one that it holds will do.                   *)
THEOREM SubscribedUpdate ==
  ASSUME SoleObserver PROVE Spec => []SubscribedQueriesUpdate
<1>1. Init => AllOfInterest /\ SubscribedQueriesUpdate
  BY DEF Init, AllOfInterest, OfInterest, SubscribedQueriesUpdate
<1>2. TypeOK /\ IdleOwesNothing /\ AllOfInterest /\ SubscribedQueriesUpdate /\ [Next]_vars
        => AllOfInterest' /\ SubscribedQueriesUpdate'
  <2> SUFFICES ASSUME TypeOK, IdleOwesNothing, AllOfInterest, SubscribedQueriesUpdate,
                      [Next]_vars, NEW d \in Collectors, NEW t \in Tables,
                      IsOpen(d)', d \in slots', Stale(d, t)', base'[d][t] < version'[t]
               PROVE  Pending(d)' \/ BeingAnnounced(t)'
    BY InterestKept DEF SubscribedQueriesUpdate
  <2> DEFINE Behind == IsOpen(d) /\ d \in slots /\ Stale(d, t) /\ base[d][t] < version[t]
  <2>0. Behind => Pending(d) \/ BeingAnnounced(t)
    BY DEF SubscribedQueriesUpdate
  <2> HIDE DEF Behind
  <2>1. ASSUME NEW c \in Collectors, NEW tx \in BOOLEAN, CreateQuery(c, tx)
        PROVE  Pending(d)' \/ BeingAnnounced(t)'
    <3>1. Behind
      BY <2>1 DEF TypeOK, CreateQuery, Behind, Stale, IsOpen, writeVars, upstream
    <3> QED
      BY <2>0, <2>1, <3>1 DEF CreateQuery, Pending, BeingAnnounced, writeVars, upstream
  <2>14. ASSUME NEW c \in Collectors, NEW tx \in BOOLEAN, Collect(c, tx)
        PROVE  Pending(d)' \/ BeingAnnounced(t)'
    <3>1. CASE d = c
      BY <2>14, <3>1 DEF TypeOK, Collect, Pending
    <3>2. CASE d # c
      <4>1. Behind
        BY <2>14, <3>2 DEF TypeOK, Collect, Behind, Stale, IsOpen, writeVars, upstream
      <4> QED
        BY <2>0, <2>14, <3>2, <4>1
           DEF TypeOK, Collect, Pending, BeingAnnounced, writeVars, upstream
    <3> QED
      BY <3>1, <3>2
  <2>2. ASSUME NEW c \in Collectors, AllocateSlot(c)
        PROVE  Pending(d)' \/ BeingAnnounced(t)'
    <3>1. d # c
      BY <2>2 DEF TypeOK, AllocateSlot, writeVars
    <3>2. Behind
      BY <2>2, <3>1 DEF TypeOK, AllocateSlot, Behind, Stale, IsOpen, writeVars
    <3> QED
      BY <2>0, <2>2, <3>2 DEF AllocateSlot, Pending, BeingAnnounced, writeVars
  <2>15. ASSUME NEW c \in Collectors, Subscribe(c)
        PROVE  Pending(d)' \/ BeingAnnounced(t)'
    <3>1. Behind
      BY <2>15 DEF TypeOK, Subscribe, Behind, Stale, IsOpen, writeVars
    <3> QED
      BY <2>0, <2>15, <3>1 DEF Subscribe, Pending, BeingAnnounced, writeVars
  <2>3. ASSUME NEW c \in Collectors, RefuseSubscription(c) \/ RefuseRun(c) \/ Cancel(c)
        PROVE  Pending(d)' \/ BeingAnnounced(t)'
    <3>1. /\ EndCollection(c) /\ UNCHANGED <<writeVars, seen>>
          /\ slots' \subseteq slots /\ \A e \in Collectors : e # c => inbox'[e] = inbox[e]
      BY <2>3 DEF TypeOK, RefuseSubscription, RefuseRun, Cancel, upstream
    <3>2. d # c
      BY <3>1 DEF TypeOK, EndCollection, IsOpen
    <3>3. Behind
      BY <3>1, <3>2 DEF TypeOK, EndCollection, Behind, Stale, IsOpen, writeVars
    <3> QED
      BY <2>0, <3>1, <3>2, <3>3 DEF TypeOK, EndCollection, Pending, BeingAnnounced, writeVars
  <2>4. ASSUME NEW c \in Collectors, TakeTrigger(c)
        PROVE  Pending(d)' \/ BeingAnnounced(t)'
    <3>1. Behind
      BY <2>4 DEF TakeTrigger, Behind, Stale, IsOpen, writeVars
    <3>2. CASE d # c
      BY <2>0, <2>4, <3>1, <3>2 DEF TypeOK, TakeTrigger, Pending, BeingAnnounced, writeVars
    <3>3. CASE d = c
      <4>1. inbox[c] \in Seq(SUBSET Tables) /\ inbox[c] # <<>>
        BY <2>4 DEF TypeOK, TakeTrigger
      <4>2. CASE BeingAnnounced(t)
        BY <2>4, <4>2 DEF TakeTrigger, BeingAnnounced, writeVars
      <4>3. CASE ~BeingAnnounced(t)
        <5>1. 1 \in 1..Len(inbox[c]) /\ Head(inbox[c]) = inbox[c][1]
          BY <4>1
        <5>2. SelectsFor(c, Head(inbox[c]))
          BY <5>1 DEF AllOfInterest, OfInterest
        <5> QED
          BY <2>4, <3>3, <5>2 DEF TypeOK, TakeTrigger, Pending
      <4> QED
        BY <4>2, <4>3
    <3> QED
      BY <3>2, <3>3
  <2>5. ASSUME NEW c \in Collectors, Receive(c)
        PROVE  Pending(d)' \/ BeingAnnounced(t)'
    <3>1. Behind
      BY <2>5 DEF Receive, Behind, Stale, IsOpen, writeVars, upstream
    <3> QED
      BY <2>0, <2>5, <3>1 DEF TypeOK, Receive, Pending, BeingAnnounced, writeVars, upstream
  <2>6. ASSUME NEW c \in Collectors, RunQuery(c)
        PROVE  Pending(d)' \/ BeingAnnounced(t)'
    <3>1. d # c
      BY <2>6 DEF TypeOK, RunQuery, Stale, writeVars
    <3>2. Behind
      BY <2>6, <3>1 DEF TypeOK, RunQuery, Behind, Stale, IsOpen, writeVars, upstream
    <3> QED
      BY <2>0, <2>6, <3>1, <3>2 DEF TypeOK, RunQuery, Pending, BeingAnnounced, writeVars,
         upstream
  <2>7. ASSUME NEW c \in Collectors, FreeSlot(c)
        PROVE  Pending(d)' \/ BeingAnnounced(t)'
    <3>1. Behind /\ d # c
      BY <2>7 DEF TypeOK, FreeSlot, Behind, Stale, IsOpen, writeVars
    <3> QED
      BY <2>0, <2>7, <3>1 DEF TypeOK, FreeSlot, Pending, BeingAnnounced, writeVars
  <2>8. ASSUME NEW w \in Writers, NEW T \in TriggerSets, NEW kind \in WriteKinds,
               Write(w, T, kind)
        PROVE  Pending(d)' \/ BeingAnnounced(t)'
    <3>1. CASE t \in T
      BY <2>8, <3>1 DEF TypeOK, Write, BeingAnnounced
    <3>2. CASE t \notin T
      <4>1. Behind
        BY <2>8, <3>2 DEF TypeOK, Write, Behind, Stale, IsOpen, upstream
      <4>2. Pending(d) => Pending(d)'
        BY <2>8 DEF Write, Pending, upstream
      <4>3. BeingAnnounced(t) => BeingAnnounced(t)'
        BY <2>8 DEF TypeOK, IdleOwesNothing, Write, BeingAnnounced
      <4> QED
        BY <2>0, <4>1, <4>2, <4>3
    <3> QED
      BY <3>1, <3>2
  <2>9. ASSUME NEW w \in Writers, NEW T \in TriggerSets, Announce(w, T)
        PROVE  Pending(d)' \/ BeingAnnounced(t)'
    <3>1. Behind /\ (Pending(d) => Pending(d)')
      BY <2>9 DEF Announce, Behind, Stale, IsOpen, Pending, upstream
    <3>2. BeingAnnounced(t) => BeingAnnounced(t)'
      BY <2>9 DEF TypeOK, IdleOwesNothing, Announce, BeingAnnounced
    <3> QED
      BY <2>0, <3>1, <3>2
  <2>10. ASSUME NEW w \in Writers, SendTableTrigger(w)
         PROVE  Pending(d)' \/ BeingAnnounced(t)'
    <3>1. Behind
      BY <2>10 DEF SendTableTrigger, Behind, Stale, IsOpen
    <3>2. OfInterest(d) /\ d \in slots
      BY <2>10, <3>1 DEF AllOfInterest, OfInterest, Behind
    <3>3. inbox[d] \in Seq(SUBSET Tables) /\ owed[w] \in SUBSET Tables
      BY DEF TypeOK
    <3>4. CASE HasRoom
      <4>1. inbox'[d] = Append(inbox[d], owed[w])
        BY <2>10, <3>2, <3>4 DEF TypeOK, SendTableTrigger
      <4>2. Len(inbox'[d]) \in 1..Len(inbox'[d]) /\ inbox'[d][Len(inbox'[d])] = owed[w]
        BY <3>3, <4>1
      <4>3. SelectsFor(d, owed[w])
        BY <2>10, <3>2 DEF OfInterest, SendTableTrigger
      <4> QED
        BY <4>2, <4>3 DEF Pending, SelectsFor
    <3>5. CASE ~HasRoom
      <4>1. inbox' = inbox
        BY <2>10, <3>5 DEF SendTableTrigger
      <4>2. PICK c \in slots : ~(Len(inbox[c]) < ExtraBufferCapacity)
        BY <3>5 DEF HasRoom
      <4>3. c = d
        BY DEF SoleObserver, TypeOK
      <4>4. ExtraBufferCapacity \in Nat /\ ExtraBufferCapacity # 0
        BY QueryAssumption
      <4>5. 1 \in 1..Len(inbox[d])
        BY <3>3, <4>2, <4>3, <4>4
      <4>6. SelectsFor(d, inbox[d][1])
        BY <3>2, <4>5 DEF OfInterest
      <4> QED
        BY <4>1, <4>5, <4>6 DEF Pending, SelectsFor
    <3> QED
      BY <3>4, <3>5
  <2>11. ASSUME NEW w \in Writers, CancelWrite(w)
         PROVE  FALSE
    BY <2>11 DEF AllOfInterest, OfInterest, CancelWrite
  <2>12. ASSUME NEW T \in TriggerSets, Execute(T)
         PROVE  FALSE
    BY <2>12 DEF SoleObserver, Execute
  <2>13. CASE UNCHANGED vars
    BY <2>0, <2>13 DEF vars, Behind, Stale, IsOpen, Pending, BeingAnnounced
  <2> QED
    BY <2>1, <2>2, <2>3, <2>4, <2>5, <2>6, <2>7, <2>8, <2>9, <2>10, <2>11, <2>12, <2>13,
       <2>14, <2>15
       DEF Next, CollectorStep
<1> QED
  BY <1>1, <1>2, TypeCorrect, IdleWriters, PTL DEF Spec

-----------------------------------------------------------------------------
(* One run for a trigger *)

(* Which of the triggers select a query can be counted. *)
LEMMA SelectingFinite ==
  ASSUME NEW c, NEW s \in Seq(SUBSET Tables)
  PROVE  IsFiniteSet(Selecting(c, s)) /\ Cardinality(Selecting(c, s)) \in Nat
<1>1. IsFiniteSet(1..Len(s))
  BY FS_Interval
<1>2. Selecting(c, s) \in SUBSET (1..Len(s))
  BY DEF Selecting
<1> QED
  BY <1>1, <1>2, FS_Subset, FS_CardinalityType

(* Taking the first trigger leaves the others, one place further in front. *)
LEMMA SelectingTail ==
  ASSUME NEW c, NEW s \in Seq(SUBSET Tables), s # <<>>
  PROVE  Cardinality(Selecting(c, s))
           = Cardinality(Selecting(c, Tail(s))) + (IF SelectsFor(c, Head(s)) THEN 1 ELSE 0)
<1> DEFINE S == Selecting(c, Tail(s))
           T == Selecting(c, s) \ {1}
           f == [i \in S |-> i + 1]
<1>1. /\ Len(s) \in Nat \ {0} /\ Len(Tail(s)) = Len(s) - 1
      /\ \A i \in 1..Len(Tail(s)) : Tail(s)[i] = s[i + 1]
      /\ Tail(s) \in Seq(SUBSET Tables) /\ Head(s) = s[1]
  OBVIOUS
<1>2. \A i \in Nat : i \in S <=> i + 1 \in T
  <2>1. ASSUME NEW i \in Nat PROVE i \in S <=> i + 1 \in T
    <3>1. i \in 1..Len(Tail(s)) <=> i + 1 \in 1..Len(s) /\ i + 1 # 1
      BY <1>1
    <3> QED
      BY <1>1, <3>1 DEF Selecting
  <2> QED
    BY <2>1
<1>3. S \subseteq Nat /\ \A j \in T : j - 1 \in Nat /\ (j - 1) + 1 = j
  BY <1>1 DEF Selecting
<1>4. f \in Bijection(S, T)
  <2> HIDE DEF S, T
  <2>1. f \in [S -> T]
    BY <1>2, <1>3
  <2>2. \A i, j \in S : f[i] = f[j] => i = j
    BY <1>3
  <2>3. \A j \in T : \E i \in S : f[i] = j
    <3> TAKE j \in T
    <3>1. j - 1 \in S /\ f[j - 1] = j
      BY <1>2, <1>3
    <3> QED
      BY <3>1
  <2> HIDE DEF f
  <2> QED
    BY <2>1, <2>2, <2>3 DEF Bijection, Injection, Surjection, IsInjective
<1>5. IsFiniteSet(S) /\ Cardinality(T) = Cardinality(S)
  <2>1. IsFiniteSet(S)
    BY <1>1, SelectingFinite
  <2>2. ExistsBijection(S, T)
    BY <1>4 DEF ExistsBijection
  <2> HIDE DEF S, T
  <2> QED
    BY <2>1, <2>2, FS_Bijection
<1>6. 1 \in Selecting(c, s) <=> SelectsFor(c, Head(s))
  BY <1>1 DEF Selecting
<1>7. Cardinality(T) = IF 1 \in Selecting(c, s) THEN Cardinality(Selecting(c, s)) - 1
                                                ELSE Cardinality(Selecting(c, s))
  BY SelectingFinite, FS_RemoveElement
<1>8. Cardinality(Selecting(c, s)) \in Nat
  BY SelectingFinite
<1> HIDE DEF S, T
<1>9. Cardinality(S) = Cardinality(Selecting(c, Tail(s)))
  BY DEF S
<1>10. CASE SelectsFor(c, Head(s))
  <2>1. Cardinality(Selecting(c, Tail(s))) = Cardinality(Selecting(c, s)) - 1
    BY <1>5, <1>6, <1>7, <1>9, <1>10
  <2> QED
    BY <1>8, <1>10, <2>1
<1>11. CASE ~SelectsFor(c, Head(s))
  <2>1. Cardinality(Selecting(c, Tail(s))) = Cardinality(Selecting(c, s))
    BY <1>5, <1>6, <1>7, <1>9, <1>11
  <2> QED
    BY <1>8, <1>11, <2>1
<1> QED
  BY <1>10, <1>11

(* Sending one adds that one. *)
LEMMA SelectingAppend ==
  ASSUME NEW c, NEW s \in Seq(SUBSET Tables), NEW T \in SUBSET Tables
  PROVE  Cardinality(Selecting(c, Append(s, T)))
           = Cardinality(Selecting(c, s)) + (IF SelectsFor(c, T) THEN 1 ELSE 0)
<1> DEFINE n == Len(s) + 1
<1>1. /\ Len(s) \in Nat /\ Len(Append(s, T)) = n /\ Append(s, T)[n] = T
      /\ \A i \in 1..Len(s) : Append(s, T)[i] = s[i]
      /\ 1..n = 1..Len(s) \cup {n} /\ n \notin 1..Len(s)
  OBVIOUS
<1>2. /\ SelectsFor(c, T) => Selecting(c, Append(s, T)) = Selecting(c, s) \cup {n}
      /\ ~SelectsFor(c, T) => Selecting(c, Append(s, T)) = Selecting(c, s)
  <2> HIDE DEF n
  <2> QED
    BY <1>1 DEF Selecting
<1>3. n \notin Selecting(c, s)
  BY <1>1 DEF Selecting
<1>4. Cardinality(Selecting(c, s) \cup {n}) = Cardinality(Selecting(c, s)) + 1
  BY <1>3, SelectingFinite, FS_AddElement
<1>5. Cardinality(Selecting(c, s)) \in Nat
  BY SelectingFinite
<1>6. CASE SelectsFor(c, T)
  BY <1>2, <1>4, <1>6
<1>7. CASE ~SelectsFor(c, T)
  BY <1>2, <1>5, <1>7
<1> QED
  BY <1>6, <1>7

(* What one step may do to the backlog of one collector. *)
RunsForOneTrigger(c) ==
  Backlog(c)' > Backlog(c) =>
    /\ Backlog(c)' = Backlog(c) + 1
    /\ \/ phase[c] = "created"
       \/ \E w \in Writers : SelectsFor(c, owed[w]) /\ owed'[w] = {}

(* A step that makes a collector's backlog grow is its first run or a      *)
(* trigger taken for it, and then it grows by one.                         *)
LEMMA BacklogGrowth ==
  ASSUME TypeOK, TypeOK', [Next]_vars, NEW d \in Collectors
  PROVE  RunsForOneTrigger(d)
<1>0. /\ queued[d] \in Nat /\ queued'[d] \in Nat
      /\ running[d] \in BOOLEAN /\ running'[d] \in BOOLEAN
      /\ inbox[d] \in Seq(SUBSET Tables) /\ inbox'[d] \in Seq(SUBSET Tables)
  BY DEF TypeOK
<1>1. PICK k \in Nat, n \in Nat : k = Cardinality(Selecting(d, inbox[d]))
                                  /\ n = Cardinality(Selecting(d, inbox'[d]))
  BY <1>0, SelectingFinite
<1>2. /\ Backlog(d) = queued[d] + (IF running[d] THEN 1 ELSE 0) + k
      /\ Backlog(d)' = queued'[d] + (IF running'[d] THEN 1 ELSE 0) + n
  BY <1>1 DEF Backlog, Selecting, SelectsFor
<1>3. ASSUME n = k, queued'[d] = queued[d], running'[d] => running[d]
      PROVE  RunsForOneTrigger(d)
  BY <1>0, <1>2, <1>3 DEF RunsForOneTrigger
<1>4. inbox'[d] = inbox[d] => n = k
  BY <1>1
<1>5. ASSUME inbox'[d] = inbox[d], queued'[d] = queued[d], running'[d] = running[d]
      PROVE  RunsForOneTrigger(d)
  BY <1>3, <1>4, <1>5
<1>6. ASSUME NEW c \in Collectors, NEW tx \in BOOLEAN, CreateQuery(c, tx)
      PROVE  RunsForOneTrigger(d)
  BY <1>5, <1>6 DEF CreateQuery, upstream
<1>7. ASSUME NEW c \in Collectors, NEW tx \in BOOLEAN, Collect(c, tx)
      PROVE  RunsForOneTrigger(d)
  <2>1. CASE d = c
    <3>1. n = k /\ queued'[d] = 1 /\ running'[d] = running[d] /\ phase[d] = "created"
      BY <1>4, <1>7, <2>1 DEF TypeOK, Collect, upstream
    <3> QED
      BY <1>0, <1>2, <3>1 DEF RunsForOneTrigger
  <2>2. CASE d # c
    BY <1>5, <1>7, <2>2 DEF TypeOK, Collect, upstream
  <2> QED
    BY <2>1, <2>2
<1>8. ASSUME NEW c \in Collectors, AllocateSlot(c) \/ Subscribe(c)
      PROVE  RunsForOneTrigger(d)
  BY <1>5, <1>8 DEF AllocateSlot, Subscribe
<1>9. ASSUME NEW c \in Collectors, RefuseSubscription(c) \/ RefuseRun(c) \/ Cancel(c)
      PROVE  RunsForOneTrigger(d)
  <2>1. /\ EndCollection(c) /\ inbox'[c] \in {inbox[c], <<>>}
        /\ \A e \in Collectors : e # c => inbox'[e] = inbox[e]
    BY <1>9 DEF TypeOK, RefuseSubscription, RefuseRun, Cancel, upstream
  <2>2. CASE d = c
    <3>1. queued'[d] = 0 /\ running'[d] = FALSE
      BY <2>1, <2>2 DEF TypeOK, EndCollection
    <3>2. Selecting(d, <<>>) = {}
      BY DEF Selecting
    <3>3. n = k \/ n = 0
      BY <1>1, <1>4, <2>1, <2>2, <3>2, FS_EmptySet
    <3> QED
      BY <1>0, <1>2, <3>1, <3>3 DEF RunsForOneTrigger
  <2>3. CASE d # c
    BY <1>5, <2>1, <2>3 DEF TypeOK, EndCollection
  <2> QED
    BY <2>2, <2>3
<1>10. ASSUME NEW c \in Collectors, TakeTrigger(c)
       PROVE  RunsForOneTrigger(d)
  <2>1. CASE d = c
    <3>1. inbox[d] # <<>> /\ inbox'[d] = Tail(inbox[d]) /\ running'[d] = running[d]
      BY <1>10, <2>1 DEF TypeOK, TakeTrigger
    <3>2. k = n + (IF SelectsFor(d, Head(inbox[d])) THEN 1 ELSE 0)
      BY <1>0, <1>1, <3>1, SelectingTail
    <3>3. queued'[d] = queued[d] + (IF SelectsFor(d, Head(inbox[d])) THEN 1 ELSE 0)
      BY <1>0, <1>10, <2>1 DEF TypeOK, TakeTrigger
    <3>4. Backlog(d)' = Backlog(d)
      BY <1>0, <1>2, <3>1, <3>2, <3>3
    <3>5. Backlog(d) \in Nat
      BY <1>0, <1>2
    <3> QED
      BY <3>4, <3>5 DEF RunsForOneTrigger
  <2>2. CASE d # c
    BY <1>5, <1>10, <2>2 DEF TypeOK, TakeTrigger
  <2> QED
    BY <2>1, <2>2
<1>11. ASSUME NEW c \in Collectors, Receive(c)
       PROVE  RunsForOneTrigger(d)
  <2>1. CASE d = c
    <3>1. n = k /\ queued'[d] = queued[d] - 1 /\ running'[d] = TRUE /\ running[d] = FALSE
      BY <1>0, <1>4, <1>11, <2>1 DEF TypeOK, Receive, upstream
    <3> QED
      BY <1>0, <1>2, <3>1 DEF RunsForOneTrigger
  <2>2. CASE d # c
    BY <1>5, <1>11, <2>2 DEF TypeOK, Receive, upstream
  <2> QED
    BY <2>1, <2>2
<1>12. ASSUME NEW c \in Collectors, RunQuery(c)
       PROVE  RunsForOneTrigger(d)
  BY <1>3, <1>4, <1>12 DEF TypeOK, RunQuery, upstream
<1>13. ASSUME NEW c \in Collectors, FreeSlot(c)
       PROVE  RunsForOneTrigger(d)
  <2>1. CASE d = c
    <3>1. inbox'[d] = <<>> /\ queued'[d] = queued[d] /\ running'[d] = running[d]
      BY <1>13, <2>1 DEF TypeOK, FreeSlot
    <3>2. Selecting(d, <<>>) = {}
      BY DEF Selecting
    <3>3. n = 0
      BY <1>1, <3>1, <3>2, FS_EmptySet
    <3> QED
      BY <1>0, <1>2, <3>1, <3>3 DEF RunsForOneTrigger
  <2>2. CASE d # c
    BY <1>5, <1>13, <2>2 DEF TypeOK, FreeSlot
  <2> QED
    BY <2>1, <2>2
<1>14. ASSUME NEW w \in Writers, NEW T \in TriggerSets, NEW kind \in WriteKinds,
              Write(w, T, kind)
       PROVE  RunsForOneTrigger(d)
  BY <1>5, <1>14 DEF Write, upstream
<1>15. ASSUME NEW w \in Writers, NEW T \in TriggerSets, Announce(w, T)
       PROVE  RunsForOneTrigger(d)
  BY <1>5, <1>15 DEF Announce, upstream
<1>16. ASSUME NEW w \in Writers, SendTableTrigger(w)
       PROVE  RunsForOneTrigger(d)
  <2>1. /\ queued'[d] = queued[d] /\ running'[d] = running[d]
        /\ inbox'[d] = inbox[d] \/ inbox'[d] = Append(inbox[d], owed[w])
        /\ owed[w] \in SUBSET Tables /\ owed'[w] = {}
    BY <1>16 DEF TypeOK, SendTableTrigger
  <2>2. CASE inbox'[d] = inbox[d]
    BY <1>5, <2>1, <2>2
  <2>3. CASE inbox'[d] = Append(inbox[d], owed[w])
    <3>1. n = k + (IF SelectsFor(d, owed[w]) THEN 1 ELSE 0)
      BY <1>0, <1>1, <2>1, <2>3, SelectingAppend
    <3>2. CASE SelectsFor(d, owed[w])
      <4>1. n = k + 1
        BY <3>1, <3>2
      <4>2. Backlog(d)' = Backlog(d) + 1
        BY <1>0, <1>2, <2>1, <4>1
      <4> QED
        BY <2>1, <3>2, <4>2 DEF RunsForOneTrigger
    <3>3. CASE ~SelectsFor(d, owed[w])
      BY <1>3, <2>1, <3>1, <3>3
    <3> QED
      BY <3>2, <3>3
  <2> QED
    BY <2>1, <2>2, <2>3
<1>17. ASSUME NEW w \in Writers, CancelWrite(w)
       PROVE  RunsForOneTrigger(d)
  BY <1>5, <1>17 DEF CancelWrite, upstream
<1>18. ASSUME NEW T \in TriggerSets, Execute(T)
       PROVE  RunsForOneTrigger(d)
  BY <1>5, <1>18 DEF Execute, upstream
<1>19. CASE UNCHANGED vars
  BY <1>5, <1>19 DEF vars
<1> QED
  BY <1>6, <1>7, <1>8, <1>9, <1>10, <1>11, <1>12, <1>13, <1>14, <1>15, <1>16, <1>17, <1>18,
     <1>19 DEF Next, CollectorStep

(* The runs a collector has before it grow by one for a trigger that names *)
(* one of its tables, and not otherwise but for the first run.             *)
THEOREM OneRunEach == Spec => OneRunPerTrigger
<1>1. TypeOK /\ TypeOK' /\ [Next]_vars
        => [\A c \in Collectors :
              Backlog(c)' > Backlog(c) =>
                /\ Backlog(c)' = Backlog(c) + 1
                /\ \/ phase[c] = "created"
                   \/ \E w \in Writers : SelectsFor(c, owed[w]) /\ owed'[w] = {}]_vars
  BY BacklogGrowth DEF RunsForOneTrigger
<1> QED
  BY <1>1, TypeCorrect, PTL DEF Spec, OneRunPerTrigger
=============================================================================
