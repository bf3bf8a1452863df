--------------------------- MODULE AtomicTransaction ---------------------------
(***************************************************************************)
(* What withTransaction promises its callers: at most one transaction runs *)
(* at a time, its changes become visible all at once or not at all, and    *)
(* the notifications it queued are sent exactly when they do: those of the *)
(* tables it wrote with a method that notifies or asked a trigger for, and *)
(* no others ("Transactions queue up all query notifications until they    *)
(* have been applied").                                                    *)
(***************************************************************************)
CONSTANTS Calls, Tables

VARIABLES
  state,      \* of each outermost call
  changed,    \* the tables it has changed so far
  due,        \* the tables it is to announce, so far
  announced   \* the tables it announced when it ended

vars == <<state, changed, due, announced>>

Init ==
  /\ state = [c \in Calls |-> "idle"]
  /\ changed = [c \in Calls |-> {}]
  /\ due = [c \in Calls |-> {}]
  /\ announced = [c \in Calls |-> {}]

Start(c) ==
  /\ state[c] = "idle"
  /\ \A d \in Calls : state[d] # "running"
  /\ state' = [state EXCEPT ![c] = "running"]
  /\ UNCHANGED <<changed, due, announced>>

(* A change that notifies nobody. *)
Change(c, t) ==
  /\ state[c] = "running"
  /\ changed' = [changed EXCEPT ![c] = @ \cup {t}]
  /\ UNCHANGED <<state, due, announced>>

(* A notification asked for. *)
Notify(c, t) ==
  /\ state[c] = "running"
  /\ due' = [due EXCEPT ![c] = @ \cup {t}]
  /\ UNCHANGED <<state, changed, announced>>

(* A change that is to be announced. *)
Write(c, t) ==
  /\ state[c] = "running"
  /\ changed' = [changed EXCEPT ![c] = @ \cup {t}]
  /\ due' = [due EXCEPT ![c] = @ \cup {t}]
  /\ UNCHANGED <<state, announced>>

Commit(c) ==
  /\ state[c] = "running"
  /\ state' = [state EXCEPT ![c] = "committed"]
  /\ announced' = [announced EXCEPT ![c] = due[c]]
  /\ changed' = [changed EXCEPT ![c] = {}]
  /\ due' = [due EXCEPT ![c] = {}]

RollBack(c) ==
  /\ state[c] = "running"
  /\ state' = [state EXCEPT ![c] = "rolledBack"]
  /\ changed' = [changed EXCEPT ![c] = {}]
  /\ due' = [due EXCEPT ![c] = {}]
  /\ UNCHANGED announced

Next ==
  \E c \in Calls :
    \/ Start(c)
    \/ \E t \in Tables : Change(c, t) \/ Notify(c, t) \/ Write(c, t)
    \/ Commit(c)
    \/ RollBack(c)

Spec == Init /\ [][Next]_vars
=============================================================================
