------------------------------ MODULE ThreadLease ------------------------------
(***************************************************************************)
(* What an outermost withTransaction may rely on about the threads of the  *)
(* transaction executor: it asks for one, gets one that nobody has or goes *)
(* without, and what it got is its own until its last release(), whatever  *)
(* others ask for, give back or cancel.                                    *)
(***************************************************************************)
CONSTANTS Calls, Threads, NoCall

VARIABLES
  lease,   \* how far each call has come with its thread
  holder   \* the call each thread is lent to

vars == <<lease, holder>>

Init ==
  /\ lease = [c \in Calls |-> "none"]
  /\ holder = [t \in Threads |-> NoCall]

(* The task is handed to the executor, the caller is suspended. *)
Ask(c) ==
  /\ lease[c] = "none"
  /\ lease' = [lease EXCEPT ![c] = "waiting"]
  /\ UNCHANGED holder

Take(c, t) ==
  /\ lease[c] = "waiting"
  /\ holder[t] = NoCall
  /\ lease' = [lease EXCEPT ![c] = "held"]
  /\ holder' = [holder EXCEPT ![t] = c]

(* Refused by the executor, or cancelled before a thread was there. *)
GoWithout(c) ==
  /\ lease[c] \in {"none", "waiting"}
  /\ lease' = [lease EXCEPT ![c] = "over"]
  /\ UNCHANGED holder

GiveBack(c) ==
  /\ lease[c] = "held"
  /\ lease' = [lease EXCEPT ![c] = "over"]
  /\ holder' = [t \in Threads |-> IF holder[t] = c THEN NoCall ELSE holder[t]]

Next ==
  \E c \in Calls :
    \/ Ask(c)
    \/ \E t \in Threads : Take(c, t)
    \/ GoWithout(c)
    \/ GiveBack(c)

Spec == Init /\ [][Next]_vars
=============================================================================
