----------------------- MODULE MCSuspendingTransaction -----------------------
(* Values of the constants of SuspendingTransaction for model checking. *)
EXTENDS SuspendingTransaction, TLC

MCSymmetry == Permutations(Txns) \cup Permutations(Threads) \cup Permutations(Tables)

NoUsage    == {}
Concurrent == {"siblings", "parallel", "cancelWrite"}
Cancelling == {"cancel"}
Everything == {"siblings", "parallel", "cancelWrite", "cancel"}
=============================================================================
