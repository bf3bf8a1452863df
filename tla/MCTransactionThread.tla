------------------------- MODULE MCTransactionThread -------------------------
(* Values of the constants of TransactionThread for model checking. *)
EXTENDS TransactionThread, TLC

CONSTANTS x1, x2, x3, x4, j1, j2, j3

(* Two calls one after the other in one Job, two in Jobs of their own. *)
MCCallers == {x1, x2, x3, x4}
MCJobs    == {j1, j2, j3}
MCJobOf   == (x1 :> j1) @@ (x2 :> j1) @@ (x3 :> j2) @@ (x4 :> j3)
=============================================================================
