-------------------------- MODULE MCObservableQuery --------------------------
(* Values of the constants of ObservableQuery for model checking. *)
EXTENDS ObservableQuery, TLC

CONSTANTS a, b, c1, c2, w1, w2

MCTables   == {a, b}
MCSymmetry == Permutations({w1, w2})

(* Two collectors: c1 watches both tables from another dispatcher, through *)
(* a channel of one; c2 watches b and is collected on the query dispatcher.*)
PairTables      == (c1 :> {a, b}) @@ (c2 :> {b})
PairChannels    == (c1 :> 1) @@ (c2 :> 0)
PairTriggers    == {{}, {b}, {a, b}}

(* One collector alone, and every trigger concerns it. *)
SoleTables      == c1 :> {a, b}
SoleChannels    == c1 :> 1
SoleTriggers    == {{a}, {b}, {a, b}}

(* One collector, which watches only one of the two tables written. *)
NarrowTables    == c1 :> {a}
NarrowTriggers  == {{a}, {b}}

StatementsOnly  == {"statement"}
=============================================================================
