-------------------------- MODULE MCSourceSetFilter --------------------------
(* Values of the constants of SourceSetFilter for model checking. *)
EXTENDS SourceSetFilter, TLC

CONSTANTS common, jvm, js, test, platforms, tests, p1, p2

MCPages      == {p1, p2}
MCSymmetry   == Permutations(MCPages)
MCSourceSets == {common, jvm, js, test}

(* The tests are not documented: they have no button. *)
MCButtons    == {common, jvm, js}

MCDependencies == (common :> {}) @@ (jvm :> {common, test}) @@ (js :> {common})
                    @@ (test :> {jvm})

(* A row by platform, and one whose second bookmark is common code too. *)
MCRows       == {platforms, tests}
MCBookmarks  == (platforms :> <<{jvm}, {js}>>) @@ (tests :> <<{test}, {common, jvm}>>)
=============================================================================
