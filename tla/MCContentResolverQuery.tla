------------------------ MODULE MCContentResolverQuery ------------------------
(* Values of the constants of ContentResolverQuery for model checking. *)
EXTENDS ContentResolverQuery

CONSTANTS r1, bad

MCRows     == {r1, bad}
MCContents == {<<>>, <<r1>>, <<r1, r1>>, <<r1, bad>>}
MCMappers  == {"mapToOne", "mapToOneOrDefault", "mapToList", "asRows"}
=============================================================================
