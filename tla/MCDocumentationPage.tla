------------------------- MODULE MCDocumentationPage -------------------------
(* Values of the constants of DocumentationPage for model checking: pages  *)
(* and a menu like those of the published site.                            *)
EXTENDS DocumentationPage, TLC

CONSTANTS
  index, kite, insert, query,
  Types, Functions, Extensions,
  onIndex, inTypes, inFunctions, inExtensions,
  mod, pkg, KiteDatabase, SqlKite, dotQuery, asRows, end, slash

MCDocuments == {index, kite, insert, query}
MCKeys      == {Types, Functions, Extensions}
MCTabs      == (index :> <<>>) @@ (kite :> <<Types, Functions>>) @@ (insert :> <<>>)
                 @@ (query :> <<Functions, Extensions>>)

(* An anchor that a page does not have is one that leads nowhere in it. *)
MCAnchors   == {onIndex, inTypes, inFunctions, inExtensions}
MCAnchorsOf == (index :> {onIndex}) @@ (kite :> {inTypes, inFunctions}) @@ (insert :> {})
                 @@ (query :> {inExtensions})
MCAnchorTab == (onIndex :> NoTab) @@ (inTypes :> Types) @@ (inFunctions :> Functions)
                 @@ (inExtensions :> Extensions)

MCAtoms   == {mod, pkg, KiteDatabase, SqlKite, insert, dotQuery, asRows, end, slash}

(* mod::pkg/class/callable/parameters/end *)
IndexId   == <<mod, slash, slash, slash, slash, end>>
PackageId == <<mod, pkg, slash, slash, slash, slash, end>>
AsRowsId  == <<mod, pkg, slash, slash, asRows, slash, slash, end>>
KiteId    == <<mod, pkg, slash, KiteDatabase, slash, slash, slash, end>>
SqlKiteId == <<mod, pkg, slash, SqlKite, slash, slash, slash, end>>

MCPageId == (index :> IndexId) @@ (kite :> KiteId)
              @@ (insert :> <<mod, pkg, slash, KiteDatabase, slash, insert, slash, slash, end>>)
              @@ (query :> <<mod, pkg, slash, SqlKite, dotQuery, slash, slash, slash, end>>)

MCMenu == <<[id |-> IndexId, above |-> {}], [id |-> PackageId, above |-> {1}],
            [id |-> AsRowsId, above |-> {1, 2}], [id |-> KiteId, above |-> {1, 2}],
            [id |-> SqlKiteId, above |-> {1, 2}]>>
MCMenuPart == (index :> 1) @@ (kite :> 4) @@ (insert :> 4) @@ (query :> 0)

(* The menu above lists these pages as MenuPart says. *)
ASSUME MenuAssumption == MenuListsPages
=============================================================================
