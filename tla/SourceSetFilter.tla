---------------------------- MODULE SourceSetFilter ----------------------------
(***************************************************************************)
(* The source set filter of the documentation site                         *)
(* (docs/scripts/platform-content-handler.js): buttons that hide the       *)
(* documentation of a source set, in every page of the site that is open.  *)
(* Each page keeps its own filteringContext; all share one entry of the    *)
(* browser's localStorage, 'inactive-filters', which a page reads when it  *)
(* is loaded and rewrites at each click.                                   *)
(*                                                                         *)
(* Arrays of source sets are kept as bags: the code asks whether a source  *)
(* set occurs in one, appends, and removes all occurrences.                *)
(***************************************************************************)
EXTENDS Naturals, Sequences, FiniteSets

CONSTANTS
  Pages,         \* pages of the site open in the browser, or to be opened
  SourceSets,    \* the keys of sourceset_dependencies
  Buttons,       \* source sets with a button in a page's #filter-section
  Dependencies,  \* sourceset_dependencies: the source sets each one builds on
  Rows,          \* rows of bookmarks ("platform tabs") of a page
  Bookmarks,     \* a row's bookmarks: the source sets each one shows
  NoCache        \* localStorage has no such item

ASSUME FilterAssumption ==
  /\ IsFiniteSet(Pages)
  /\ Buttons \subseteq SourceSets
  /\ Dependencies \in [SourceSets -> SUBSET SourceSets]
  /\ \A s \in SourceSets : s \notin Dependencies[s]
  /\ Bookmarks \in [Rows -> Seq(SUBSET SourceSets) \ {<<>>}]
  /\ NoCache \notin [SourceSets -> Nat]

VARIABLES
  cache,       \* localStorage 'inactive-filters'
  loaded,      \* the pages whose load event has been handled
  restricted,  \* filteringContext.restrictedDependencies
  active,      \* filteringContext.activeFilters
  shared,      \* are these two the same array?
  current,     \* the source sets data-filterable-current was last computed for
  pressed,     \* filter buttons with data-active
  tab, body,   \* bookmarks and bodies of each row with data-active
  notices,     \* elements "All documentation is filtered..." in the page
  hidden,      \* is the content hidden (and the last notice kept in a variable)?
  foreign      \* history: choices made in other pages since this page's own

context == <<restricted, active, shared>>
display == <<current, pressed, tab, body, notices, hidden>>
vars == <<cache, loaded, context, display, foreign>>

EmptyArray     == [s \in SourceSets |-> 0]
ArrayOf(S)     == [s \in SourceSets |-> IF s \in S THEN 1 ELSE 0]
Elements(bag)  == {s \in SourceSets : bag[s] > 0}
Concat(bag, S) == [s \in SourceSets |-> bag[s] + ArrayOf(S)[s]]
Without(bag, S) == [s \in SourceSets |-> IF s \in S THEN 0 ELSE bag[s]]

(* What a page loaded now would leave out. *)
Stored == IF cache = NoCache THEN {} ELSE Elements(cache)

(* initializeFiltering drops the dependencies that have no button. *)
DependenciesOf(s) == Dependencies[s] \cap Buttons

Init ==
  /\ cache = NoCache
  /\ loaded = {}
  /\ restricted = [p \in Pages |-> EmptyArray]
  /\ active = [p \in Pages |-> EmptyArray]
  /\ shared = [p \in Pages |-> FALSE]
  /\ current = [p \in Pages |-> {}]
  /\ pressed = [p \in Pages |-> {}]
  /\ tab = [p \in Pages |-> [r \in Rows |-> {1}]]
  /\ body = [p \in Pages |-> [r \in Rows |-> {1}]]
  /\ notices = [p \in Pages |-> 0]
  /\ hidden = [p \in Pages |-> FALSE]
  /\ foreign = [p \in Pages |-> {}]

-----------------------------------------------------------------------------
(* Refreshing a page after its filters changed *)

(* The bookmarks of a row that show something for these source sets. *)
Available(r, list) == {i \in DOMAIN Bookmarks[r] : Bookmarks[r][i] \cap list # {}}

FirstOf(S) == CHOOSE i \in S : \A j \in S : i <= j

(* Faulty variants: definitions named Faulty... are plausible mistakes in  *)
(* the definition that follows them, and are never part of Next.           *)
FaultyRefreshPlatformTabs(list, rowTab, rowBody) ==
  LET stays(r) == rowTab[r] # {} \/ Available(r, list) = {}
      first(r) == {FirstOf(Available(r, list))}
  IN <<[r \in Rows |-> IF stays(r) THEN rowTab[r] ELSE first(r)],
       [r \in Rows |-> IF stays(r) THEN rowBody[r] ELSE first(r)]>>

(* refreshPlatformTabs: a row whose active bookmark shows nothing any more *)
(* gets a click on its first bookmark that does (togglePlatformDependent); *)
(* a row without any is left as it is.                                     *)
RefreshPlatformTabs(list, rowTab, rowBody) ==
  LET stays(r) == Available(r, list) \cap rowTab[r] # {} \/ Available(r, list) = {}
      first(r) == {FirstOf(Available(r, list))}
  IN <<[r \in Rows |-> IF stays(r) THEN rowTab[r] ELSE first(r)],
       [r \in Rows |-> IF stays(r) THEN rowBody[r] ELSE first(r)]>>

FaultyRemoveNoticeUnchecked(p, list, count, wasHidden) ==
  /\ notices' = [notices EXCEPT ![p] = IF list = {} THEN count + 1 ELSE count - 1]
  /\ hidden' = [hidden EXCEPT ![p] = list = {}]

(* refreshNoContentNotification: one more notice when nothing is left; the *)
(* notice last made is removed when something is.                          *)
RefreshNoContentNotification(p, list, count, wasHidden) ==
  /\ notices' = [notices EXCEPT ![p] = IF list = {} THEN count + 1
                                       ELSE IF wasHidden THEN count - 1 ELSE count]
  /\ hidden' = [hidden EXCEPT ![p] = list = {}]

(* refreshFiltering: attributes, buttons, tabs, notice, all from the list  *)
(* of active filters.  The page's rows and notices are those given.        *)
RefreshFiltering(p, list, rowTab, rowBody, count, wasHidden) ==
  LET tabs == RefreshPlatformTabs(list, rowTab, rowBody)
  IN /\ current' = [current EXCEPT ![p] = list]
     /\ pressed' = [pressed EXCEPT ![p] = list \cap Buttons]
     /\ tab' = [tab EXCEPT ![p] = tabs[1]]
     /\ body' = [body EXCEPT ![p] = tabs[2]]
     /\ RefreshNoContentNotification(p, list, count, wasHidden)

RefreshPage(p) ==
  RefreshFiltering(p, Elements(active'[p]), tab[p], body[p], notices[p], hidden[p])

(* History: a choice about S made in page p. *)
Choose(p, S) ==
  foreign' = [q \in Pages |-> IF q = p THEN foreign[q] \ S
                              ELSE IF q \in loaded THEN foreign[q] \cup S
                              ELSE foreign[q]]

-----------------------------------------------------------------------------
(* The page's load event: the markup has the first bookmark of each row    *)
(* active; initializeFiltering takes the buttons' source sets without the  *)
(* stored ones, or, if nothing is stored, the very array of the buttons.   *)
Load(p) ==
  /\ loaded' = loaded \cup {p}
  /\ restricted' = [restricted EXCEPT ![p] = ArrayOf(Buttons)]
  /\ active' = [active EXCEPT ![p] = ArrayOf(Buttons \ Stored)]
  /\ shared' = [shared EXCEPT ![p] = cache = NoCache]
  /\ LET markup == [r \in Rows |-> {1}]
     IN RefreshFiltering(p, Elements(active'[p]), markup, markup, 0, FALSE)
  /\ foreign' = [foreign EXCEPT ![p] = {}]
  /\ UNCHANGED cache

(* The page is closed; it may be loaded again. *)
Close(p) ==
  /\ p \in loaded
  /\ loaded' = loaded \ {p}
  /\ UNCHANGED <<cache, context, display, foreign>>

FaultyFilterSourceset(p, s) ==
  /\ s \in Elements(active[p])
  /\ active' = [active EXCEPT ![p] = Without(active[p], {s})]
  /\ restricted' = IF shared[p] THEN [restricted EXCEPT ![p] = Without(@, {s})]
                                ELSE restricted
  /\ cache' = Concat(IF cache = NoCache THEN EmptyArray ELSE cache, {s})
  /\ RefreshPage(p)
  /\ Choose(p, {s})
  /\ UNCHANGED <<loaded, shared>>

(* A click on the button of an active source set: filterSourceset, which   *)
(* makes a new array, refreshes, and appends to the stored one.            *)
FilterSourceset(p, s) ==
  /\ s \in Elements(active[p])
  /\ active' = [active EXCEPT ![p] = Without(active[p], {s})]
  /\ shared' = [shared EXCEPT ![p] = FALSE]
  /\ cache' = Concat(IF cache = NoCache THEN EmptyArray ELSE cache, {s})
  /\ RefreshPage(p)
  /\ Choose(p, {s})
  /\ UNCHANGED <<loaded, restricted>>

FaultyRemoveFromCache(S) ==
  cache' = IF cache = NoCache THEN NoCache
           ELSE [s \in SourceSets |-> IF s \in S /\ cache[s] > 0 THEN cache[s] - 1
                                                                 ELSE cache[s]]

(* removeSourcesetFilterFromCache, for each of S. *)
RemoveFromCache(S) ==
  cache' = IF cache = NoCache THEN NoCache ELSE Without(cache, S)

(* A click on the button of an inactive one while others are active: it is *)
(* pushed, onto the shared array if the two are still one.                 *)
UnfilterSourceset(p, s) ==
  /\ s \notin Elements(active[p])
  /\ active[p] # EmptyArray
  /\ active' = [active EXCEPT ![p] = Concat(@, {s})]
  /\ restricted' = IF shared[p] THEN [restricted EXCEPT ![p] = Concat(@, {s})]
                                ELSE restricted
  /\ RemoveFromCache({s})
  /\ RefreshPage(p)
  /\ Choose(p, {s})
  /\ UNCHANGED <<loaded, shared>>

(* The same when nothing is active: the source set comes back with the     *)
(* ones it depends on, and so do they in the store.                        *)
UnfilterFirst(p, s) ==
  /\ s \notin Elements(active[p])
  /\ active[p] = EmptyArray
  /\ active' = [active EXCEPT ![p] = ArrayOf(DependenciesOf(s) \cup {s})]
  /\ shared' = [shared EXCEPT ![p] = FALSE]
  /\ RemoveFromCache(DependenciesOf(s) \cup {s})
  /\ RefreshPage(p)
  /\ Choose(p, DependenciesOf(s) \cup {s})
  /\ UNCHANGED <<loaded, restricted>>

(* filterButtonHandler. *)
ClickFilter(p, s) ==
  /\ p \in loaded
  /\ FilterSourceset(p, s) \/ UnfilterSourceset(p, s) \/ UnfilterFirst(p, s)

(* togglePlatformDependent, for a bookmark the page shows. *)
TogglePlatformDependent(p, r, i) ==
  /\ p \in loaded
  /\ i \in Available(r, current[p])
  /\ tab' = [tab EXCEPT ![p][r] = {i}]
  /\ body' = [body EXCEPT ![p][r] = {i}]
  /\ UNCHANGED <<cache, loaded, context, current, pressed, notices, hidden, foreign>>

Next ==
  \E p \in Pages :
    \/ Load(p)
    \/ Close(p)
    \/ \E s \in Buttons : ClickFilter(p, s)
    \/ \E r \in Rows : \E i \in DOMAIN Bookmarks[r] : TogglePlatformDependent(p, r, i)

Spec == Init /\ [][Next]_vars

-----------------------------------------------------------------------------
TypeOK ==
  /\ cache \in [SourceSets -> Nat] \cup {NoCache}
  /\ loaded \subseteq Pages
  /\ restricted \in [Pages -> [SourceSets -> Nat]]
  /\ active \in [Pages -> [SourceSets -> Nat]]
  /\ shared \in [Pages -> BOOLEAN]
  /\ current \in [Pages -> SUBSET SourceSets]
  /\ pressed \in [Pages -> SUBSET Buttons]
  /\ \A p \in Pages, r \in Rows :
       tab[p][r] \subseteq DOMAIN Bookmarks[r] /\ body[p][r] \subseteq DOMAIN Bookmarks[r]
  /\ notices \in [Pages -> Nat]
  /\ hidden \in [Pages -> BOOLEAN]
  /\ foreign \in [Pages -> SUBSET SourceSets]

(* The page and the store are written one after the other, and other pages *)
(* write the same store: what a page shows of a source set is what is      *)
(* stored, and so what a reload would show, unless another page has made a *)
(* choice about that source set since.                                     *)
ShownAsStored ==
  \A p \in loaded : \A s \in Buttons \ foreign[p] :
    s \in Elements(active[p]) <=> s \notin Stored

(* addSourcesetFilterToCache appends without looking: a source set can be  *)
(* stored more than once, but only by pages that were open before it was   *)
(* stored, each of them once: the entry does not grow with use.            *)
StoredOncePerPage ==
  cache # NoCache =>
    \A s \in SourceSets :
      cache[s] + Cardinality({p \in loaded : s \in Elements(active[p])})
        <= Cardinality(Pages)

(* The array of active filters may be the array of the buttons itself; no  *)
(* sequence of clicks changes the latter, or makes a source set active     *)
(* twice.                                                                  *)
ButtonsIntact ==
  \A p \in loaded :
    /\ restricted[p] = ArrayOf(Buttons)
    /\ Elements(active[p]) \subseteq Buttons
    /\ \A s \in SourceSets : active[p][s] <= 1

(* The three arrays behind a page, of which one is stored and two may be   *)
(* one object, keep what they are for, however often they are appended to. *)
ArraysIntact == StoredOncePerPage /\ ButtonsIntact

(* The notice that everything is filtered stands there once exactly while  *)
(* no filter is active, and the buttons show the filters.                  *)
NoticeMatchesFilters(p) ==
  /\ notices[p] = IF active[p] = EmptyArray THEN 1 ELSE 0
  /\ hidden[p] <=> active[p] = EmptyArray
  /\ pressed[p] = Elements(active[p])

(* A row of bookmarks always has one active, with its own body, and it is  *)
(* one that shows something whenever one of them does, whatever was        *)
(* filtered and clicked before.                                            *)
RowsShowContent(p) ==
  \A r \in Rows :
    LET available == Available(r, Elements(active[p]))
    IN /\ Cardinality(tab[p][r]) = 1
       /\ body[p][r] = tab[p][r]
       /\ available # {} => tab[p][r] \subseteq available

(* Every part of a page agrees with its filters.                           *)
PageMatchesFilters ==
  \A p \in loaded : NoticeMatchesFilters(p) /\ RowsShowContent(p)

=============================================================================
