------------------------- MODULE SourceSetFilterProofs -------------------------
(***************************************************************************)
(* Theorems about SourceSetFilter, for any source sets, dependencies, rows *)
(* of bookmarks and number of pages open at the same time: the types, that *)
(* the arrays stay what they are for, that every part of a page agrees     *)
(* with its filters, and that a page shows what is stored.                 *)
(***************************************************************************)
EXTENDS SourceSetFilter, FiniteSetTheorems, WellFoundedInduction, TLAPS

Array == [SourceSets -> Nat]

(* The bookmark t and the body b active in a row go together, and show     *)
(* something of these source sets if a bookmark of the row does.           *)
Fits(r, list, t, b) ==
  \E i \in DOMAIN Bookmarks[r] :
    /\ t = {i} /\ b = {i}
    /\ Available(r, list) # {} => i \in Available(r, list)

(* As ButtonsIntact, by page.  An array which is still that of the buttons *)
(* is a full one.                                                          *)
ArraysFit(p) ==
  /\ restricted[p] = ArrayOf(Buttons)
  /\ Elements(active[p]) \subseteq Buttons
  /\ \A s \in SourceSets : active[p][s] <= 1
  /\ shared[p] => active[p] = restricted[p]

(* The page was refreshed for the filters it has. *)
DisplayFits(p) ==
  /\ current[p] = Elements(active[p])
  /\ NoticeMatchesFilters(p)
  /\ \A r \in Rows : Fits(r, Elements(active[p]), tab[p][r], body[p][r])

RowsTyped ==
  /\ tab \in [Pages -> [Rows -> SUBSET Nat]]
  /\ body \in [Pages -> [Rows -> SUBSET Nat]]

PageInv == \A p \in loaded : ArraysFit(p) /\ DisplayFits(p)

FilterInv == TypeOK /\ RowsTyped /\ PageInv

-----------------------------------------------------------------------------
(* Arrays *)

(* What the array operations return are arrays. *)
LEMMA ArrayTypes ==
  /\ EmptyArray \in Array
  /\ \A S : ArrayOf(S) \in Array
  /\ \A bag \in Array : \A S : Concat(bag, S) \in Array /\ Without(bag, S) \in Array
BY DEF Array, EmptyArray, ArrayOf, Concat, Without

(* What occurs in the arrays the code makes. *)
LEMMA ArrayElements ==
  /\ \A S \in SUBSET SourceSets : Elements(ArrayOf(S)) = S
  /\ \A bag \in Array : \A S : Elements(Without(bag, S)) = Elements(bag) \ S
  /\ \A bag \in Array, S \in SUBSET SourceSets :
       Elements(Concat(bag, S)) = Elements(bag) \cup S
<1>1. \A S \in SUBSET SourceSets : Elements(ArrayOf(S)) = S
  BY DEF Elements, ArrayOf
<1>2. \A bag \in Array : \A S : Elements(Without(bag, S)) = Elements(bag) \ S
  BY DEF Elements, Without, Array
<1>3. \A bag \in Array, S \in SUBSET SourceSets :
        Elements(Concat(bag, S)) = Elements(bag) \cup S
  <2> SUFFICES ASSUME NEW bag \in Array, NEW S \in SUBSET SourceSets,
                      NEW s \in SourceSets
               PROVE  bag[s] + ArrayOf(S)[s] > 0 <=> bag[s] > 0 \/ s \in S
    BY DEF Elements, Concat
  <2>1. bag[s] \in Nat
    BY DEF Array
  <2>2. ArrayOf(S)[s] = IF s \in S THEN 1 ELSE 0
    BY DEF ArrayOf
  <2> QED
    BY <2>1, <2>2
<1> QED
  BY <1>1, <1>2, <1>3

(* An array without elements is the empty one. *)
LEMMA EmptyHasNone ==
  ASSUME NEW bag \in Array
  PROVE  bag = EmptyArray <=> Elements(bag) = {}
<1>1. \A s \in SourceSets : bag[s] \in Nat
  BY DEF Array
<1>2. ASSUME Elements(bag) = {} PROVE bag = EmptyArray
  <2>1. \A s \in SourceSets : bag[s] = 0
    BY <1>1, <1>2 DEF Elements
  <2> QED
    BY <2>1 DEF EmptyArray, Array
<1>3. Elements(EmptyArray) = {}
  BY DEF Elements, EmptyArray
<1> QED
  BY <1>2, <1>3

(* What is stored are source sets. *)
LEMMA StoredType ==
  ASSUME cache \in Array \cup {NoCache}
  PROVE  Stored \subseteq SourceSets
BY DEF Stored, Elements

(* FirstOf chooses something: sets of indices have a least element. *)
LEMMA FirstIsIn ==
  ASSUME NEW S \in SUBSET Nat, S # {}
  PROVE  FirstOf(S) \in S
<1> DEFINE R == {ss \in Nat \X Nat : ss[1] < ss[2]}
<1>1. IsWellFoundedOn(R, Nat)
  <2>1. R = OpToRel(<, Nat)
    BY Zenon DEF OpToRel
  <2> QED
    BY ONLY <2>1, NatLessThanWellFounded, Zenon
<1>2. PICK x \in S : \A y \in S : ~ (<<y, x>> \in R)
  <2> HIDE DEF R
  <2> QED
    BY <1>1, WFMin
<1>3. \A y \in S : x <= y
  <2>1. \A y \in S : y < x => <<y, x>> \in R
    OBVIOUS
  <2>2. \A y \in S : ~(y < x)
    BY <1>2, <2>1, Zenon
  <2>3. x \in Nat /\ \A y \in S : y \in Nat
    OBVIOUS
  <2> QED
    BY ONLY <2>2, <2>3
<1> QED
  BY <1>3 DEF FirstOf

-----------------------------------------------------------------------------
(* Refreshing *)

(* The first bookmark is one of the row's. *)
LEMMA BookmarkIndexes ==
  ASSUME NEW r \in Rows
  PROVE  /\ DOMAIN Bookmarks[r] \subseteq Nat
         /\ 1 \in DOMAIN Bookmarks[r]
<1>1. Bookmarks[r] \in Seq(SUBSET SourceSets) /\ Bookmarks[r] # <<>>
  BY FilterAssumption
<1>2. DOMAIN Bookmarks[r] = 1..Len(Bookmarks[r]) /\ Len(Bookmarks[r]) \in Nat
  BY <1>1
<1>3. Len(Bookmarks[r]) # 0
  BY <1>1
<1> QED
  BY <1>2, <1>3

(* Bookmarks and bodies that went together do so after the refresh, and    *)
(* then show something if they can.                                        *)
LEMMA TabsFit ==
  ASSUME NEW list,
         NEW rowTab \in [Rows -> SUBSET Nat], NEW rowBody \in [Rows -> SUBSET Nat],
         \A r \in Rows : \E i \in DOMAIN Bookmarks[r] : rowTab[r] = {i} /\ rowBody[r] = {i},
         NEW tabs, tabs = RefreshPlatformTabs(list, rowTab, rowBody)
  PROVE  /\ tabs[1] \in [Rows -> SUBSET Nat] /\ tabs[2] \in [Rows -> SUBSET Nat]
         /\ \A r \in Rows : Fits(r, list, tabs[1][r], tabs[2][r])
<1> DEFINE stays(r) == Available(r, list) \cap rowTab[r] # {} \/ Available(r, list) = {}
           first(r) == {FirstOf(Available(r, list))}
           newTab  == [r \in Rows |-> IF stays(r) THEN rowTab[r] ELSE first(r)]
           newBody == [r \in Rows |-> IF stays(r) THEN rowBody[r] ELSE first(r)]
<1>1. tabs = <<newTab, newBody>>
  BY DEF RefreshPlatformTabs
<1>2. tabs[1] = newTab /\ tabs[2] = newBody
  BY <1>1
<1>3. ASSUME NEW r \in Rows
      PROVE  /\ newTab[r] \in SUBSET Nat /\ newBody[r] \in SUBSET Nat
             /\ Fits(r, list, newTab[r], newBody[r])
  <2>1. Available(r, list) \subseteq DOMAIN Bookmarks[r] /\ DOMAIN Bookmarks[r] \subseteq Nat
    BY BookmarkIndexes DEF Available
  <2>2. CASE stays(r)
    <3>1. newTab[r] = rowTab[r] /\ newBody[r] = rowBody[r]
      BY <2>2
    <3>2. PICK i \in DOMAIN Bookmarks[r] : rowTab[r] = {i} /\ rowBody[r] = {i}
      OBVIOUS
    <3>3. Available(r, list) # {} => i \in Available(r, list)
      BY <2>2, <3>2
    <3> HIDE DEF newTab, newBody
    <3> QED
      BY <2>1, <3>1, <3>2, <3>3 DEF Fits
  <2>3. CASE ~stays(r)
    <3>1. newTab[r] = first(r) /\ newBody[r] = first(r)
      BY <2>3
    <3>2. FirstOf(Available(r, list)) \in Available(r, list)
      BY <2>1, <2>3, FirstIsIn
    <3> HIDE DEF newTab, newBody
    <3> QED
      BY <2>1, <3>1, <3>2 DEF Fits
  <2> QED
    BY <2>2, <2>3
<1> QED
  <2>1. newTab \in [Rows -> SUBSET Nat] /\ newBody \in [Rows -> SUBSET Nat]
    BY <1>3
  <2> HIDE DEF newTab, newBody
  <2> QED
    BY <1>2, <1>3, <2>1

(* The rows to refresh have one bookmark active each, with its body. *)
Paired(rowTab, rowBody) ==
  /\ rowTab \in [Rows -> SUBSET Nat] /\ rowBody \in [Rows -> SUBSET Nat]
  /\ \A r \in Rows : \E i \in DOMAIN Bookmarks[r] : rowTab[r] = {i} /\ rowBody[r] = {i}

(* The notices to refresh are right, and there is none if there will be one. *)
Counted(list, count, wasHidden) ==
  /\ wasHidden \in BOOLEAN
  /\ count = IF wasHidden THEN 1 ELSE 0
  /\ list = {} => ~wasHidden

(* What refreshFiltering leaves. *)
Refreshed(p, list) ==
  /\ current' \in [Pages -> SUBSET SourceSets]
  /\ pressed' \in [Pages -> SUBSET Buttons]
  /\ notices' \in [Pages -> Nat] /\ hidden' \in [Pages -> BOOLEAN]
  /\ RowsTyped'
  /\ current'[p] = list /\ pressed'[p] = list
  /\ notices'[p] = IF list = {} THEN 1 ELSE 0
  /\ hidden'[p] <=> list = {}
  /\ \A r \in Rows : Fits(r, list, tab'[p][r], body'[p][r])
  /\ \A q \in Pages \ {p} :
       /\ current'[q] = current[q] /\ pressed'[q] = pressed[q]
       /\ tab'[q] = tab[q] /\ body'[q] = body[q]
       /\ notices'[q] = notices[q] /\ hidden'[q] = hidden[q]

(* refreshFiltering leaves a page which fits its filters, if the notices   *)
(* were right before and the content was not hidden already; it touches no *)
(* other page.                                                             *)
LEMMA RefreshFits ==
  ASSUME TypeOK, RowsTyped, NEW p \in Pages, NEW list \in SUBSET Buttons,
         NEW rowTab, NEW rowBody, Paired(rowTab, rowBody),
         NEW count, NEW wasHidden, Counted(list, count, wasHidden),
         RefreshFiltering(p, list, rowTab, rowBody, count, wasHidden)
  PROVE  Refreshed(p, list)
<1>0. /\ rowTab \in [Rows -> SUBSET Nat] /\ rowBody \in [Rows -> SUBSET Nat]
      /\ \A r \in Rows : \E i \in DOMAIN Bookmarks[r] : rowTab[r] = {i} /\ rowBody[r] = {i}
      /\ wasHidden \in BOOLEAN
      /\ count = IF wasHidden THEN 1 ELSE 0
      /\ list = {} => ~wasHidden
  BY DEF Paired, Counted
<1>1. PICK tabs : tabs = RefreshPlatformTabs(list, rowTab, rowBody)
  OBVIOUS
<1>2. /\ current' = [current EXCEPT ![p] = list]
      /\ pressed' = [pressed EXCEPT ![p] = list \cap Buttons]
      /\ tab' = [tab EXCEPT ![p] = tabs[1]]
      /\ body' = [body EXCEPT ![p] = tabs[2]]
      /\ RefreshNoContentNotification(p, list, count, wasHidden)
  BY <1>1 DEF RefreshFiltering
<1>3. /\ tabs[1] \in [Rows -> SUBSET Nat] /\ tabs[2] \in [Rows -> SUBSET Nat]
      /\ \A r \in Rows : Fits(r, list, tabs[1][r], tabs[2][r])
  BY <1>0, <1>1, TabsFit
<1>4. /\ RowsTyped'
      /\ tab'[p] = tabs[1] /\ body'[p] = tabs[2]
      /\ \A q \in Pages \ {p} : tab'[q] = tab[q] /\ body'[q] = body[q]
  BY <1>2, <1>3 DEF RowsTyped
<1>5. /\ current' \in [Pages -> SUBSET SourceSets]
      /\ pressed' \in [Pages -> SUBSET Buttons]
      /\ current'[p] = list /\ pressed'[p] = list
      /\ \A q \in Pages \ {p} : current'[q] = current[q] /\ pressed'[q] = pressed[q]
  BY <1>2, FilterAssumption DEF TypeOK
<1>6. PICK n : n = IF list = {} THEN count + 1
                   ELSE IF wasHidden THEN count - 1 ELSE count
  OBVIOUS
<1>7. n = IF list = {} THEN 1 ELSE 0
  BY <1>0, <1>6
<1>8. /\ notices' = [notices EXCEPT ![p] = n]
      /\ hidden' = [hidden EXCEPT ![p] = list = {}]
  BY <1>2, <1>6 DEF RefreshNoContentNotification
<1>9. /\ notices' \in [Pages -> Nat] /\ hidden' \in [Pages -> BOOLEAN]
      /\ notices'[p] = n /\ (hidden'[p] <=> list = {})
      /\ \A q \in Pages \ {p} : notices'[q] = notices[q] /\ hidden'[q] = hidden[q]
  BY <1>7, <1>8 DEF TypeOK
<1>10. \A r \in Rows : Fits(r, list, tab'[p][r], body'[p][r])
  BY <1>3, <1>4
<1> QED
  BY <1>4, <1>5, <1>7, <1>9, <1>10 DEF Refreshed

-----------------------------------------------------------------------------
(* Steps *)

(* Rows that fit are of the type that TypeOK asks for. *)
LEMMA RowsInBookmarks ==
  ASSUME NEW r, NEW list, NEW t, NEW b, Fits(r, list, t, b)
  PROVE  t \subseteq DOMAIN Bookmarks[r] /\ b \subseteq DOMAIN Bookmarks[r]
BY DEF Fits

(* A page whose arrays and display are left alone fits as before. *)
LEMMA PageKept ==
  ASSUME NEW q, ArraysFit(q), DisplayFits(q),
         restricted'[q] = restricted[q], active'[q] = active[q], shared'[q] = shared[q],
         current'[q] = current[q], pressed'[q] = pressed[q],
         tab'[q] = tab[q], body'[q] = body[q],
         notices'[q] = notices[q], hidden'[q] = hidden[q]
  PROVE  ArraysFit(q)' /\ DisplayFits(q)'
BY DEF ArraysFit, DisplayFits, NoticeMatchesFilters

(* Page p gets another array of active filters and is refreshed; the rest  *)
(* of its context, and the other pages, stay.                              *)
LEMMA PageRefreshed ==
  ASSUME FilterInv, NEW p \in Pages, loaded' \subseteq loaded \cup {p},
         NEW bag \in Array, active' = [active EXCEPT ![p] = bag],
         Elements(bag) \subseteq Buttons, \A s \in SourceSets : bag[s] <= 1,
         restricted' = [restricted EXCEPT ![p] = ArrayOf(Buttons)],
         NEW same \in BOOLEAN, shared' = [shared EXCEPT ![p] = same],
         same => bag = ArrayOf(Buttons),
         Refreshed(p, Elements(bag)),
         cache' \in Array \cup {NoCache}, foreign' \in [Pages -> SUBSET SourceSets]
  PROVE  FilterInv'
<1>1. TypeOK /\ RowsTyped /\ PageInv
  BY DEF FilterInv
<1>2. PICK list \in SUBSET Buttons : list = Elements(bag)
  OBVIOUS
<1>3. Refreshed(p, list)
  BY <1>2
<1>4. /\ active' \in [Pages -> Array] /\ restricted' \in [Pages -> Array]
      /\ shared' \in [Pages -> BOOLEAN]
      /\ active'[p] = bag /\ restricted'[p] = ArrayOf(Buttons) /\ shared'[p] = same
      /\ \A q \in Pages \ {p} : /\ active'[q] = active[q] /\ restricted'[q] = restricted[q]
                                /\ shared'[q] = shared[q]
  BY <1>1, ArrayTypes DEF TypeOK, Array
<1>5. \A q \in Pages, r \in Rows :
        tab'[q][r] \subseteq DOMAIN Bookmarks[r] /\ body'[q][r] \subseteq DOMAIN Bookmarks[r]
  <2>1. \A r \in Rows :
          tab'[p][r] \subseteq DOMAIN Bookmarks[r] /\ body'[p][r] \subseteq DOMAIN Bookmarks[r]
    BY <1>3, RowsInBookmarks DEF Refreshed
  <2>2. \A q \in Pages \ {p}, r \in Rows :
          tab'[q][r] \subseteq DOMAIN Bookmarks[r] /\ body'[q][r] \subseteq DOMAIN Bookmarks[r]
    BY <1>1, <1>3 DEF Refreshed, TypeOK
  <2> QED
    BY <2>1, <2>2
<1>6. TypeOK'
  <2>1. loaded' \subseteq Pages
    BY <1>1 DEF TypeOK
  <2> QED
    BY <1>3, <1>4, <1>5, <2>1 DEF TypeOK, Array, Refreshed
<1>7. ArraysFit(p)' /\ DisplayFits(p)'
  <2>1. Elements(active'[p]) = list
    BY <1>2, <1>4
  <2>2. active'[p] = EmptyArray <=> list = {}
    BY <1>2, <1>4, EmptyHasNone
  <2>3. ArraysFit(p)'
    BY <1>2, <1>4, <2>1 DEF ArraysFit
  <2>4. NoticeMatchesFilters(p)'
    BY <1>3, <2>1, <2>2 DEF NoticeMatchesFilters, Refreshed
  <2>5. \A r \in Rows : Fits(r, Elements(active'[p]), tab'[p][r], body'[p][r])
    BY <1>3, <2>1 DEF Refreshed
  <2> QED
    BY <1>3, <2>1, <2>3, <2>4, <2>5 DEF DisplayFits, Refreshed
<1>8. ASSUME NEW q \in loaded', q # p PROVE ArraysFit(q)' /\ DisplayFits(q)'
  <2>1. q \in loaded /\ q \in Pages \ {p}
    BY <1>1, <1>8 DEF TypeOK
  <2>2. ArraysFit(q) /\ DisplayFits(q)
    BY <1>1, <2>1 DEF PageInv
  <2> QED
    BY <1>3, <1>4, <2>1, <2>2, PageKept DEF Refreshed
<1> QED
  BY <1>3, <1>6, <1>7, <1>8 DEF FilterInv, PageInv, Refreshed

(* In a page that fits, the rows and the notices are ready for a refresh.  *)
LEMMA PageReady ==
  ASSUME FilterInv, NEW p \in loaded,
         NEW list, list = {} => active[p] # EmptyArray
  PROVE  /\ p \in Pages
         /\ Paired(tab[p], body[p]) /\ Counted(list, notices[p], hidden[p])
<1>1. TypeOK /\ RowsTyped /\ DisplayFits(p)
  BY DEF FilterInv, PageInv
<1>2. p \in Pages
  BY <1>1 DEF TypeOK
<1>3. Paired(tab[p], body[p])
  BY <1>1, <1>2 DEF Paired, RowsTyped, DisplayFits, Fits
<1>4. Counted(list, notices[p], hidden[p])
  BY <1>1, <1>2 DEF Counted, TypeOK, DisplayFits, NoticeMatchesFilters
<1> QED
  BY <1>2, <1>3, <1>4

(* What other pages have chosen are source sets. *)
LEMMA ForeignType ==
  ASSUME TypeOK, NEW p, NEW S \in SUBSET SourceSets, Choose(p, S)
  PROVE  foreign' \in [Pages -> SUBSET SourceSets]
BY DEF TypeOK, Choose

(* A page that is loaded agrees with itself, whatever was stored           *)
(* (initializeFiltering).                                                  *)
LEMMA LoadFits ==
  ASSUME FilterInv, NEW p \in Pages, Load(p)
  PROVE  FilterInv'
<1>1. TypeOK /\ RowsTyped
  BY DEF FilterInv
<1> DEFINE bag == ArrayOf(Buttons \ Stored)
           markup == [r \in Rows |-> {1}]
<1>2. PICK list \in SUBSET Buttons : list = Buttons \ Stored
  OBVIOUS
<1>3. bag \in Array /\ Elements(bag) = list /\ \A s \in SourceSets : bag[s] <= 1
  <2>1. \A s \in SourceSets : bag[s] = 0 \/ bag[s] = 1
    BY DEF ArrayOf
  <2>2. \A s \in SourceSets : bag[s] <= 1
    BY <2>1
  <2>3. list \in SUBSET SourceSets /\ bag = ArrayOf(list)
    BY <1>2, FilterAssumption
  <2>4. bag \in Array /\ Elements(bag) = list
    BY <2>3, ArrayTypes, ArrayElements
  <2> QED
    BY <2>2, <2>4
<1>4. active' = [active EXCEPT ![p] = bag] /\ active'[p] = bag
  BY <1>1 DEF Load, TypeOK
<1>5. RefreshFiltering(p, list, markup, markup, 0, FALSE)
  BY <1>3, <1>4 DEF Load
<1>6. Paired(markup, markup)
  BY BookmarkIndexes DEF Paired
<1>7. Counted(list, 0, FALSE)
  BY DEF Counted
<1>8. Refreshed(p, list)
  <2> HIDE DEF markup
  <2> QED
    BY <1>1, <1>5, <1>6, <1>7, RefreshFits
<1>9. PICK same \in BOOLEAN : same = (cache = NoCache)
  OBVIOUS
<1>10. same => bag = ArrayOf(Buttons)
  <2>1. same => Buttons \ Stored = Buttons
    BY <1>9 DEF Stored
  <2> QED
    BY <2>1
<1>11. /\ shared' = [shared EXCEPT ![p] = same]
       /\ restricted' = [restricted EXCEPT ![p] = ArrayOf(Buttons)]
       /\ loaded' \subseteq loaded \cup {p}
  BY <1>9 DEF Load
<1>12. cache' \in Array \cup {NoCache} /\ foreign' \in [Pages -> SUBSET SourceSets]
  BY <1>1 DEF Load, TypeOK, Array
<1> HIDE DEF bag
<1> QED
  BY <1>3, <1>4, <1>8, <1>10, <1>11, <1>12, PageRefreshed

(* A click never makes the array of the buttons itself grow: as long as a  *)
(* page has that array, all buttons are active.                            *)
LEMMA SharedIsFull ==
  ASSUME FilterInv, NEW p \in loaded, NEW s \in Buttons, s \notin Elements(active[p])
  PROVE  ~shared[p]
<1>1. ArraysFit(p)
  BY DEF FilterInv, PageInv
<1>2. s \in Elements(ArrayOf(Buttons))
  BY ArrayElements, FilterAssumption
<1> QED
  BY <1>1, <1>2 DEF ArraysFit

(* ... and after a click on a button, each of the three kinds, and its     *)
(* refresh.                                                                *)
LEMMA ClickFits ==
  ASSUME FilterInv, NEW p \in Pages, NEW s \in Buttons, ClickFilter(p, s)
  PROVE  FilterInv'
<1>1. TypeOK /\ p \in loaded /\ ArraysFit(p)
  BY DEF FilterInv, PageInv, ClickFilter
<1>2. /\ active \in [Pages -> Array] /\ active[p] \in Array
      /\ cache \in Array \cup {NoCache} /\ s \in SourceSets
  BY <1>1, FilterAssumption DEF TypeOK, Array
<1>3. restricted = [restricted EXCEPT ![p] = ArrayOf(Buttons)]
  BY <1>1 DEF TypeOK, ArraysFit
<1>4. ASSUME NEW bag \in Array, active' = [active EXCEPT ![p] = bag],
             Elements(bag) \subseteq Buttons, \A x \in SourceSets : bag[x] <= 1,
             Elements(bag) = {} => active[p] # EmptyArray,
             shared' = [shared EXCEPT ![p] = FALSE],
             restricted' = restricted, loaded' = loaded, RefreshPage(p),
             cache' \in Array \cup {NoCache},
             NEW S \in SUBSET SourceSets, Choose(p, S)
      PROVE  FilterInv'
  <2>1. active'[p] = bag
    BY <1>2, <1>4
  <2>2. PICK list \in SUBSET Buttons : list = Elements(bag)
    BY <1>4
  <2>3. Paired(tab[p], body[p]) /\ Counted(list, notices[p], hidden[p])
    BY <1>1, <1>4, <2>2, PageReady
  <2>4. RefreshFiltering(p, list, tab[p], body[p], notices[p], hidden[p])
    BY <1>4, <2>1, <2>2 DEF RefreshPage
  <2>5. Refreshed(p, list)
    BY <1>1, <2>3, <2>4, RefreshFits DEF FilterInv
  <2>6. foreign' \in [Pages -> SUBSET SourceSets]
    BY <1>1, <1>4, ForeignType
  <2>7. restricted' = [restricted EXCEPT ![p] = ArrayOf(Buttons)]
    BY <1>3, <1>4
  <2>8. loaded' \subseteq loaded \cup {p}
    BY <1>4
  <2>9. PICK same \in BOOLEAN : same = FALSE
    OBVIOUS
  <2> QED
    BY <1>4, <2>2, <2>5, <2>6, <2>7, <2>8, <2>9, PageRefreshed
<1>5. CASE FilterSourceset(p, s)
  <2> DEFINE bag == Without(active[p], {s})
  <2>1. bag \in Array /\ Elements(bag) = Elements(active[p]) \ {s}
    BY <1>2, ArrayTypes, ArrayElements
  <2>2. \A x \in SourceSets : bag[x] <= 1
    BY <1>1, <1>2 DEF Without, ArraysFit
  <2>3. Elements(bag) \subseteq Buttons /\ active[p] # EmptyArray
    BY <1>1, <1>2, <1>5, <2>1, EmptyHasNone DEF ArraysFit, FilterSourceset
  <2>4. cache' \in Array \cup {NoCache}
    BY <1>2, <1>5, ArrayTypes DEF FilterSourceset
  <2>5. /\ active' = [active EXCEPT ![p] = bag]
        /\ shared' = [shared EXCEPT ![p] = FALSE] /\ restricted' = restricted
        /\ loaded' = loaded /\ RefreshPage(p) /\ Choose(p, {s})
    BY <1>5 DEF FilterSourceset
  <2> HIDE DEF bag
  <2> QED
    BY <1>2, <1>4, <2>1, <2>2, <2>3, <2>4, <2>5
<1>6. CASE UnfilterSourceset(p, s)
  <2> DEFINE bag == Concat(active[p], {s})
  <2>1. bag \in Array /\ Elements(bag) = Elements(active[p]) \cup {s}
    BY <1>2, ArrayTypes, ArrayElements
  <2>2. s \notin Elements(active[p]) /\ ~shared[p]
    BY <1>1, <1>6, SharedIsFull DEF UnfilterSourceset
  <2>3. \A x \in SourceSets : bag[x] <= 1
    <3> TAKE x \in SourceSets
    <3>1. active[p][x] \in Nat /\ active[p][x] <= 1
      BY <1>1, <1>2 DEF ArraysFit, Array
    <3>2. x = s => active[p][x] = 0
      BY <1>2, <2>2, <3>1 DEF Elements
    <3>3. bag[x] = active[p][x] + (IF x = s THEN 1 ELSE 0)
      BY DEF Concat, ArrayOf
    <3> HIDE DEF bag
    <3> QED
      BY <3>1, <3>2, <3>3
  <2>4. Elements(bag) \subseteq Buttons /\ Elements(bag) # {}
    BY <1>1, <2>1 DEF ArraysFit
  <2>5. cache' \in Array \cup {NoCache}
    BY <1>2, <1>6, ArrayTypes DEF UnfilterSourceset, RemoveFromCache
  <2>6. shared' = [shared EXCEPT ![p] = FALSE] /\ restricted' = restricted
    BY <1>1, <1>6, <2>2 DEF UnfilterSourceset, TypeOK
  <2>7. /\ active' = [active EXCEPT ![p] = bag]
        /\ loaded' = loaded /\ RefreshPage(p) /\ Choose(p, {s})
    BY <1>6 DEF UnfilterSourceset
  <2> HIDE DEF bag
  <2> QED
    BY <1>2, <1>4, <2>1, <2>3, <2>4, <2>5, <2>6, <2>7
<1>7. CASE UnfilterFirst(p, s)
  <2> DEFINE S == DependenciesOf(s) \cup {s}
             bag == ArrayOf(S)
  <2>1. S \subseteq Buttons /\ S # {} /\ S \in SUBSET SourceSets
    BY FilterAssumption DEF DependenciesOf
  <2>2. bag \in Array /\ Elements(bag) = S
    BY <2>1, ArrayTypes, ArrayElements
  <2>3. \A x \in SourceSets : bag[x] <= 1
    <3>1. \A x \in SourceSets : bag[x] = 0 \/ bag[x] = 1
      BY DEF ArrayOf
    <3> QED
      BY <3>1
  <2>4. cache' \in Array \cup {NoCache}
    BY <1>2, <1>7, ArrayTypes DEF UnfilterFirst, RemoveFromCache
  <2>5. /\ active' = [active EXCEPT ![p] = bag]
        /\ shared' = [shared EXCEPT ![p] = FALSE] /\ restricted' = restricted
        /\ loaded' = loaded /\ RefreshPage(p) /\ Choose(p, S)
    BY <1>7 DEF UnfilterFirst
  <2> HIDE DEF bag, S
  <2> QED
    BY <1>4, <2>1, <2>2, <2>3, <2>4, <2>5
<1> QED
  BY <1>5, <1>6, <1>7 DEF ClickFilter

(* ... and after a click on a bookmark (togglePlatformDependent). *)
LEMMA ToggleFits ==
  ASSUME FilterInv, NEW p \in Pages, NEW r \in Rows, NEW i \in DOMAIN Bookmarks[r],
         TogglePlatformDependent(p, r, i)
  PROVE  FilterInv'
<1>1. TypeOK /\ RowsTyped /\ PageInv /\ p \in loaded
  BY DEF FilterInv, TogglePlatformDependent
<1>2. /\ tab' = [tab EXCEPT ![p][r] = {i}] /\ body' = [body EXCEPT ![p][r] = {i}]
      /\ UNCHANGED <<cache, loaded, context, current, pressed, notices, hidden, foreign>>
      /\ i \in Available(r, current[p])
  BY DEF TogglePlatformDependent
<1>3. {i} \in SUBSET Nat
  BY BookmarkIndexes
<1>4. /\ RowsTyped'
      /\ tab'[p][r] = {i} /\ body'[p][r] = {i}
      /\ \A x \in Rows \ {r} : tab'[p][x] = tab[p][x] /\ body'[p][x] = body[p][x]
      /\ \A q \in Pages \ {p} : tab'[q] = tab[q] /\ body'[q] = body[q]
  BY <1>1, <1>2, <1>3 DEF RowsTyped
<1>5. TypeOK'
  <2>1. \A q \in Pages, x \in Rows :
          tab'[q][x] \subseteq DOMAIN Bookmarks[x] /\ body'[q][x] \subseteq DOMAIN Bookmarks[x]
    <3> TAKE q \in Pages, x \in Rows
    <3>1. tab[q][x] \subseteq DOMAIN Bookmarks[x] /\ body[q][x] \subseteq DOMAIN Bookmarks[x]
      BY <1>1 DEF TypeOK
    <3> QED
      BY <1>4, <3>1
  <2> QED
    BY <1>1, <1>2, <2>1 DEF TypeOK, context
<1>6. ArraysFit(p)' /\ DisplayFits(p)'
  <2>1. ArraysFit(p) /\ DisplayFits(p)
    BY <1>1 DEF PageInv
  <2>2. ArraysFit(p)'
    BY <1>2, <2>1 DEF ArraysFit, context
  <2>3. ASSUME NEW x \in Rows
        PROVE  Fits(x, Elements(active[p]), tab'[p][x], body'[p][x])
    <3>1. CASE x = r
      BY <1>2, <1>4, <2>1, <3>1 DEF DisplayFits, Fits
    <3>2. CASE x # r
      BY <1>4, <2>1, <3>2 DEF DisplayFits
    <3> QED
      BY <3>1, <3>2
  <2>4. NoticeMatchesFilters(p)' /\ (current[p] = Elements(active[p]))'
    BY <1>2, <2>1 DEF NoticeMatchesFilters, DisplayFits, context
  <2>5. active' = active
    BY <1>2 DEF context
  <2> QED
    BY <2>2, <2>3, <2>4, <2>5 DEF DisplayFits
<1>7. ASSUME NEW q \in loaded', q # p PROVE ArraysFit(q)' /\ DisplayFits(q)'
  <2>1. q \in loaded /\ q \in Pages \ {p}
    BY <1>1, <1>2, <1>7 DEF TypeOK
  <2>2. ArraysFit(q) /\ DisplayFits(q)
    BY <1>1, <2>1 DEF PageInv
  <2>3. tab'[q] = tab[q] /\ body'[q] = body[q]
    BY <1>4, <2>1
  <2> QED
    BY <1>2, <2>2, <2>3, PageKept DEF context
<1> QED
  BY <1>4, <1>5, <1>6, <1>7 DEF FilterInv, PageInv

(* Closing a page leaves the others as they are. *)
LEMMA CloseFits ==
  ASSUME FilterInv, NEW p \in Pages, Close(p)
  PROVE  FilterInv'
<1>1. TypeOK /\ RowsTyped /\ PageInv
  BY DEF FilterInv
<1>2. loaded' = loaded \ {p} /\ UNCHANGED <<cache, context, display, foreign>>
  BY DEF Close
<1>3. TypeOK' /\ RowsTyped'
  BY <1>1, <1>2 DEF TypeOK, RowsTyped, context, display
<1>4. ASSUME NEW q \in loaded' PROVE ArraysFit(q)' /\ DisplayFits(q)'
  BY <1>1, <1>2, PageKept DEF PageInv, context, display
<1> QED
  BY <1>3, <1>4 DEF FilterInv, PageInv

(* The arrays, buttons, bookmarks and notice of every page that is loaded  *)
(* keep their types and agree with each other (refreshContent, and         *)
(* whatever the store held when the page was loaded).                      *)
THEOREM FilterInvariant == Spec => []FilterInv
<1>1. ASSUME Init PROVE FilterInv
  <2>1. TypeOK /\ RowsTyped
    BY <1>1, ArrayTypes, BookmarkIndexes DEF Init, TypeOK, RowsTyped, Array
  <2> QED
    BY <1>1, <2>1 DEF FilterInv, PageInv, Init
<1>2. ASSUME FilterInv, [Next]_vars PROVE FilterInv'
  <2>1. CASE Next
    <3>1. ASSUME NEW p \in Pages, Load(p) PROVE FilterInv'
      BY <1>2, <3>1, LoadFits
    <3>2. ASSUME NEW p \in Pages, Close(p) PROVE FilterInv'
      BY <1>2, <3>2, CloseFits
    <3>3. ASSUME NEW p \in Pages, NEW s \in Buttons, ClickFilter(p, s) PROVE FilterInv'
      BY <1>2, <3>3, ClickFits
    <3>4. ASSUME NEW p \in Pages, NEW r \in Rows, NEW i \in DOMAIN Bookmarks[r],
                 TogglePlatformDependent(p, r, i)
          PROVE  FilterInv'
      BY <1>2, <3>4, ToggleFits
    <3> QED
      BY <2>1, <3>1, <3>2, <3>3, <3>4 DEF Next
  <2>2. CASE UNCHANGED vars
    <3>1. TypeOK' /\ RowsTyped'
      BY <1>2, <2>2 DEF FilterInv, TypeOK, RowsTyped, vars, context, display
    <3>2. ASSUME NEW q \in loaded' PROVE ArraysFit(q)' /\ DisplayFits(q)'
      BY <1>2, <2>2, PageKept DEF FilterInv, PageInv, vars, context, display
    <3> QED
      BY <3>1, <3>2 DEF FilterInv, PageInv
  <2> QED
    BY <1>2, <2>1, <2>2
<1> QED
  BY <1>1, <1>2, PTL DEF Spec

(* The types, whatever is clicked in which page.                           *)
THEOREM TypeCorrect == Spec => []TypeOK
BY FilterInvariant, PTL DEF FilterInv

(* The notice, the buttons and the bookmarks of every page agree with its  *)
(* filters, whatever was filtered, clicked and loaded before.              *)
THEOREM PagesMatch == Spec => []PageMatchesFilters
<1>1. ASSUME FilterInv PROVE PageMatchesFilters
  <2> SUFFICES ASSUME NEW p \in loaded
               PROVE  NoticeMatchesFilters(p) /\ RowsShowContent(p)
    BY DEF PageMatchesFilters
  <2>1. DisplayFits(p)
    BY <1>1 DEF FilterInv, PageInv
  <2>2. ASSUME NEW r \in Rows
        PROVE  /\ Cardinality(tab[p][r]) = 1
               /\ body[p][r] = tab[p][r]
               /\ Available(r, Elements(active[p])) # {}
                    => tab[p][r] \subseteq Available(r, Elements(active[p]))
    BY <2>1, FS_Singleton DEF DisplayFits, Fits
  <2> QED
    BY <2>1, <2>2 DEF DisplayFits, RowsShowContent
<1> QED
  BY <1>1, FilterInvariant, PTL

-----------------------------------------------------------------------------
(* What is shown is what is stored *)

(* What a click takes out of the stored array, and puts into it. *)
LEMMA StoredAfter ==
  ASSUME cache \in Array \cup {NoCache}
  PROVE  /\ \A S \in SUBSET SourceSets : RemoveFromCache(S) => Stored' = Stored \ S
         /\ \A s \in SourceSets :
              cache' = Concat(IF cache = NoCache THEN EmptyArray ELSE cache, {s})
                => Stored' = Stored \cup {s}
<1>1. NoCache \notin Array
  BY FilterAssumption DEF Array
<1>2. \A bag \in Array : cache' = bag => Stored' = Elements(bag)
  BY <1>1 DEF Stored, Elements
<1>3. cache # NoCache => cache \in Array /\ Stored = Elements(cache)
  BY DEF Stored
<1>4. ASSUME NEW S \in SUBSET SourceSets, RemoveFromCache(S)
      PROVE  Stored' = Stored \ S
  <2>1. CASE cache = NoCache
    BY <1>4, <2>1 DEF RemoveFromCache, Stored
  <2>2. CASE cache # NoCache
    <3>1. cache' = Without(cache, S)
      BY <1>4, <2>2 DEF RemoveFromCache
    <3> QED
      BY <1>2, <1>3, <2>2, <3>1, ArrayTypes, ArrayElements
  <2> QED
    BY <2>1, <2>2
<1>5. ASSUME NEW s \in SourceSets,
             cache' = Concat(IF cache = NoCache THEN EmptyArray ELSE cache, {s})
      PROVE  Stored' = Stored \cup {s}
  <2>1. PICK bag \in Array : bag = IF cache = NoCache THEN EmptyArray ELSE cache
    BY <1>3, ArrayTypes
  <2>2. Elements(bag) = Stored
    BY <1>3, <2>1, EmptyHasNone, ArrayTypes DEF Stored
  <2>3. cache' = Concat(bag, {s})
    BY <1>5, <2>1
  <2> QED
    BY <1>2, <2>1, <2>2, <2>3, ArrayTypes, ArrayElements
<1> QED
  BY <1>4, <1>5

(* A click in page p about S: the page then shows of S what is stored of   *)
(* it, and the rest of both stays.                                         *)
LEMMA ChoiceAgrees ==
  ASSUME TypeOK, ShownAsStored, NEW p \in loaded, loaded' = loaded,
         NEW S \in SUBSET SourceSets, Choose(p, S),
         \A s \in S \cap Buttons : s \in Elements(active'[p]) <=> s \notin Stored',
         \A s \in Buttons \ S : /\ s \in Elements(active'[p]) <=> s \in Elements(active[p])
                                /\ s \in Stored' <=> s \in Stored,
         \A q \in Pages \ {p} : active'[q] = active[q]
  PROVE  ShownAsStored'
<1> SUFFICES ASSUME NEW q \in loaded, NEW s \in Buttons, s \notin foreign'[q]
             PROVE  s \in Elements(active'[q]) <=> s \notin Stored'
  BY DEF ShownAsStored, Elements
<1>1. q \in Pages /\ p \in Pages
  BY DEF TypeOK
<1>2. CASE q = p
  <2>1. foreign'[p] = foreign[p] \ S
    BY <1>1 DEF Choose
  <2>2. s \notin S => s \notin foreign[p]
    BY <1>2, <2>1
  <2> QED
    BY <1>2, <2>2 DEF ShownAsStored
<1>3. CASE q # p
  <2>1. foreign'[q] = foreign[q] \cup S
    BY <1>1, <1>3 DEF Choose
  <2>2. s \notin S /\ s \notin foreign[q]
    BY <2>1
  <2> QED
    BY <1>1, <1>3, <2>2 DEF ShownAsStored
<1> QED
  BY <1>2, <1>3

(* A click stores of its source set what the page then shows of it, and    *)
(* touches no other.                                                       *)
LEMMA ClickAgrees ==
  ASSUME FilterInv, ShownAsStored, NEW p \in Pages, NEW s \in Buttons, ClickFilter(p, s)
  PROVE  ShownAsStored'
<1>1. TypeOK /\ p \in loaded /\ ArraysFit(p)
  BY DEF FilterInv, PageInv, ClickFilter
<1>2. /\ active \in [Pages -> Array] /\ active[p] \in Array
      /\ cache \in Array \cup {NoCache} /\ s \in SourceSets
  BY <1>1, FilterAssumption DEF TypeOK, Array
<1>3. CASE FilterSourceset(p, s)
  <2>1. active'[p] = Without(active[p], {s}) /\ \A q \in Pages \ {p} : active'[q] = active[q]
    BY <1>2, <1>3 DEF FilterSourceset
  <2>2. Elements(active'[p]) = Elements(active[p]) \ {s}
    BY <1>2, <2>1, ArrayElements
  <2>3. Stored' = Stored \cup {s}
    BY <1>2, <1>3, StoredAfter DEF FilterSourceset
  <2>4. Choose(p, {s}) /\ loaded' = loaded /\ {s} \in SUBSET SourceSets
    BY <1>2, <1>3 DEF FilterSourceset
  <2> QED
    BY <1>1, <2>1, <2>2, <2>3, <2>4, ChoiceAgrees
<1>4. CASE UnfilterSourceset(p, s)
  <2>1. active'[p] = Concat(active[p], {s}) /\ \A q \in Pages \ {p} : active'[q] = active[q]
    BY <1>2, <1>4 DEF UnfilterSourceset
  <2>2. Choose(p, {s}) /\ loaded' = loaded /\ {s} \in SUBSET SourceSets
    BY <1>2, <1>4 DEF UnfilterSourceset
  <2>3. Elements(active'[p]) = Elements(active[p]) \cup {s}
    BY <1>2, <2>1, <2>2, ArrayElements
  <2>4. Stored' = Stored \ {s}
    BY <1>2, <1>4, <2>2, StoredAfter DEF UnfilterSourceset
  <2> QED
    BY <1>1, <2>1, <2>2, <2>3, <2>4, ChoiceAgrees
<1>5. CASE UnfilterFirst(p, s)
  <2>1. PICK S \in SUBSET SourceSets : S = DependenciesOf(s) \cup {s}
    BY <1>2, FilterAssumption DEF DependenciesOf
  <2>2. active'[p] = ArrayOf(S) /\ \A q \in Pages \ {p} : active'[q] = active[q]
    BY <1>2, <1>5, <2>1 DEF UnfilterFirst
  <2>3. Elements(active'[p]) = S /\ Elements(active[p]) = {}
    BY <1>2, <1>5, <2>2, ArrayElements, EmptyHasNone DEF UnfilterFirst
  <2>4. Stored' = Stored \ S
    BY <1>2, <1>5, <2>1, StoredAfter DEF UnfilterFirst
  <2>5. Choose(p, S) /\ loaded' = loaded
    BY <1>5, <2>1 DEF UnfilterFirst
  <2> QED
    BY <1>1, <2>2, <2>3, <2>4, <2>5, ChoiceAgrees
<1> QED
  BY <1>3, <1>4, <1>5 DEF ClickFilter

(* A page shows of each source set what is stored, unless another page has *)
(* made a choice about it since this page was loaded.                      *)
THEOREM ShownIsStored == Spec => []ShownAsStored
<1>1. ASSUME Init PROVE ShownAsStored
  BY <1>1 DEF Init, ShownAsStored
<1>2. ASSUME FilterInv, ShownAsStored, [Next]_vars PROVE ShownAsStored'
  <2>1. TypeOK
    BY <1>2 DEF FilterInv
  <2>2. ASSUME NEW p \in Pages, Load(p) PROVE ShownAsStored'
    <3>1. /\ active'[p] = ArrayOf(Buttons \ Stored) /\ Stored' = Stored
          /\ loaded' = loaded \cup {p}
          /\ \A q \in Pages \ {p} : active'[q] = active[q] /\ foreign'[q] = foreign[q]
      BY <2>1, <2>2 DEF TypeOK, Load, Stored
    <3>2. Elements(active'[p]) = Buttons \ Stored
      <4>1. PICK S \in SUBSET SourceSets : S = Buttons \ Stored
        BY FilterAssumption
      <4> QED
        BY <3>1, <4>1, ArrayElements
    <3>3. ASSUME NEW q \in loaded', NEW s \in Buttons, s \notin foreign'[q]
          PROVE  s \in Elements(active'[q]) <=> s \notin Stored'
      <4>1. CASE q = p
        BY <3>1, <3>2, <4>1
      <4>2. CASE q # p
        BY <1>2, <2>1, <3>1, <3>3, <4>2 DEF ShownAsStored, TypeOK
      <4> QED
        BY <4>1, <4>2
    <3> QED
      BY <3>3 DEF ShownAsStored, Elements
  <2>3. ASSUME NEW p \in Pages, NEW s \in Buttons, ClickFilter(p, s) PROVE ShownAsStored'
    BY <1>2, <2>3, ClickAgrees
  <2>4. ASSUME UNCHANGED <<cache, active, foreign>>, loaded' \subseteq loaded
        PROVE  ShownAsStored'
    BY <1>2, <2>4 DEF ShownAsStored, Stored, Elements
  <2>5. ASSUME NEW p \in Pages, Close(p) PROVE ShownAsStored'
    BY <2>4, <2>5 DEF Close, context
  <2>6. ASSUME NEW p \in Pages, NEW r \in Rows, NEW i \in DOMAIN Bookmarks[r],
               TogglePlatformDependent(p, r, i)
        PROVE  ShownAsStored'
    BY <2>4, <2>6 DEF TogglePlatformDependent, context
  <2>7. CASE UNCHANGED vars
    BY <2>4, <2>7 DEF vars, context
  <2> QED
    BY <1>2, <2>2, <2>3, <2>5, <2>6, <2>7 DEF Next
<1> QED
  BY <1>1, <1>2, FilterInvariant, PTL DEF Spec

-----------------------------------------------------------------------------
(* The stored array does not grow with use *)

(* The pages which show a source set, and its copies in the stored array. *)
Showing(s) == {p \in loaded : s \in Elements(active[p])}
Copies(s)  == IF cache = NoCache THEN 0 ELSE cache[s]

(* As StoredOncePerPage; nothing stored is like an empty array. *)
Bounded(s) == Copies(s) + Cardinality(Showing(s)) <= Cardinality(Pages)

(* The counts of ArraysIntact are numbers. *)
LEMMA CountTypes ==
  ASSUME TypeOK, NEW s \in SourceSets
  PROVE  Copies(s) \in Nat /\ Showing(s) \in SUBSET Pages
BY DEF TypeOK, Copies, Showing

(* A page to show a source set makes room for one copy of it. *)
LEMMA SmallerShowing ==
  ASSUME NEW S \in SUBSET Pages, NEW T \in SUBSET S
  PROVE  /\ Cardinality(S) \in Nat /\ Cardinality(T) \in Nat
         /\ Cardinality(T) <= Cardinality(S)
         /\ \A p \in S : p \notin T => Cardinality(T) + 1 <= Cardinality(S)
<1>1. IsFiniteSet(S) /\ IsFiniteSet(T)
  BY FS_Subset, FilterAssumption
<1>2. /\ Cardinality(S) \in Nat /\ Cardinality(T) \in Nat
      /\ Cardinality(T) <= Cardinality(S)
  BY <1>1, FS_Subset, FS_CardinalityType
<1>3. ASSUME NEW p \in S, p \notin T
      PROVE  Cardinality(T) + 1 <= Cardinality(S)
  <2>1. IsFiniteSet(S \ {p}) /\ Cardinality(S \ {p}) = Cardinality(S) - 1
    BY <1>1, FS_RemoveElement
  <2>2. T \in SUBSET (S \ {p})
    BY <1>3
  <2>3. Cardinality(T) <= Cardinality(S \ {p})
    BY <2>1, <2>2, FS_Subset
  <2> QED
    BY <1>2, <2>1, <2>3
<1> QED
  BY <1>2, <1>3

(* The three things a step may do to a source set. *)
LEMMA BoundKept ==
  ASSUME TypeOK, TypeOK', NEW s \in SourceSets, Bounded(s),
         \/ Copies(s)' = 0
         \/ Copies(s)' = Copies(s) /\ Showing(s)' \subseteq Showing(s)
         \/ /\ Copies(s)' = Copies(s) + 1 /\ Showing(s)' \subseteq Showing(s)
            /\ \E p \in Showing(s) : p \notin Showing(s)'
  PROVE  Bounded(s)'
<1>1. PICK S \in SUBSET Pages : S = Showing(s)
  BY CountTypes
<1>2. PICK T \in SUBSET Pages : T = Showing(s)'
  <2>1. Showing(s)' \in SUBSET Pages
    BY DEF TypeOK, Showing
  <2> QED
    BY <2>1
<1>3. PICK c \in Nat : c = Copies(s)
  BY CountTypes
<1>4. PICK k \in Nat : k = Cardinality(Pages)
  BY FS_CardinalityType, FilterAssumption
<1>5. c + Cardinality(S) <= k /\ Cardinality(S) \in Nat /\ Cardinality(T) \in Nat
  BY <1>1, <1>3, <1>4, SmallerShowing DEF Bounded
<1>6. SUFFICES Copies(s)' + Cardinality(T) <= k
  BY <1>2, <1>4 DEF Bounded
<1>7. CASE Copies(s)' = 0
  <2>1. Cardinality(T) <= k
    BY <1>4, SmallerShowing
  <2> QED
    BY <1>5, <1>7, <2>1
<1>8. CASE Copies(s)' = Copies(s) /\ Showing(s)' \subseteq Showing(s)
  <2>1. Cardinality(T) <= Cardinality(S)
    BY <1>1, <1>2, <1>8, SmallerShowing
  <2>2. Copies(s)' = c
    BY <1>3, <1>8
  <2> QED
    BY <1>5, <2>1, <2>2
<1>9. CASE /\ Copies(s)' = Copies(s) + 1 /\ Showing(s)' \subseteq Showing(s)
           /\ \E p \in Showing(s) : p \notin Showing(s)'
  <2>1. Cardinality(T) + 1 <= Cardinality(S)
    BY <1>1, <1>2, <1>9, SmallerShowing
  <2>2. Copies(s)' = c + 1
    BY <1>3, <1>9
  <2> QED
    BY <1>5, <2>1, <2>2
<1> QED
  BY <1>7, <1>8, <1>9

(* What a click does to the copies. *)
LEMMA CopiesAfter ==
  ASSUME cache \in Array \cup {NoCache}, NEW x \in SourceSets
  PROVE  /\ \A S \in SUBSET SourceSets :
              RemoveFromCache(S) => Copies(x)' = IF x \in S THEN 0 ELSE Copies(x)
         /\ \A s \in SourceSets :
              cache' = Concat(IF cache = NoCache THEN EmptyArray ELSE cache, {s})
                => Copies(x)' = IF x = s THEN Copies(x) + 1 ELSE Copies(x)
<1>1. NoCache \notin Array
  BY FilterAssumption DEF Array
<1>2. ASSUME NEW S \in SUBSET SourceSets, RemoveFromCache(S)
      PROVE  Copies(x)' = IF x \in S THEN 0 ELSE Copies(x)
  <2>1. CASE cache = NoCache
    BY <1>2, <2>1 DEF RemoveFromCache, Copies
  <2>2. CASE cache # NoCache
    <3>1. cache' = Without(cache, S) /\ cache' # NoCache
      BY <1>1, <1>2, <2>2, ArrayTypes DEF RemoveFromCache
    <3> QED
      BY <2>2, <3>1 DEF Copies, Without
  <2> QED
    BY <2>1, <2>2
<1>3. ASSUME NEW s \in SourceSets,
             cache' = Concat(IF cache = NoCache THEN EmptyArray ELSE cache, {s})
      PROVE  Copies(x)' = IF x = s THEN Copies(x) + 1 ELSE Copies(x)
  <2>1. PICK bag \in Array : bag = IF cache = NoCache THEN EmptyArray ELSE cache
    BY ArrayTypes
  <2>2. cache' = Concat(bag, {s}) /\ cache' # NoCache
    BY <1>1, <1>3, <2>1, ArrayTypes
  <2>3. Copies(x) = bag[x] /\ bag[x] \in Nat
    BY <2>1 DEF Copies, EmptyArray, Array
  <2>4. Copies(x)' = bag[x] + (IF x = s THEN 1 ELSE 0)
    BY <2>2 DEF Copies, Concat, ArrayOf
  <2> QED
    BY <2>3, <2>4
<1> QED
  BY <1>2, <1>3

(* A click keeps the bound: it stores a source set when the page no longer *)
(* shows it filtered, or takes it out of the store.                        *)
LEMMA ClickStoresOnce ==
  ASSUME FilterInv, TypeOK', NEW p \in Pages, NEW s \in Buttons, ClickFilter(p, s),
         NEW x \in SourceSets, Bounded(x)
  PROVE  Bounded(x)'
<1>1. TypeOK /\ p \in loaded
  BY DEF FilterInv, ClickFilter
<1>2. /\ active \in [Pages -> Array] /\ active[p] \in Array
      /\ cache \in Array \cup {NoCache} /\ s \in SourceSets
  BY <1>1, FilterAssumption DEF TypeOK, Array
<1>3. Copies(x) \in Nat
  BY <1>1, CountTypes
<1>4. ASSUME \A q \in Pages \ {p} : active'[q] = active[q], loaded' = loaded
      PROVE  /\ Elements(active'[p]) \subseteq Elements(active[p])
                  => Showing(x)' \subseteq Showing(x)
             /\ (x \in Elements(active'[p]) => x \in Elements(active[p]))
                  => Showing(x)' \subseteq Showing(x)
  BY <1>1, <1>4 DEF TypeOK, Showing, Elements
<1>5. CASE FilterSourceset(p, s)
  <2>1. /\ active'[p] = Without(active[p], {s}) /\ loaded' = loaded
        /\ \A q \in Pages \ {p} : active'[q] = active[q]
    BY <1>2, <1>5 DEF FilterSourceset
  <2>2. Elements(active'[p]) = Elements(active[p]) \ {s}
    BY <1>2, <2>1, ArrayElements
  <2>3. Showing(x)' \subseteq Showing(x)
    BY <1>4, <2>1, <2>2
  <2>4. Copies(x)' = IF x = s THEN Copies(x) + 1 ELSE Copies(x)
    BY <1>2, <1>5, CopiesAfter DEF FilterSourceset
  <2>5. x = s => p \in Showing(x) /\ p \notin Showing(x)'
    BY <1>1, <1>5, <2>2 DEF FilterSourceset, Showing, Elements
  <2> QED
    BY <1>1, <2>3, <2>4, <2>5, BoundKept
<1>6. CASE UnfilterSourceset(p, s)
  <2>1. /\ active'[p] = Concat(active[p], {s}) /\ loaded' = loaded
        /\ \A q \in Pages \ {p} : active'[q] = active[q]
    BY <1>2, <1>6 DEF UnfilterSourceset
  <2>2. PICK S \in SUBSET SourceSets : S = {s}
    BY <1>2
  <2>3. Elements(active'[p]) = Elements(active[p]) \cup S
    BY <1>2, <2>1, <2>2, ArrayElements
  <2>4. x \notin S => Showing(x)' \subseteq Showing(x)
    BY <1>4, <2>1, <2>3
  <2>5. Copies(x)' = IF x \in S THEN 0 ELSE Copies(x)
    BY <1>2, <1>6, <2>2, CopiesAfter DEF UnfilterSourceset
  <2> QED
    BY <1>1, <2>4, <2>5, BoundKept
<1>7. CASE UnfilterFirst(p, s)
  <2>1. PICK S \in SUBSET SourceSets : S = DependenciesOf(s) \cup {s}
    BY <1>2, FilterAssumption DEF DependenciesOf
  <2>2. /\ active'[p] = ArrayOf(S) /\ loaded' = loaded
        /\ \A q \in Pages \ {p} : active'[q] = active[q]
    BY <1>2, <1>7, <2>1 DEF UnfilterFirst
  <2>3. Elements(active'[p]) = S
    BY <2>2, ArrayElements
  <2>4. x \notin S => Showing(x)' \subseteq Showing(x)
    BY <1>4, <2>2, <2>3
  <2>5. Copies(x)' = IF x \in S THEN 0 ELSE Copies(x)
    BY <1>2, <1>7, <2>1, CopiesAfter DEF UnfilterFirst
  <2> QED
    BY <1>1, <2>4, <2>5, BoundKept
<1> QED
  BY <1>5, <1>6, <1>7 DEF ClickFilter

(* A page that is loaded may take over what is stored, and stores nothing. *)
LEMMA LoadStoresOnce ==
  ASSUME FilterInv, TypeOK', NEW p \in Pages, Load(p), NEW x \in SourceSets, Bounded(x)
  PROVE  Bounded(x)'
<1>1. TypeOK
  BY DEF FilterInv
<1>2. /\ active'[p] = ArrayOf(Buttons \ Stored) /\ cache' = cache
      /\ loaded' = loaded \cup {p}
      /\ \A q \in Pages \ {p} : active'[q] = active[q]
  BY <1>1 DEF TypeOK, Load
<1>3. Copies(x)' = Copies(x)
  BY <1>2 DEF Copies
<1>4. CASE x \in Stored
  <2>1. PICK S \in SUBSET SourceSets : S = Buttons \ Stored
    BY FilterAssumption
  <2>2. x \notin Elements(active'[p])
    BY <1>2, <1>4, <2>1, ArrayElements
  <2>3. Showing(x)' \subseteq Showing(x)
    BY <1>1, <1>2, <2>2 DEF TypeOK, Showing, Elements
  <2> QED
    BY <1>1, <1>3, <2>3, BoundKept
<1>5. CASE x \notin Stored
  <2>1. Copies(x) = 0
    <3>1. Copies(x) \in Nat
      BY <1>1, CountTypes
    <3> QED
      BY <1>5, <3>1 DEF Stored, Elements, Copies
  <2> QED
    BY <1>1, <1>3, <2>1, BoundKept
<1> QED
  BY <1>4, <1>5

(* A source set is stored at most once for each page that could have shown *)
(* it when it was stored, the array of the buttons is never changed, and   *)
(* no array has a source set twice that it should have once.               *)
THEOREM ArraysKept == Spec => []ArraysIntact
<1> DEFINE Once == \A x \in SourceSets : Bounded(x)
<1>1. ASSUME Init PROVE Once
  <2> SUFFICES ASSUME NEW x \in SourceSets PROVE Bounded(x)
    OBVIOUS
  <2>1. Copies(x) = 0 /\ Showing(x) = {}
    BY <1>1 DEF Init, Copies, Showing
  <2>2. Cardinality(Pages) \in Nat
    BY FS_CardinalityType, FilterAssumption
  <2> QED
    BY <2>1, <2>2, FS_EmptySet DEF Bounded
<1>2. ASSUME FilterInv, FilterInv', Once, [Next]_vars PROVE Once'
  <2> SUFFICES ASSUME NEW x \in SourceSets PROVE Bounded(x)'
    OBVIOUS
  <2>1. TypeOK /\ TypeOK' /\ Bounded(x)
    BY <1>2 DEF FilterInv
  <2>2. ASSUME NEW p \in Pages, Load(p) PROVE Bounded(x)'
    BY <1>2, <2>1, <2>2, LoadStoresOnce
  <2>3. ASSUME NEW p \in Pages, NEW s \in Buttons, ClickFilter(p, s) PROVE Bounded(x)'
    BY <1>2, <2>1, <2>3, ClickStoresOnce
  <2>4. ASSUME UNCHANGED <<cache, active>>, loaded' \subseteq loaded
        PROVE  Bounded(x)'
    <3>1. Copies(x)' = Copies(x) /\ Showing(x)' \subseteq Showing(x)
      BY <2>4 DEF Copies, Showing, Elements
    <3> QED
      BY <2>1, <3>1, BoundKept
  <2>5. ASSUME NEW p \in Pages, Close(p) PROVE Bounded(x)'
    BY <2>4, <2>5 DEF Close, context
  <2>6. ASSUME NEW p \in Pages, NEW r \in Rows, NEW i \in DOMAIN Bookmarks[r],
               TogglePlatformDependent(p, r, i)
        PROVE  Bounded(x)'
    BY <2>4, <2>6 DEF TogglePlatformDependent, context
  <2>7. CASE UNCHANGED vars
    BY <2>4, <2>7 DEF vars, context
  <2> QED
    BY <1>2, <2>2, <2>3, <2>5, <2>6, <2>7 DEF Next
<1>3. ASSUME FilterInv, Once PROVE ArraysIntact
  <2>1. StoredOncePerPage
    BY <1>3 DEF StoredOncePerPage, Bounded, Copies, Showing
  <2>2. ButtonsIntact
    BY <1>3 DEF ButtonsIntact, FilterInv, PageInv, ArraysFit
  <2> QED
    BY <2>1, <2>2 DEF ArraysIntact
<1> HIDE DEF Once
<1> QED
  BY <1>1, <1>2, <1>3, FilterInvariant, PTL DEF Spec
=============================================================================
