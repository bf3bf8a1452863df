------------------------ MODULE DocumentationPageProofs ------------------------
(***************************************************************************)
(* Theorems about DocumentationPage, for any pages, tabs, anchors, menu    *)
(* and bounds: the types, that a page shows the tab and the theme that are *)
(* stored, that the anchor of the hash is the one that is shown, and that  *)
(* the menu opens at the part of the page.                                 *)
(***************************************************************************)
EXTENDS DocumentationPage, FiniteSetTheorems, SequenceTheorems, WellFoundedInduction, TLAPS

(* How far a document is: there is one before anything happens in it, its  *)
(* script has run before it is loaded.                                     *)
Stages ==
  /\ document \in Documents <=> readyState # "none"
  /\ document \notin Documents =>
       events = 0 /\ timers = <<>> /\ ~evaluated /\ navigation = "none"
  /\ Loaded => evaluated

(* A hashchange event becomes at most one timer; handling the anchor at    *)
(* the load event adds one.                                                *)
WorkBounded ==
  events + Len(timers) <= IF Loaded THEN MaxTimers + 1 ELSE MaxTimers

TypeInv == TypeOK /\ Stages /\ WorkBounded

(* What the steps below need of PageAssumption. *)
LEMMA Bounds ==
  MaxTimers \in Nat /\ MaxPopups \in Nat /\ NoDocument \notin Documents
BY PageAssumption

-----------------------------------------------------------------------------
(* The menu *)

(* A set of numbers that is not empty has a least one. *)
LEMMA LeastExists ==
  ASSUME NEW S \in SUBSET Nat, S # {}
  PROVE  \E x \in S : \A y \in S : x <= y
<1> DEFINE R == {ss \in Nat \X Nat : ss[1] < ss[2]}
<1>1. IsWellFoundedOn(R, Nat)
  <2>1. R = OpToRel(<, Nat)
    BY Zenon DEF OpToRel
  <2> QED
    BY ONLY <2>1, NatLessThanWellFounded, Zenon
<1>2. PICK x \in S : \A y \in S : ~ (<<y, x>> \in R)
  <2> HIDE DEF R
  <2> QED
    BY <1>1, WFMin
<1>3. \A y \in S : y < x => <<y, x>> \in R
  OBVIOUS
<1>4. \A y \in S : ~(y < x)
  BY <1>2, <1>3, Zenon
<1>5. x \in Nat /\ \A y \in S : y \in Nat
  OBVIOUS
<1>6. \A y \in S : x <= y
  BY ONLY <1>4, <1>5
<1> QED
  BY <1>6

(* The pieces of an id are no longer than the id. *)
LEMMA PiecesShorter ==
  ASSUME NEW id \in Seq(Atoms), NEW piece \in IdsTried(id)
  PROVE  Len(piece) \in Nat /\ Len(id) - Len(piece) \in Nat
<1>1. CASE piece = id
  BY <1>1
<1>2. CASE \E i \in DOMAIN id : piece = SubSeq(id, 1, i - 1)
  <2>1. PICK i \in 1..Len(id) : piece = SubSeq(id, 1, i - 1)
    BY <1>2
  <2>2. Len(piece) = i - 1
    BY <2>1
  <2> QED
    BY <2>1, <2>2
<1> QED
  BY <1>1, <1>2 DEF IdsTried

(* What is revealed for an id are parts of the menu: if any piece of the   *)
(* id is found there is a longest one, and a first part it is found in.    *)
LEMMA RevealedInMenu ==
  ASSUME NEW id \in Seq(Atoms)
  PROVE  Revealed(id) \subseteq DOMAIN Menu
<1> DEFINE partsOf(piece) == {n \in DOMAIN Menu : Occurs(piece, Menu[n].id)}
           found == {piece \in IdsTried(id) : partsOf(piece) # {}}
           longest == CHOOSE piece \in found : \A other \in found : Len(other) <= Len(piece)
           first == CHOOSE n \in partsOf(longest) : \A m \in partsOf(longest) : n <= m
<1>1. Revealed(id) = IF found = {} THEN {} ELSE {first} \cup Menu[first].above
  BY DEF Revealed, RevealParents
<1>2. DOMAIN Menu = 1..Len(Menu) /\ Len(Menu) \in Nat
  BY PageAssumption
<1>3. ASSUME found # {} PROVE longest \in found
  <2> HIDE DEF partsOf
  <2> DEFINE S == {Len(id) - Len(piece) : piece \in found}
  <2>1. S \in SUBSET Nat /\ S # {}
    BY <1>3, PiecesShorter
  <2> HIDE DEF S
  <2>2. PICK x \in S : \A y \in S : x <= y
    BY <2>1, LeastExists
  <2>3. PICK piece \in found : x = Len(id) - Len(piece)
    BY <2>2 DEF S
  <2>4. ASSUME NEW other \in found PROVE Len(other) <= Len(piece)
    <3>1. Len(id) - Len(other) \in S
      BY DEF S
    <3>2. Len(id) - Len(piece) <= Len(id) - Len(other)
      BY <2>2, <2>3, <3>1
    <3>3. Len(piece) \in Nat /\ Len(other) \in Nat /\ Len(id) \in Nat
      BY PiecesShorter
    <3> QED
      BY ONLY <3>2, <3>3
  <2> QED
    BY <2>4
<1>4. ASSUME found # {} PROVE first \in DOMAIN Menu
  <2> HIDE DEF longest
  <2>1. partsOf(longest) # {} /\ partsOf(longest) \in SUBSET Nat
    BY <1>2, <1>3, <1>4
  <2> HIDE DEF partsOf
  <2>2. first \in partsOf(longest)
    BY <2>1, LeastExists
  <2> QED
    BY <2>2 DEF partsOf
<1>5. ASSUME found # {} PROVE Menu[first].above \subseteq DOMAIN Menu
  <2> HIDE DEF first
  <2>1. first \in 1..Len(Menu)
    BY <1>2, <1>4, <1>5
  <2>2. Menu[first].above \subseteq 1..(first - 1)
    BY <1>4, <1>5, PageAssumption
  <2> QED
    BY <1>2, <2>1, <2>2
<1> HIDE DEF found, first
<1> QED
  BY <1>1, <1>4, <1>5

-----------------------------------------------------------------------------
(* Tabs and anchors *)

(* The tab that is active in the markup is one of the page's, if it has    *)
(* any.                                                                    *)
LEMMA MarkupIsTab ==
  ASSUME NEW d \in Documents
  PROVE  /\ KeysOf(d) \subseteq Keys /\ Markup(d) \subseteq KeysOf(d)
         /\ KeysOf(d) # {} => \E k \in Keys : Markup(d) = {k}
<1>1. Tabs[d] \in Seq(Keys)
  BY PageAssumption
<1>2. DOMAIN Tabs[d] = 1..Len(Tabs[d]) /\ \A i \in 1..Len(Tabs[d]) : Tabs[d][i] \in Keys
  BY <1>1
<1>3. Tabs[d] # <<>> => 1 \in 1..Len(Tabs[d])
  BY <1>1
<1> QED
  BY <1>1, <1>2, <1>3 DEF KeysOf, Markup

(* The tab of an anchor that a page has is one of the page's. *)
LEMMA AnchorTabInPage ==
  ASSUME NEW d \in Documents, NEW a \in AnchorsOf[d]
  PROVE  AnchorTab[a] = NoTab \/ AnchorTab[a] \in KeysOf(d)
BY PageAssumption DEF KeysOf

(* initTabs shows the body of the active tab, or the stored tab. *)
LEMMA TabsAfterInit ==
  LET s == InitTabs(Sections)
  IN /\ storedTab \in KeysOf(document) =>
          s.tab = {storedTab} /\ s.body = {storedTab} /\ s.stored = storedTab
     /\ storedTab \notin KeysOf(document) =>
          s.tab = tab /\ s.body = body \cup tab /\ s.stored = storedTab
BY DEF InitTabs, Sections, ToggleSections

(* handleAnchor goes to the tab of an anchor that is there, and otherwise  *)
(* leaves tabs and bodies as they are; then the anchor can be seen.        *)
LEMMA TabsAfterAnchor ==
  ASSUME document \in Documents, NEW found \in BOOLEAN, NEW s, NEW ready,
         found => hash \in AnchorsOf[document], HandleAnchor(found, s, ready)
  PROVE  /\ \/ tab' = s.tab /\ body' = s.body /\ storedTab' = s.stored
            \/ /\ storedTab' \in KeysOf(document)
               /\ tab' = {storedTab'} /\ body' = {storedTab'}
         /\ found => Visible(hash, tab')
<1>1. CASE found /\ AnchorTab[hash] # NoTab
  <2>1. AnchorTab[hash] \in KeysOf(document)
    BY <1>1, AnchorTabInPage
  <2>2. tab' = {AnchorTab[hash]} /\ body' = {AnchorTab[hash]} /\ storedTab' = AnchorTab[hash]
    BY <1>1 DEF HandleAnchor, SectionsAt, SetSections, ToggleSections
  <2> QED
    BY <2>1, <2>2 DEF Visible
<1>2. CASE ~(found /\ AnchorTab[hash] # NoTab)
  BY <1>2 DEF HandleAnchor, SectionsAt, SetSections, Visible
<1> QED
  BY <1>1, <1>2

(* The types that handleAnchor leaves, and the timer it may add. *)
LEMMA AnchorTypes ==
  ASSUME TypeOK, document \in Documents, NEW found \in BOOLEAN, NEW ready \in BOOLEAN,
         found => hash \in AnchorsOf[document],
         NEW s, s.tab \subseteq Keys, s.body \subseteq Keys, s.stored \in Keys \cup {NoTab},
         HandleAnchor(found, s, ready)
  PROVE  /\ tab' \subseteq Keys /\ body' \subseteq Keys /\ storedTab' \in Keys \cup {NoTab}
         /\ highlighted' \subseteq Anchors /\ highlightedAnchor' \in Anchors \cup {NoHash}
         /\ timers' \in Seq(Anchors)
         /\ Len(timers') = Len(timers) \/ Len(timers') = Len(timers) + 1
         /\ reached' \in BOOLEAN /\ left' \in BOOLEAN
<1>1. found => hash \in Anchors
  BY PageAssumption
<1>2. tab' \subseteq Keys /\ body' \subseteq Keys /\ storedTab' \in Keys \cup {NoTab}
  BY TabsAfterAnchor, MarkupIsTab
<1>3. highlighted' \subseteq Anchors /\ highlightedAnchor' \in Anchors \cup {NoHash}
  BY <1>1 DEF TypeOK, HandleAnchor
<1>4. timers \in Seq(Anchors) /\ (timers' = timers \/ (found /\ timers' = Append(timers, hash)))
  BY DEF TypeOK, HandleAnchor, ScrollToElement
<1>5. /\ timers' \in Seq(Anchors)
      /\ Len(timers') = Len(timers) \/ Len(timers') = Len(timers) + 1
  BY <1>1, <1>4
<1>6. reached' \in BOOLEAN /\ left' \in BOOLEAN
  BY DEF TypeOK, HandleAnchor, ScrollToElement, Visible
<1> QED
  BY <1>2, <1>3, <1>5, <1>6

-----------------------------------------------------------------------------
(* Types *)

(* A hashchange event: handled as an anchor, or lost before the script has *)
(* been evaluated.                                                         *)
LEMMA HashChangeTypes == TypeInv /\ HashChange => TypeInv'
<1> SUFFICES ASSUME TypeInv, HashChange
             PROVE  TypeInv'
  OBVIOUS
<1> USE DEF TypeInv
<1>1. events \in Nat /\ events # 0 /\ events' = events - 1 /\ timers \in Seq(Anchors)
  BY Bounds DEF HashChange, TypeOK
<1>2. /\ document' = document /\ readyState' = readyState /\ evaluated' = evaluated
      /\ hash' = hash /\ navigation' = navigation /\ revealed' = revealed
      /\ dark' = dark /\ storedDark' = storedDark /\ foreignDark' = foreignDark
      /\ popup' = popup /\ popupTimers' = popupTimers
  BY DEF HashChange, theme, menu, copying
<1>3. CASE ~evaluated
  <2>1. UNCHANGED <<sections, anchor>>
    BY <1>3 DEF HashChange
  <2>2. TypeOK'
    BY <1>1, <1>2, <2>1, Bounds DEF TypeOK, sections, anchor
  <2>3. Stages' /\ WorkBounded'
    BY <1>1, <1>2, <2>1, Bounds DEF Stages, WorkBounded, Loaded, anchor
  <2> QED
    BY <2>2, <2>3
<1>4. CASE evaluated
  <2>1. document \in Documents
    BY <1>4 DEF Stages
  <2>2. PICK found \in BOOLEAN :
          /\ found => hash \in AnchorsOf[document]
          /\ HandleAnchor(found, Sections, Loaded)
    BY <1>4 DEF HashChange
  <2>3. foreignTab' \in BOOLEAN
    BY <1>4 DEF HashChange, TypeOK
  <2>4. /\ tab' \subseteq Keys /\ body' \subseteq Keys /\ storedTab' \in Keys \cup {NoTab}
        /\ highlighted' \subseteq Anchors /\ highlightedAnchor' \in Anchors \cup {NoHash}
        /\ timers' \in Seq(Anchors)
        /\ Len(timers') = Len(timers) \/ Len(timers') = Len(timers) + 1
        /\ reached' \in BOOLEAN /\ left' \in BOOLEAN
    <3>1. Loaded \in BOOLEAN
      BY DEF Loaded
    <3>2. Sections.tab \subseteq Keys /\ Sections.body \subseteq Keys
          /\ Sections.stored \in Keys \cup {NoTab}
      BY DEF Sections, TypeOK
    <3> QED
      BY <2>1, <2>2, <3>1, <3>2, AnchorTypes
  <2>5. Loaded => timers' = timers
    BY <2>2 DEF HandleAnchor, ScrollToElement
  <2>6. WorkBounded'
    <3>1. Loaded' <=> Loaded
      BY <1>2 DEF Loaded
    <3> QED
      BY <1>1, <2>4, <2>5, <3>1, Bounds DEF WorkBounded
  <2>7. Stages'
    BY <1>2, <1>4, <2>1 DEF Stages, Loaded
  <2>8. Len(timers') <= MaxTimers + 1
    BY <1>1, <2>4, <2>6, Bounds DEF WorkBounded
  <2>9. events' \in 0..MaxTimers
    BY <1>1, Bounds DEF TypeOK
  <2>10. TypeOK'
    BY <1>2, <2>3, <2>4, <2>8, <2>9 DEF TypeOK
  <2> QED
    BY <2>6, <2>7, <2>10
<1> QED
  BY <1>3, <1>4 DEF TypeOK

(* The load event: the one step in which a timer is added without an event *)
(* being taken.                                                            *)
LEMMA LoadTypes == TypeInv /\ Load => TypeInv'
<1> SUFFICES ASSUME TypeInv, Load
             PROVE  TypeInv'
  OBVIOUS
<1> USE DEF TypeInv
<1>1. /\ document' = document /\ evaluated' = evaluated /\ events' = events
      /\ hash' = hash /\ navigation' = navigation /\ revealed' = revealed
      /\ dark' = dark /\ storedDark' = storedDark /\ foreignDark' = foreignDark
      /\ popup' = popup /\ popupTimers' = popupTimers /\ foreignTab' \in BOOLEAN
  BY DEF Load, theme, menu, copying, TypeOK
<1>2. readyState = "interactive" /\ readyState' = "complete" /\ evaluated
      /\ ~Loaded /\ Loaded'
  BY DEF Load, Loaded
<1>3. document \in Documents
  BY <1>2 DEF Stages
<1>4. /\ tab' \subseteq Keys /\ body' \subseteq Keys /\ storedTab' \in Keys \cup {NoTab}
      /\ highlighted' \subseteq Anchors /\ highlightedAnchor' \in Anchors \cup {NoHash}
      /\ timers' \in Seq(Anchors)
      /\ Len(timers') = Len(timers) \/ Len(timers') = Len(timers) + 1
      /\ reached' \in BOOLEAN /\ left' \in BOOLEAN
  <2> DEFINE s == InitTabs(Sections)
  <2>1. s.tab \subseteq Keys /\ s.body \subseteq Keys /\ s.stored \in Keys \cup {NoTab}
    <3>1. tab \subseteq Keys /\ body \subseteq Keys /\ storedTab \in Keys \cup {NoTab}
      BY DEF TypeOK
    <3>2. KeysOf(document) \subseteq Keys
      BY <1>3, MarkupIsTab
    <3> QED
      BY <3>1, <3>2, TabsAfterInit
  <2>2. HandleAnchor(hash \in AnchorsOf[document], s, FALSE)
    BY DEF Load
  <2> HIDE DEF s
  <2>3. PICK found \in BOOLEAN : found <=> hash \in AnchorsOf[document]
    BY Zenon
  <2>4. HandleAnchor(found, s, FALSE)
    BY <2>2, <2>3 DEF HandleAnchor, SectionsAt
  <2> QED
    BY <1>3, <2>1, <2>3, <2>4, AnchorTypes
<1>5. events \in Nat /\ Len(timers) \in Nat
  BY DEF TypeOK
<1>6. WorkBounded'
  BY <1>1, <1>2, <1>4, <1>5, Bounds DEF WorkBounded
<1>7. Stages'
  BY <1>1, <1>2, <1>3 DEF Stages
<1>8. Len(timers') <= MaxTimers + 1
  BY <1>1, <1>2, <1>4, <1>5, <1>6, Bounds DEF WorkBounded
<1>9. TypeOK'
  BY <1>1, <1>2, <1>4, <1>8 DEF TypeOK
<1> QED
  BY <1>6, <1>7, <1>9

(* Every step keeps the types, the stages and the bound. *)
LEMMA TypesKept == TypeInv /\ [Next]_vars => TypeInv'
<1> SUFFICES ASSUME TypeInv, [Next]_vars
             PROVE  TypeInv'
  OBVIOUS
<1> USE Bounds DEF TypeInv
<1>1. ASSUME NEW d \in Documents, NEW h \in Anchors \cup {NoHash}, Open(d, h)
      PROVE  TypeInv'
  <2>1. Markup(d) \subseteq Keys /\ {} \subseteq Keys
    BY MarkupIsTab
  <2>2. <<>> \in Seq(Anchors) /\ Len(<<>>) = 0 /\ 0 \in 0..MaxTimers /\ 0 \in 0..MaxPopups
    BY Bounds
  <2>3. /\ {evaluated', dark', popup', reached', left', foreignTab', foreignDark'}
               \subseteq BOOLEAN
        /\ ~popup'
    BY <1>1 DEF Open, TypeOK
  <2>4. TypeOK'
    BY <1>1, <2>1, <2>2, <2>3 DEF Open, TypeOK
  <2>5. Stages' /\ WorkBounded'
    BY <1>1 DEF Open, Stages, WorkBounded, Loaded
  <2> QED
    BY <2>4, <2>5
<1>2. CASE EvaluateHandler
  BY <1>2 DEF EvaluateHandler, TypeOK, Stages, WorkBounded, Loaded, sections, theme, anchor,
              menu, copying
<1>3. CASE EvaluateNavigation
  BY <1>3 DEF EvaluateNavigation, TypeOK, Stages, WorkBounded, Loaded, sections, theme,
              anchor, copying
<1>4. CASE DOMContentLoaded
  BY <1>4 DEF DOMContentLoaded, TypeOK, Stages, WorkBounded, Loaded, sections, theme, anchor,
              copying
<1>5. CASE Load
  BY <1>5, LoadTypes
<1>6. ASSUME NEW k \in Keys, ClickTab(k)
      PROVE  TypeInv'
  <2>1. tab' \subseteq Keys /\ body' \subseteq Keys /\ storedTab' \in Keys
    BY <1>6 DEF ClickTab, SetSections, ToggleSections
  <2>2. /\ left' \in BOOLEAN /\ foreignTab' \in BOOLEAN
        /\ UNCHANGED <<document, readyState, evaluated, hash, events, dark, storedDark,
                       foreignDark, highlighted, highlightedAnchor, timers, reached,
                       navigation, revealed, popup, popupTimers>>
    BY <1>6 DEF ClickTab, theme, menu, copying
  <2>3. TypeOK'
    BY <2>1, <2>2 DEF TypeOK
  <2>4. Stages' /\ WorkBounded'
    BY <2>2 DEF Stages, WorkBounded, Loaded
  <2> QED
    BY <2>3, <2>4
<1>7. ASSUME NEW h \in Anchors \cup {NoHash}, ChangeHash(h)
      PROVE  TypeInv'
  <2>1. /\ events' = events + 1 /\ timers' = timers /\ readyState' = readyState
        /\ events + Len(timers) < MaxTimers /\ events \in Nat /\ Len(timers) \in Nat
    BY <1>7 DEF ChangeHash, TypeOK, anchor
  <2>2. events' \in 0..MaxTimers
    BY <2>1, Bounds
  <2>3. /\ hash' = h /\ reached' \in BOOLEAN
        /\ UNCHANGED <<document, readyState, evaluated, tab, body, storedTab, foreignTab, dark,
                       storedDark, foreignDark, highlighted, highlightedAnchor, timers, left,
                       navigation, revealed, popup, popupTimers>>
    BY <1>7 DEF ChangeHash, sections, theme, menu, copying
  <2>4. TypeOK'
    BY <2>2, <2>3 DEF TypeOK
  <2>5. document \in Documents
    BY <1>7 DEF ChangeHash, TypeOK
  <2>6. Stages'
    BY <2>3, <2>5 DEF Stages, Loaded
  <2>7. WorkBounded'
    BY <2>1, Bounds DEF WorkBounded, Loaded
  <2> QED
    BY <2>4, <2>6, <2>7
<1>8. CASE HashChange
  BY <1>8, HashChangeTypes
<1>9. CASE ScrollTimer
  <2>1. /\ timers' \in Seq(Anchors) /\ Len(timers') = Len(timers) - 1
        /\ Len(timers) \in Nat /\ events \in Nat /\ events' = events
        /\ readyState' = readyState
    BY <1>9 DEF ScrollTimer, TypeOK
  <2>2. reached' \in BOOLEAN
    BY <1>9 DEF ScrollTimer, TypeOK, Loaded, Visible
  <2>3. TypeOK'
    BY <1>9, <2>1, <2>2 DEF ScrollTimer, TypeOK, sections, theme, menu, copying
  <2>4. Stages'
    BY <1>9, <2>1 DEF ScrollTimer, Stages, Loaded, menu
  <2>5. WorkBounded'
    BY <2>1 DEF WorkBounded, Loaded
  <2> QED
    BY <2>3, <2>4, <2>5
<1>10. CASE ToggleTheme
  BY <1>10 DEF ToggleTheme, TypeOK, Stages, WorkBounded, Loaded, sections, anchor, menu,
               copying
<1>11. CASE OtherPage
  <2>1. /\ storedTab' \in Keys \cup {NoTab} /\ storedDark' \in BOOLEAN
        /\ foreignTab' \in BOOLEAN /\ foreignDark' \in BOOLEAN
    BY <1>11 DEF OtherPage, TypeOK
  <2>2. UNCHANGED <<document, readyState, evaluated, hash, events, tab, body, dark, anchor,
                    menu, copying>>
    BY <1>11 DEF OtherPage
  <2> QED
    BY <2>1, <2>2 DEF TypeOK, Stages, WorkBounded, Loaded, anchor, menu, copying
<1>12. CASE DisplayNavigation
  <2>1. document \in Documents
    BY <1>12 DEF DisplayNavigation, Stages
  <2>2. PageId[document] \in Seq(Atoms)
    BY <2>1, PageAssumption
  <2>3. revealed' \subseteq DOMAIN Menu
    BY <1>12, <2>1, <2>2, RevealedInMenu DEF DisplayNavigation, RevealedOn
  <2> QED
    BY <1>12, <2>1, <2>3 DEF DisplayNavigation, TypeOK, Stages, WorkBounded, Loaded, sections,
                      theme, anchor, copying
<1>13. ASSUME NEW succeeds \in BOOLEAN, Copy(succeeds)
       PROVE  TypeInv'
  <2>1. UNCHANGED <<document, readyState, evaluated, hash, events, sections, theme, anchor,
                    menu>>
    BY <1>13 DEF Copy
  <2>2. /\ popupTimers \in 0..MaxPopups /\ popupTimers < MaxPopups
        /\ popupTimers' = IF succeeds THEN popupTimers + 1 ELSE popupTimers
    BY <1>13 DEF Copy, TypeOK
  <2>3. popupTimers' \in 0..MaxPopups /\ popup' \in BOOLEAN /\ (popup' => popupTimers' > 0)
    <3>1. popupTimers' \in 0..MaxPopups
      BY <2>2, Bounds
    <3>2. popup' \in BOOLEAN /\ (popup' => popup \/ succeeds)
      BY <1>13 DEF Copy
    <3>3. (popup => popupTimers > 0) /\ popupTimers \in Nat
      BY <2>2, Bounds DEF TypeOK
    <3>4. popup' => popupTimers' > 0
      BY <2>2, <3>2, <3>3
    <3> QED
      BY <3>1, <3>2, <3>4
  <2> QED
    BY <2>1, <2>3 DEF TypeOK, Stages, WorkBounded, Loaded, sections, theme, anchor, menu
<1>14. CASE PopupTimer
  <2>1. popupTimers' \in 0..MaxPopups /\ popup' \in BOOLEAN /\ ~popup'
    <3>1. popup' \in BOOLEAN /\ ~popup'
      BY <1>14, Zenon DEF PopupTimer
    <3>2. popupTimers \in 0..MaxPopups
      BY DEF TypeOK
    <3>3. popupTimers > 0 /\ popupTimers' = popupTimers - 1
      BY <1>14, Zenon DEF PopupTimer
    <3> QED
      BY <3>1, <3>2, <3>3, Bounds
  <2>2. UNCHANGED <<document, readyState, evaluated, hash, events, sections, theme, anchor,
                    menu>>
    BY <1>14 DEF PopupTimer
  <2> QED
    BY <2>1, <2>2 DEF TypeOK, Stages, WorkBounded, Loaded, sections, theme, anchor, menu
<1>15. CASE UNCHANGED vars
  BY <1>15 DEF vars, TypeOK, Stages, WorkBounded, Loaded, sections, theme, anchor, menu,
               copying
<1> QED
  BY <1>1, <1>2, <1>3, <1>4, <1>5, <1>6, <1>7, <1>8, <1>9, <1>10, <1>11, <1>12, <1>13,
     <1>14, <1>15 DEF Next

(* The types hold, an event or timer needs a document, and what waits is   *)
(* bounded.                                                                *)
THEOREM TypesInvariant == Spec => []TypeInv
<1>1. Init => TypeInv
  <2> SUFFICES ASSUME Init PROVE TypeInv
    OBVIOUS
  <2>1. <<>> \in Seq(Anchors) /\ Len(<<>>) = 0 /\ 0 \in 0..MaxTimers /\ 0 \in 0..MaxPopups
    BY Bounds
  <2>2. /\ {storedDark, evaluated, dark, popup, reached, left, foreignTab, foreignDark}
               \subseteq BOOLEAN
        /\ ~popup
    BY DEF Init
  <2>3. TypeOK
    BY <2>1, <2>2, Bounds DEF Init, TypeOK
  <2>4. Stages /\ WorkBounded
    BY <2>1, Bounds DEF Init, Stages, WorkBounded, Loaded
  <2> QED
    BY <2>3, <2>4 DEF TypeInv
<1> QED
  BY <1>1, TypesKept, PTL DEF Spec

(* The values of a page's state; above all that a copy popup that is shown *)
(* has a timer that will remove it, and that what a menu reveals is in it. *)
THEOREM TypeCorrect == Spec => []TypeOK
BY TypesInvariant, PTL DEF TypeInv

-----------------------------------------------------------------------------
(* The tab and the theme that are stored *)

(* A page shows the tab of its markup or one it was told to show; its body *)
(* from the load event on, or earlier if an anchor's tab has been shown.   *)
(* Unless another page wrote, that is the stored tab, or the one of the    *)
(* markup until the load event and where the page lacks the stored one.    *)
TabsInv ==
  document \in Documents =>
    /\ tab = Markup(document) \/ \E k \in KeysOf(document) : tab = {k}
    /\ body = tab \/ (~Loaded /\ body = {} /\ tab = Markup(document))
    /\ ~foreignTab =>
         \/ storedTab \in KeysOf(document) /\ tab = {storedTab}
         \/ tab = Markup(document) /\ (Loaded => storedTab \notin KeysOf(document))

(* Every step keeps the account of the tab. *)
LEMMA TabsKept == TypeInv /\ TabsInv /\ [Next]_vars => TabsInv'
<1> SUFFICES ASSUME TypeInv, TabsInv, [Next]_vars, document' \in Documents
             PROVE  TabsInv'
  BY DEF TabsInv
<1> DEFINE Kept == UNCHANGED <<document, readyState, sections>>
<1>1. ASSUME NEW d \in Documents, NEW h \in Anchors \cup {NoHash}, Open(d, h)
      PROVE  TabsInv'
  BY <1>1 DEF Open, TabsInv, Loaded
<1>2. CASE Load
  <2> DEFINE s == InitTabs(Sections)
  <2>1. /\ document' = document /\ ~Loaded
        /\ foreignTab' = (foreignTab /\ storedTab' \notin KeysOf(document))
        /\ HandleAnchor(hash \in AnchorsOf[document], s, FALSE)
    BY <1>2 DEF Load, Loaded
  <2>2. PICK found \in BOOLEAN : found <=> hash \in AnchorsOf[document]
    BY Zenon
  <2> HIDE DEF s
  <2>3. HandleAnchor(found, s, FALSE)
    BY <2>1, <2>2 DEF HandleAnchor, SectionsAt
  <2>4. \/ tab' = s.tab /\ body' = s.body /\ storedTab' = s.stored
        \/ storedTab' \in KeysOf(document) /\ tab' = {storedTab'} /\ body' = {storedTab'}
    BY <2>1, <2>2, <2>3, TabsAfterAnchor
  <2>5. \/ storedTab' \in KeysOf(document) /\ tab' = {storedTab'} /\ body' = {storedTab'}
        \/ /\ storedTab' = storedTab /\ storedTab \notin KeysOf(document)
           /\ tab' = tab /\ body' = body \cup tab
    BY <2>4, TabsAfterInit DEF s
  <2>6. CASE storedTab' \in KeysOf(document) /\ tab' = {storedTab'} /\ body' = {storedTab'}
    BY <2>1, <2>6 DEF TabsInv
  <2>7. CASE /\ storedTab' = storedTab /\ storedTab \notin KeysOf(document)
             /\ tab' = tab /\ body' = body \cup tab
    <3>1. body' = tab'
      BY <2>1, <2>7 DEF TabsInv
    <3>2. ~foreignTab' => ~foreignTab
      BY <2>1, <2>7
    <3>3. ~foreignTab => tab = Markup(document)
      BY <2>1, <2>7 DEF TabsInv
    <3>4. tab = Markup(document) \/ \E k \in KeysOf(document) : tab = {k}
      BY <2>1 DEF TabsInv
    <3> QED
      BY <2>1, <2>7, <3>1, <3>2, <3>3, <3>4 DEF TabsInv
  <2> QED
    BY <2>5, <2>6, <2>7
<1>3. ASSUME NEW k \in Keys, ClickTab(k)
      PROVE  TabsInv'
  BY <1>3 DEF ClickTab, SetSections, ToggleSections, TabsInv
<1>4. CASE HashChange
  <2>1. document' = document /\ readyState' = readyState
    BY <1>4 DEF HashChange
  <2>2. CASE ~evaluated
    <3>1. Kept
      BY <1>4, <2>1, <2>2 DEF HashChange
    <3> QED
      BY <3>1 DEF TabsInv, Loaded, sections
  <2>3. CASE evaluated
    <3>1. PICK found \in BOOLEAN :
            /\ found => hash \in AnchorsOf[document]
            /\ HandleAnchor(found, Sections, Loaded)
      BY <1>4, <2>3 DEF HashChange
    <3>2. foreignTab' = (foreignTab /\ storedTab' = storedTab)
      BY <1>4, <2>3 DEF HashChange
    <3>3. \/ tab' = tab /\ body' = body /\ storedTab' = storedTab
          \/ storedTab' \in KeysOf(document) /\ tab' = {storedTab'} /\ body' = {storedTab'}
      BY <2>1, <3>1, TabsAfterAnchor DEF Sections
    <3>4. CASE tab' = tab /\ body' = body /\ storedTab' = storedTab
      <4>1. foreignTab' <=> foreignTab
        BY <3>2, <3>4
      <4> QED
        BY <2>1, <3>4, <4>1 DEF TabsInv, Loaded
    <3>5. CASE storedTab' \in KeysOf(document) /\ tab' = {storedTab'} /\ body' = {storedTab'}
      BY <2>1, <3>5 DEF TabsInv
    <3> QED
      BY <3>3, <3>4, <3>5
  <2> QED
    BY <2>2, <2>3
<1>5. CASE OtherPage
  <2>1. document' = document /\ readyState' = readyState /\ tab' = tab /\ body' = body
    BY <1>5 DEF OtherPage
  <2>2. foreignTab' \/ (foreignTab' = foreignTab /\ storedTab' = storedTab)
    BY <1>5, <2>1, Bounds DEF OtherPage
  <2> QED
    BY <2>1, <2>2 DEF TabsInv, Loaded
<1>6. CASE DOMContentLoaded
  BY <1>6 DEF DOMContentLoaded, TabsInv, Loaded, sections
<1>7. CASE \/ EvaluateHandler \/ EvaluateNavigation \/ ScrollTimer \/ ToggleTheme
           \/ (\E h \in Anchors \cup {NoHash} : ChangeHash(h))
           \/ DisplayNavigation \/ (\E succeeds \in BOOLEAN : Copy(succeeds)) \/ PopupTimer
           \/ UNCHANGED vars
  <2>1. Kept
    BY <1>7 DEF EvaluateHandler, EvaluateNavigation, ScrollTimer, ToggleTheme, ChangeHash,
                DisplayNavigation, Copy, PopupTimer, vars
  <2> QED
    BY <2>1 DEF TabsInv, Loaded, sections
<1> QED
  BY <1>1, <1>2, <1>3, <1>4, <1>5, <1>6, <1>7 DEF Next

(* Every step keeps the theme and the store together: a page opens with    *)
(* the stored theme and stores what it shows.                              *)
LEMMA ThemeKept == TypeInv /\ ThemeAsStored /\ [Next]_vars => ThemeAsStored'
<1> SUFFICES ASSUME TypeInv, ThemeAsStored, [Next]_vars
             PROVE  ThemeAsStored'
  OBVIOUS
<1>1. ASSUME NEW d \in Documents, NEW h \in Anchors \cup {NoHash}, Open(d, h)
      PROVE  ThemeAsStored'
  BY <1>1 DEF Open, ThemeAsStored
<1>2. CASE ToggleTheme
  BY <1>2 DEF ToggleTheme, ThemeAsStored
<1>3. CASE OtherPage
  BY <1>3 DEF OtherPage, ThemeAsStored
<1>4. CASE HashChange
  BY <1>4 DEF HashChange, ThemeAsStored, theme
<1>5. CASE \/ EvaluateHandler \/ EvaluateNavigation \/ DOMContentLoaded \/ Load
           \/ (\E k \in Keys : ClickTab(k)) \/ ScrollTimer
           \/ (\E h \in Anchors \cup {NoHash} : ChangeHash(h))
           \/ DisplayNavigation \/ (\E succeeds \in BOOLEAN : Copy(succeeds)) \/ PopupTimer
           \/ UNCHANGED vars
  <2>1. UNCHANGED <<document, theme>>
    BY <1>5 DEF EvaluateHandler, EvaluateNavigation, DOMContentLoaded, Load, ClickTab,
                ScrollTimer, ChangeHash, DisplayNavigation, Copy, PopupTimer, vars
  <2> QED
    BY <2>1 DEF ThemeAsStored, theme
<1> QED
  BY <1>1, <1>2, <1>3, <1>4, <1>5 DEF Next

(* A page shows as many tabs as are active in its markup: one, or none if  *)
(* it has none.                                                            *)
LEMMA OneTabShown ==
  ASSUME document \in Documents, TabsInv
  PROVE  Cardinality(tab) = Cardinality(Markup(document))
<1>1. CASE tab = Markup(document)
  BY <1>1
<1>2. CASE \E k \in KeysOf(document) : tab = {k}
  <2>1. PICK k : tab = {k}
    BY <1>2
  <2>2. PICK m : Markup(document) = {m}
    BY <1>2, MarkupIsTab
  <2> QED
    BY <2>1, <2>2, FS_Singleton
<1> QED
  BY <1>1, <1>2 DEF TabsInv

(* A loaded page shows one tab and its body, the stored one if it has it,  *)
(* and from its first moment on the stored theme, for any pages with any   *)
(* tabs and anchors, until another page of the site writes.                *)
THEOREM StoredIsShown == Spec => []ShownAsStored
<1>1. Init => TabsInv /\ ThemeAsStored
  BY Bounds DEF Init, TabsInv, ThemeAsStored
<1>2. TypeInv /\ TabsInv /\ ThemeAsStored => ShownAsStored
  <2> SUFFICES ASSUME TypeInv, TabsInv, Loaded
               PROVE  TabAsStored
    BY DEF ShownAsStored, TabAsStored
  <2>1. document \in Documents
    BY DEF TypeInv, Stages, Loaded
  <2>2. body = tab
    BY <2>1 DEF TabsInv
  <2>3. ~foreignTab =>
          tab = IF storedTab \in KeysOf(document) THEN {storedTab} ELSE Markup(document)
    BY <2>1 DEF TabsInv
  <2> QED
    BY <2>1, <2>2, <2>3, OneTabShown DEF TabAsStored
<1> QED
  BY <1>1, <1>2, TypesInvariant, TabsKept, ThemeKept, PTL DEF Spec

-----------------------------------------------------------------------------
(* The anchor of the hash *)

(* What is highlighted is the anchor the variable remembers, or nothing.   *)
HighlightInv ==
  highlighted = IF highlightedAnchor = NoHash THEN {} ELSE {highlightedAnchor}

(* Once no event waits the anchor of the hash is the highlighted one; it   *)
(* can be seen until a tab is clicked, and the page has been scrolled to   *)
(* it or a timer will do so.                                               *)
AnchorInv ==
  Settled =>
    /\ highlighted = {hash} \cap AnchorsOf[document]
    /\ hash \in AnchorsOf[document] /\ ~left =>
         /\ Visible(hash, tab)
         /\ reached \/ \E i \in 1..Len(timers) : timers[i] = hash

(* Handling the anchor leaves just it highlighted, visible, and reached    *)
(* now or later.                                                           *)
LEMMA AnchorHandled ==
  ASSUME TypeInv, HighlightInv, document \in Documents,
         NEW found \in BOOLEAN, found => hash \in AnchorsOf[document],
         NEW s, NEW ready \in BOOLEAN, HandleAnchor(found, s, ready)
  PROVE  /\ highlighted' = IF found THEN {hash} ELSE {}
         /\ highlightedAnchor' = IF found THEN hash ELSE NoHash
         /\ found => hash # NoHash
         /\ found => /\ Visible(hash, tab')
                     /\ reached' \/ \E i \in 1..Len(timers') : timers'[i] = hash
<1>1. found => hash # NoHash
  BY PageAssumption
<1>2. highlighted \ {highlightedAnchor} = {}
  BY DEF HighlightInv
<1>3. /\ highlighted' = IF found THEN {hash} ELSE {}
      /\ highlightedAnchor' = IF found THEN hash ELSE NoHash
  BY <1>2 DEF HandleAnchor
<1>4. found => Visible(hash, tab')
  BY TabsAfterAnchor
<1>5. found /\ ready => reached'
  BY <1>4 DEF HandleAnchor, ScrollToElement
<1>6. ASSUME found, ~ready
      PROVE  \E i \in 1..Len(timers') : timers'[i] = hash
  <2>1. timers \in Seq(Anchors) /\ hash \in Anchors
    BY <1>6, PageAssumption DEF TypeInv, TypeOK
  <2>2. timers' = Append(timers, hash)
    BY <1>6 DEF HandleAnchor, ScrollToElement
  <2>3. Len(timers) + 1 \in 1..Len(timers') /\ timers'[Len(timers) + 1] = hash
    BY <2>1, <2>2
  <2> QED
    BY <2>3
<1> QED
  BY <1>1, <1>3, <1>4, <1>5, <1>6

(* Every step keeps the account of the anchor. *)
LEMMA AnchorKept ==
  TypeInv /\ HighlightInv /\ AnchorInv /\ [Next]_vars => HighlightInv' /\ AnchorInv'
<1> SUFFICES ASSUME TypeInv, HighlightInv, AnchorInv, [Next]_vars
             PROVE  HighlightInv' /\ AnchorInv'
  OBVIOUS
<1> DEFINE Kept == UNCHANGED <<document, readyState, hash, events, tab, anchor>>
<1>1. ASSUME NEW d \in Documents, NEW h \in Anchors \cup {NoHash}, Open(d, h)
      PROVE  HighlightInv' /\ AnchorInv'
  BY <1>1 DEF Open, HighlightInv, AnchorInv, Settled, Loaded
<1>2. CASE Load
  <2> DEFINE s == InitTabs(Sections)
  <2>1. /\ document' = document /\ hash' = hash
        /\ HandleAnchor(hash \in AnchorsOf[document], s, FALSE)
    BY <1>2 DEF Load
  <2>2. document \in Documents
    BY <1>2 DEF Load, TypeInv, Stages
  <2>3. PICK found \in BOOLEAN : found <=> hash \in AnchorsOf[document]
    BY Zenon
  <2> HIDE DEF s
  <2>4. HandleAnchor(found, s, FALSE)
    BY <2>1, <2>3 DEF HandleAnchor, SectionsAt
  <2>5. /\ highlighted' = IF found THEN {hash} ELSE {}
        /\ highlightedAnchor' = IF found THEN hash ELSE NoHash
        /\ found => hash # NoHash
        /\ found => /\ Visible(hash, tab')
                    /\ reached' \/ \E i \in 1..Len(timers') : timers'[i] = hash
    BY <2>2, <2>3, <2>4, AnchorHandled
  <2>6. HighlightInv'
    BY <2>5 DEF HighlightInv
  <2>7. AnchorInv'
    BY <2>1, <2>3, <2>5 DEF AnchorInv, Visible
  <2> QED
    BY <2>6, <2>7
<1>3. CASE HashChange
  <2>1. document' = document /\ hash' = hash /\ readyState' = readyState
        /\ events' = events - 1 /\ events > 0 /\ events \in Nat
    BY <1>3 DEF HashChange, TypeInv, TypeOK
  <2>2. CASE ~evaluated
    <3>1. UNCHANGED anchor /\ ~Loaded'
      BY <1>3, <2>1, <2>2 DEF HashChange, TypeInv, Stages, Loaded
    <3> QED
      BY <3>1 DEF HighlightInv, AnchorInv, Settled, anchor
  <2>3. CASE evaluated
    <3>1. PICK found \in BOOLEAN :
            /\ found => hash \in AnchorsOf[document]
            /\ Loaded /\ hash \in AnchorsOf[document] => found
            /\ HandleAnchor(found, Sections, Loaded)
      BY <1>3, <2>3 DEF HashChange, Loaded
    <3>2. document \in Documents /\ Loaded \in BOOLEAN
      BY <2>3 DEF TypeInv, Stages, Loaded
    <3>3. /\ highlighted' = IF found THEN {hash} ELSE {}
          /\ highlightedAnchor' = IF found THEN hash ELSE NoHash
          /\ found => hash # NoHash
          /\ found => /\ Visible(hash, tab')
                      /\ reached' \/ \E i \in 1..Len(timers') : timers'[i] = hash
      BY <3>1, <3>2, AnchorHandled
    <3>4. HighlightInv'
      BY <3>3 DEF HighlightInv
    <3>5. AnchorInv'
      <4> SUFFICES ASSUME Settled' PROVE AnchorInv'
        BY DEF AnchorInv
      <4>1. found <=> hash \in AnchorsOf[document]
        BY <2>1, <3>1 DEF Settled, Loaded
      <4> QED
        BY <2>1, <3>3, <4>1 DEF AnchorInv, Visible
    <3> QED
      BY <3>4, <3>5
  <2> QED
    BY <2>2, <2>3
<1>4. ASSUME NEW k \in Keys, ClickTab(k)
      PROVE  HighlightInv' /\ AnchorInv'
  BY <1>4 DEF ClickTab, HighlightInv, AnchorInv, Settled, Loaded
<1>5. ASSUME NEW h \in Anchors \cup {NoHash}, ChangeHash(h)
      PROVE  HighlightInv' /\ AnchorInv'
  BY <1>5 DEF ChangeHash, HighlightInv, AnchorInv, Settled, TypeInv, TypeOK
<1>6. CASE ScrollTimer
  <2>1. /\ UNCHANGED <<document, readyState, hash, events, sections, highlighted,
                       highlightedAnchor, left>>
        /\ timers # <<>> /\ timers' = Tail(timers)
        /\ reached' = (reached \/ (Loaded /\ Head(timers) = hash /\ Visible(hash, tab)))
    BY <1>6 DEF ScrollTimer
  <2>2. HighlightInv'
    BY <2>1 DEF HighlightInv
  <2>3. ASSUME Settled, hash \in AnchorsOf[document], ~left
        PROVE  reached' \/ \E i \in 1..Len(timers') : timers'[i] = hash
    <3>1. Visible(hash, tab) /\ (reached \/ \E i \in 1..Len(timers) : timers[i] = hash)
      BY <2>3 DEF AnchorInv
    <3>2. ASSUME NEW i \in 1..Len(timers), timers[i] = hash, i # 1
          PROVE  \E j \in 1..Len(timers') : timers'[j] = hash
      <4>1. timers \in Seq(Anchors)
        BY DEF TypeInv, TypeOK
      <4>2. i - 1 \in 1..Len(timers') /\ timers'[i - 1] = timers[i]
        BY <2>1, <3>2, <4>1
      <4> QED
        BY <3>2, <4>2
    <3>3. timers[1] = hash => reached'
      <4>1. Head(timers) = timers[1]
        BY <2>1 DEF TypeInv, TypeOK
      <4> QED
        BY <2>1, <2>3, <3>1, <4>1 DEF Settled
    <3> QED
      BY <2>1, <3>1, <3>2, <3>3
  <2>4. AnchorInv'
    BY <2>1, <2>3 DEF AnchorInv, Settled, Loaded, sections, Visible
  <2> QED
    BY <2>2, <2>4
<1>7. CASE DOMContentLoaded
  BY <1>7 DEF DOMContentLoaded, HighlightInv, AnchorInv, Settled, Loaded, anchor
<1>8. CASE \/ EvaluateHandler \/ EvaluateNavigation \/ ToggleTheme \/ OtherPage
           \/ DisplayNavigation \/ (\E succeeds \in BOOLEAN : Copy(succeeds)) \/ PopupTimer
           \/ UNCHANGED vars
  <2>1. Kept
    BY <1>8 DEF EvaluateHandler, EvaluateNavigation, ToggleTheme, OtherPage,
                DisplayNavigation, Copy, PopupTimer, vars, sections
  <2> QED
    BY <2>1 DEF HighlightInv, AnchorInv, Settled, Loaded, Visible, anchor
<1> QED
  BY <1>1, <1>2, <1>3, <1>4, <1>5, <1>6, <1>7, <1>8 DEF Next

(* Once no hashchange event waits, the anchor of the hash is highlighted   *)
(* and no other, and until a tab is clicked it is visible and, when no     *)
(* timer is left, has been scrolled to; for any pages and anchors, however *)
(* often the hash changes and whenever the scripts run.                    *)
THEOREM AnchorIsShown == Spec => []AnchorShown
<1>1. Init => HighlightInv /\ AnchorInv
  BY DEF Init, HighlightInv, AnchorInv, Settled, Loaded
<1>2. TypeInv /\ AnchorInv => AnchorShown
  BY DEF AnchorInv, AnchorShown, TypeInv, TypeOK
<1> QED
  BY <1>1, <1>2, TypesInvariant, AnchorKept, PTL DEF Spec

-----------------------------------------------------------------------------
(* Where the menu opens *)

(* Of two pieces of an id the longer one is tried first: no two are as     *)
(* long as each other.                                                     *)
LEMMA PiecesDiffer ==
  ASSUME NEW id \in Seq(Atoms), NEW p \in IdsTried(id), NEW q \in IdsTried(id),
         Len(p) = Len(q)
  PROVE  p = q
<1>1. ASSUME NEW piece \in IdsTried(id)
      PROVE  piece = id \/ \E i \in 1..Len(id) : piece = SubSeq(id, 1, i - 1) /\ Len(piece) = i - 1
  <2>1. CASE piece = id
    BY <2>1
  <2>2. CASE \E i \in DOMAIN id : piece = SubSeq(id, 1, i - 1)
    <3>1. PICK i \in 1..Len(id) : piece = SubSeq(id, 1, i - 1)
      BY <2>2
    <3>2. Len(piece) = i - 1
      BY <3>1
    <3> QED
      BY <3>1, <3>2
  <2> QED
    BY <2>1, <2>2 DEF IdsTried
<1>2. Len(id) \in Nat
  OBVIOUS
<1>3. CASE p = id
  BY <1>1, <1>2, <1>3
<1>4. CASE \E i \in 1..Len(id) : p = SubSeq(id, 1, i - 1) /\ Len(p) = i - 1
  <2>1. PICK i \in 1..Len(id) : p = SubSeq(id, 1, i - 1) /\ Len(p) = i - 1
    BY <1>4
  <2>2. q # id
    BY <1>2, <2>1
  <2>3. PICK j \in 1..Len(id) : q = SubSeq(id, 1, j - 1) /\ Len(q) = j - 1
    BY <1>1, <2>2
  <2>4. i = j
    BY <1>2, <2>1, <2>3
  <2> QED
    BY <2>1, <2>3, <2>4
<1> QED
  BY <1>1, <1>3, <1>4

(* Cutting an id at its slashes and taking the first part found leads to   *)
(* the part of the page: of a part and those within it the part is first.  *)
LEMMA RevealsPart ==
  ASSUME MenuListsPages, NEW d \in Documents
  PROVE  RevealedOn[d] = LET n == MenuPart[d] IN IF n = 0 THEN {} ELSE {n} \cup Menu[n].above
<1> DEFINE id == PageId[d]
           n == MenuPart[d]
           partsOf(piece) == {m \in DOMAIN Menu : Occurs(piece, Menu[m].id)}
           found == {piece \in IdsTried(id) : partsOf(piece) # {}}
           longest == CHOOSE piece \in found : \A other \in found : Len(other) <= Len(piece)
           first == CHOOSE m \in partsOf(longest) : \A k \in partsOf(longest) : m <= k
<1>1. RevealedOn[d] = IF found = {} THEN {} ELSE {first} \cup Menu[first].above
  BY DEF RevealedOn, Revealed, RevealParents
<1>2. id \in Seq(Atoms) /\ DOMAIN Menu = 1..Len(Menu) /\ Len(Menu) \in Nat
  BY PageAssumption
<1>3. \A piece : partsOf(piece) \subseteq DOMAIN Menu
  OBVIOUS
<1> HIDE DEF partsOf
<1>4. CASE n = 0
  <2>1. \A piece \in IdsTried(id) : partsOf(piece) = {}
    BY <1>4 DEF MenuListsPages, partsOf
  <2>2. found = {}
    BY <2>1
  <2> QED
    BY <1>1, <1>4, <2>2
<1>5. CASE n # 0
  <2>1. PICK piece \in IdsTried(id) :
          /\ n \in partsOf(piece)
          /\ \A m \in partsOf(piece) : m = n \/ n \in Menu[m].above
          /\ \A longer \in IdsTried(id) : Len(longer) > Len(piece) => partsOf(longer) = {}
    BY <1>5 DEF MenuListsPages, partsOf
  <2>2. piece \in found
    BY <2>1
  <2>3. \A other \in found : Len(other) \in Nat
    BY <1>2, PiecesShorter
  <2>4. \A other \in found : Len(other) <= Len(piece)
    BY <2>1, <2>2, <2>3
  <2>5. longest \in found /\ \A other \in found : Len(other) <= Len(longest)
    <3> HIDE DEF found
    <3> QED
      BY <2>2, <2>4
  <2>6. longest = piece
    <3>1. Len(longest) = Len(piece)
      <4> HIDE DEF longest
      <4> QED
        BY <2>2, <2>3, <2>4, <2>5
    <3> HIDE DEF longest
    <3> QED
      BY <1>2, <2>1, <2>5, <3>1, PiecesDiffer
  <2>7. \A m \in partsOf(piece) : n <= m
    <3>1. ASSUME NEW m \in partsOf(piece), n \in Menu[m].above
          PROVE  n <= m
      <4>1. m \in 1..Len(Menu) /\ Menu[m].above \subseteq 1..(m - 1)
        BY <1>2, <1>3, PageAssumption
      <4> QED
        BY <1>2, <3>1, <4>1
    <3>2. n \in Nat
      BY <1>2, <1>3, <2>1
    <3> QED
      BY <2>1, <3>1, <3>2
  <2>8. first = n
    <3>1. \A m \in partsOf(piece) : m \in Nat
      BY <1>2, <1>3
    <3>2. \E m \in partsOf(piece) : \A k \in partsOf(piece) : m <= k
      BY <2>1, <2>7
    <3>3. first \in partsOf(piece) /\ \A k \in partsOf(piece) : first <= k
      <4> HIDE DEF longest
      <4> QED
        BY <2>6, <3>2
    <3> HIDE DEF first
    <3> QED
      BY <2>1, <2>7, <3>1, <3>3
  <2> HIDE DEF first, found, longest
  <2> QED
    BY <1>1, <1>5, <2>2, <2>8
<1> QED
  BY <1>4, <1>5

(* A menu that is shown is shown in a document, as it was when it arrived. *)
MenuInv == navigation = "shown" => document \in Documents /\ revealed = RevealedOn[document]

(* Every step keeps what the menu reveals, except that a new document has  *)
(* no menu yet.                                                            *)
LEMMA MenuKept == TypeInv /\ MenuInv /\ [Next]_vars => MenuInv'
<1> SUFFICES ASSUME TypeInv, MenuInv, [Next]_vars
             PROVE  MenuInv'
  OBVIOUS
<1>1. ASSUME NEW d \in Documents, NEW h \in Anchors \cup {NoHash}, Open(d, h)
      PROVE  MenuInv'
  BY <1>1 DEF Open, MenuInv
<1>2. CASE DisplayNavigation
  BY <1>2 DEF DisplayNavigation, MenuInv, TypeInv, Stages
<1>3. CASE EvaluateNavigation
  BY <1>3 DEF EvaluateNavigation, MenuInv
<1>4. CASE DOMContentLoaded
  BY <1>4 DEF DOMContentLoaded, MenuInv
<1>5. CASE \/ EvaluateHandler \/ Load \/ (\E k \in Keys : ClickTab(k))
           \/ (\E h \in Anchors \cup {NoHash} : ChangeHash(h))
           \/ HashChange \/ ScrollTimer \/ ToggleTheme \/ OtherPage
           \/ (\E succeeds \in BOOLEAN : Copy(succeeds)) \/ PopupTimer \/ UNCHANGED vars
  <2>1. UNCHANGED <<document, menu>>
    BY <1>5 DEF EvaluateHandler, Load, ClickTab, ChangeHash, HashChange, ScrollTimer,
                ToggleTheme, OtherPage, Copy, PopupTimer, vars
  <2> QED
    BY <2>1 DEF MenuInv, menu
<1> QED
  BY <1>1, <1>2, <1>3, <1>4, <1>5 DEF Next

(* Whenever the scripts run and the menu arrives, and though documents     *)
(* replace one another, a menu that is shown opens at the part of the page *)
(* in the window and is visible from there to its root, in any site whose  *)
(* menu lists a page, or the class it is a member of, together.            *)
THEOREM MenuOpens ==
  ASSUME MenuListsPages
  PROVE  Spec => []MenuOpensAtPage
<1>1. Init => MenuInv
  BY DEF Init, MenuInv
<1>2. MenuInv => MenuOpensAtPage
  BY RevealsPart DEF MenuInv, MenuOpensAtPage
<1> QED
  BY <1>1, <1>2, TypesInvariant, MenuKept, PTL DEF Spec

(* A listener is registered while the event is still to come, or else none *)
(* is registered and the menu is asked for at once: no order of parsing    *)
(* and evaluation leaves navigation-loader.js waiting for an event that is *)
(* past.  This is what MenuComesUp rests on besides fairness.              *)
THEOREM ListensInTime == Spec => [](navigation = "listening" => readyState = "loading")
<1> DEFINE Heard == navigation = "listening" => readyState = "loading"
<1>1. Init => Heard
  BY DEF Init
<1>2. Heard /\ [Next]_vars => Heard'
  <2> SUFFICES ASSUME Heard, [Next]_vars
               PROVE  Heard'
    OBVIOUS
  <2>1. ASSUME NEW d \in Documents, NEW h \in Anchors \cup {NoHash}, Open(d, h)
        PROVE  Heard'
    BY <2>1 DEF Open
  <2>2. CASE EvaluateNavigation \/ DOMContentLoaded \/ DisplayNavigation
    BY <2>2 DEF EvaluateNavigation, DOMContentLoaded, DisplayNavigation
  <2>3. CASE Load
    BY <2>3 DEF Load, menu
  <2>4. CASE \/ EvaluateHandler \/ (\E k \in Keys : ClickTab(k))
             \/ (\E h \in Anchors \cup {NoHash} : ChangeHash(h))
             \/ HashChange \/ ScrollTimer \/ ToggleTheme \/ OtherPage
             \/ (\E succeeds \in BOOLEAN : Copy(succeeds)) \/ PopupTimer \/ UNCHANGED vars
    <3>1. UNCHANGED <<readyState, menu>>
      BY <2>4 DEF EvaluateHandler, ClickTab, ChangeHash, HashChange, ScrollTimer,
                  ToggleTheme, OtherPage, Copy, PopupTimer, vars
    <3> QED
      BY <3>1 DEF menu
  <2> QED
    BY <2>1, <2>2, <2>3, <2>4 DEF Next
<1> QED
  BY <1>1, <1>2, PTL DEF Spec

=============================================================================
