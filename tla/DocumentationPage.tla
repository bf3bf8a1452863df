--------------------------- MODULE DocumentationPage ---------------------------
(***************************************************************************)
(* A page of the documentation site in a browser: its tabs, the anchor it  *)
(* is opened at, its theme, its menu and its copy buttons                  *)
(* (docs/scripts/platform-content-handler.js, navigation-loader.js,        *)
(* clipboard.js).  The scripts are loaded asynchronously, so they may run  *)
(* at any moment up to the load event; hashchange events, timers and the   *)
(* answer to a fetch come later; and the chosen tab and theme are kept in  *)
(* localStorage, which other pages of the site write too.                  *)
(*                                                                         *)
(* One window is modelled in detail, in which one document replaces        *)
(* another; of the others, what they write.  SourceSetFilter has the part  *)
(* of the first script that filters source sets.                           *)
(***************************************************************************)
EXTENDS Naturals, Sequences, FiniteSets

CONSTANTS
  Documents,    \* the pages of the site
  Keys,         \* data-togglable of the tabs of all pages
  Tabs,         \* the tabs of each page, in order; the first is active in the markup
  Anchors,      \* names of anchors
  AnchorsOf,    \* those each page has
  AnchorTab,    \* the tab whose body an anchor is in, or NoTab
  Atoms, Slash, \* what page ids are made of, among it "/"
  PageId,       \* pageIds of each page, a sequence of atoms
  Menu,         \* the sideMenuParts in document order: page id, enclosing parts
  MenuPart,     \* the part a page belongs to; 0 for nested types and their members
  MaxTimers,    \* bound: hashchange events and scroll timers that wait at a time
  MaxPopups,    \* bound: timers of the copy popup that wait at a time
  NoTab, NoHash, NoDocument

ASSUME PageAssumption ==
  /\ Tabs \in [Documents -> Seq(Keys)]
  /\ AnchorsOf \in [Documents -> SUBSET Anchors]
  /\ \A d \in Documents : \A a \in AnchorsOf[d] :
       AnchorTab[a] = NoTab \/ \E i \in DOMAIN Tabs[d] : Tabs[d][i] = AnchorTab[a]
  /\ PageId \in [Documents -> Seq(Atoms)]
  /\ Menu \in Seq([id : Seq(Atoms), above : SUBSET Nat])
  /\ \A n \in DOMAIN Menu : Menu[n].above \subseteq 1..(n - 1)
  /\ MenuPart \in [Documents -> 0..Len(Menu)]
  /\ MaxTimers \in Nat /\ MaxPopups \in Nat
  /\ NoTab \notin Keys /\ NoHash \notin Anchors /\ NoDocument \notin Documents

VARIABLES
  storedTab,   \* localStorage 'active-tab', or NoTab
  storedDark,  \* localStorage 'dokka-dark-mode'
  document,    \* the page in the window
  readyState,  \* its document.readyState
  evaluated,   \* platform-content-handler.js has been evaluated in it
  hash,        \* window.location.hash
  events,      \* hashchange events not handled yet
  tab, body,   \* tabs and bodies with data-active
  highlighted, highlightedAnchor,  \* contents with anchor-highlight; the variable
  timers,      \* waitAndScroll timers: the anchors to scroll to
  dark,        \* class theme-dark
  navigation,  \* navigation-loader.js: not evaluated, listening, asked, shown
  revealed,    \* menu parts without the class hidden
  popup, popupTimers,  \* a copy icon's active-popup, and timers to remove it
  reached,     \* history: scrolled to the anchor since it became the hash
  left,        \* history: a tab was clicked since the anchor was handled
  foreignTab, foreignDark  \* history: other pages wrote since this one read, and
                           \* took over, or wrote

sections == <<tab, body, storedTab, foreignTab>>
theme    == <<dark, storedDark, foreignDark>>
anchor   == <<highlighted, highlightedAnchor, timers, reached, left>>
menu     == <<navigation, revealed>>
copying  == <<popup, popupTimers>>
vars == <<document, readyState, evaluated, hash, events, sections, theme, anchor, menu,
          copying>>

KeysOf(d) == {Tabs[d][i] : i \in DOMAIN Tabs[d]}
Markup(d) == IF Tabs[d] = <<>> THEN {} ELSE {Tabs[d][1]}

Loaded == readyState = "complete"

Init ==
  /\ storedTab = NoTab
  /\ storedDark = FALSE
  /\ document = NoDocument
  /\ readyState = "none"
  /\ evaluated = FALSE
  /\ hash = NoHash
  /\ events = 0
  /\ tab = {} /\ body = {}
  /\ highlighted = {} /\ highlightedAnchor = NoHash
  /\ timers = <<>>
  /\ dark = FALSE
  /\ navigation = "none" /\ revealed = {}
  /\ popup = FALSE /\ popupTimers = 0
  /\ reached = FALSE /\ left = FALSE
  /\ foreignTab = FALSE /\ foreignDark = FALSE

-----------------------------------------------------------------------------
(* The document *)

(* A link or a reload brings a new document, with or without an anchor.    *)
(* The script in its head sets the theme at once.                          *)
Open(d, h) ==
  /\ document' = d
  /\ readyState' = "loading"
  /\ evaluated' = FALSE
  /\ hash' = h
  /\ events' = 0
  /\ tab' = Markup(d) /\ body' = {}
  /\ highlighted' = {} /\ highlightedAnchor' = NoHash
  /\ timers' = <<>>
  /\ dark' = storedDark
  /\ navigation' = "none" /\ revealed' = {}
  /\ popup' = FALSE /\ popupTimers' = 0
  /\ reached' = FALSE /\ left' = FALSE
  /\ foreignTab' = FALSE /\ foreignDark' = FALSE
  /\ UNCHANGED <<storedTab, storedDark>>

EvaluateHandler ==
  /\ readyState \in {"loading", "interactive"}
  /\ ~evaluated
  /\ evaluated' = TRUE
  /\ UNCHANGED <<document, readyState, hash, events, sections, theme, anchor, menu, copying>>

(* The document is parsed: DOMContentLoaded. *)
DOMContentLoaded ==
  /\ readyState = "loading"
  /\ readyState' = "interactive"
  /\ navigation' = IF navigation = "listening" THEN "asked" ELSE navigation
  /\ UNCHANGED <<document, evaluated, hash, events, sections, theme, anchor, revealed, copying>>

-----------------------------------------------------------------------------
(* Tabs *)

Sections == [tab |-> tab, body |-> body, stored |-> storedTab]

SetSections(s) == tab' = s.tab /\ body' = s.body /\ storedTab' = s.stored

(* Faulty variants: definitions named Faulty... are plausible mistakes in  *)
(* the definition that follows them, and are never part of Next.           *)
FaultyToggleUnstored(s, k) == [tab |-> {k}, body |-> {k}, stored |-> s.stored]

(* toggleSections: tabs and bodies with this key, and no others; stored. *)
ToggleSections(s, k) == [tab |-> {k}, body |-> {k}, stored |-> k]

(* initTabs: the body of the tab that is active, then the stored tab, if   *)
(* the page has it.                                                        *)
InitTabs(s) ==
  LET shown == [s EXCEPT !.body = @ \cup s.tab]
  IN IF s.stored \in KeysOf(document) THEN ToggleSections(shown, s.stored) ELSE shown

ClickTab(k) ==
  /\ Loaded
  /\ k \in KeysOf(document)
  /\ SetSections(ToggleSections(Sections, k))
  /\ left' = TRUE
  /\ foreignTab' = FALSE
  /\ UNCHANGED <<document, readyState, evaluated, hash, events, theme, highlighted,
                 highlightedAnchor, timers, reached, menu, copying>>

-----------------------------------------------------------------------------
(* Anchors *)

(* Scrolling to an element of a body that is not shown leads nowhere.      *)
Visible(h, active) == AnchorTab[h] = NoTab \/ active = {AnchorTab[h]}

(* The sections handleAnchor leaves: those of the anchor found.            *)
SectionsAt(h, found, s) ==
  IF found /\ AnchorTab[h] # NoTab THEN ToggleSections(s, AnchorTab[h]) ELSE s

FaultyScrollToElement(h, ready) ==
  /\ reached' = (reached \/ (ready /\ Visible(h, tab')))
  /\ UNCHANGED timers

(* scrollToElementInContent: at once, or in 50 ms while the height of the  *)
(* bar at the top is not known.                                            *)
ScrollToElement(h, ready) ==
  /\ reached' = (reached \/ (ready /\ Visible(h, tab')))
  /\ timers' = IF ready THEN timers ELSE Append(timers, h)

(* handleAnchor, for the hash of now: highlight, tab and scroll position.  *)
HandleAnchor(found, s, ready) ==
  /\ SetSections(SectionsAt(hash, found, s))
  /\ highlighted' = (highlighted \ {highlightedAnchor}) \cup (IF found THEN {hash} ELSE {})
  /\ highlightedAnchor' = IF found THEN hash ELSE NoHash
  /\ IF found THEN ScrollToElement(hash, ready) ELSE UNCHANGED <<reached, timers>>
  /\ left' = FALSE

(* The load event, which the scripts precede: listeners, initTabs,         *)
(* handleAnchor, and only then topNavbarOffset.                            *)
Load ==
  /\ readyState = "interactive"
  /\ evaluated
  /\ navigation # "none"
  /\ readyState' = "complete"
  /\ HandleAnchor(hash \in AnchorsOf[document], InitTabs(Sections), FALSE)
  /\ foreignTab' = (foreignTab /\ storedTab' \notin KeysOf(document))
  /\ UNCHANGED <<document, evaluated, hash, events, theme, menu, copying>>

(* A link within the page, or the browser's back button. *)
ChangeHash(h) ==
  /\ document # NoDocument
  /\ h # hash
  /\ events + Len(timers) < MaxTimers
  /\ hash' = h
  /\ events' = events + 1
  /\ reached' = FALSE
  /\ UNCHANGED <<document, readyState, evaluated, sections, theme, highlighted,
                 highlightedAnchor, timers, left, menu, copying>>

(* The hashchange event: nobody listens before the script is evaluated.    *)
(* In a document not parsed yet the anchor may or may not be there.        *)
HashChange ==
  /\ events > 0
  /\ events' = events - 1
  /\ IF evaluated
       THEN /\ \E found \in IF hash \notin AnchorsOf[document] THEN {FALSE}
                            ELSE IF readyState = "loading" THEN BOOLEAN ELSE {TRUE} :
                 HandleAnchor(found, Sections, Loaded)
            /\ foreignTab' = (foreignTab /\ storedTab' = storedTab)
       ELSE UNCHANGED <<sections, anchor>>
  /\ UNCHANGED <<document, readyState, evaluated, hash, theme, menu, copying>>

(* A timer of waitAndScroll.  Before the load event it calls a function    *)
(* that does not exist, and nothing is scrolled.                           *)
ScrollTimer ==
  /\ timers # <<>>
  /\ timers' = Tail(timers)
  /\ reached' = (reached \/ (Loaded /\ Head(timers) = hash /\ Visible(hash, tab)))
  /\ UNCHANGED <<document, readyState, evaluated, hash, events, sections, theme, highlighted,
                 highlightedAnchor, left, menu, copying>>

-----------------------------------------------------------------------------
(* The theme *)

(* The listener of darkModeSwitch: what is stored is the class as it is    *)
(* now, not the stored value turned round.                                 *)
ToggleTheme ==
  /\ Loaded
  /\ dark' = ~dark
  /\ storedDark' = ~dark
  /\ foreignDark' = FALSE
  /\ UNCHANGED <<document, readyState, evaluated, hash, events, sections, anchor, menu, copying>>

(* Another page of the site stores a tab of its own, or a theme. *)
OtherPage ==
  /\ \/ /\ \E k \in Keys : storedTab' = k
        /\ foreignTab' = (document # NoDocument)
        /\ UNCHANGED <<storedDark, foreignDark>>
     \/ /\ storedDark' \in BOOLEAN
        /\ foreignDark' = (document # NoDocument)
        /\ UNCHANGED <<storedTab, foreignTab>>
  /\ UNCHANGED <<document, readyState, evaluated, hash, events, tab, body, dark, anchor, menu,
                 copying>>

-----------------------------------------------------------------------------
(* The menu *)

FaultyEvaluateNavigation ==
  /\ readyState \in {"loading", "interactive"}
  /\ navigation = "none"
  /\ navigation' = "listening"
  /\ UNCHANGED <<document, readyState, evaluated, hash, events, sections, theme, anchor,
                 revealed, copying>>

(* navigation-loader.js: the menu is fetched; it is displayed when         *)
(* DOMContentLoaded comes, or at once if that is past.                     *)
EvaluateNavigation ==
  /\ readyState \in {"loading", "interactive"}
  /\ navigation = "none"
  /\ navigation' = IF readyState = "loading" THEN "listening" ELSE "asked"
  /\ UNCHANGED <<document, readyState, evaluated, hash, events, sections, theme, anchor,
                 revealed, copying>>

(* String.indexOf(id) # -1 *)
Occurs(id, s) == \E i \in 0..Len(s) : i + Len(id) <= Len(s) /\ SubSeq(s, i + 1, i + Len(id)) = id

(* The page id, and what is left of it while it is cut at its last slash   *)
(* and has another one.                                                    *)
IdsTried(id) ==
  {id} \cup {SubSeq(id, 1, i - 1) :
               i \in {j \in DOMAIN id : id[j] = Slash /\ \E k \in 1..(j - 1) : id[k] = Slash}}

FaultyRevealParents(n) == {n}

(* revealParents: a part of the menu and those around it. *)
RevealParents(n) == {n} \cup Menu[n].above

(* revealNavigationForCurrentPage: the first part of the menu in whose id  *)
(* the longest possible piece occurs.                                      *)
Revealed(id) ==
  LET partsOf(piece) == {n \in DOMAIN Menu : Occurs(piece, Menu[n].id)}
      found == {piece \in IdsTried(id) : partsOf(piece) # {}}
      longest == CHOOSE piece \in found : \A other \in found : Len(other) <= Len(piece)
      first == CHOOSE n \in partsOf(longest) : \A m \in partsOf(longest) : n <= m
  IN IF found = {} THEN {} ELSE RevealParents(first)

RevealedOn == [d \in Documents |-> Revealed(PageId[d])]

(* The menu has arrived: displayNavigationFromPage puts it into the page   *)
(* and hides all of it but the part of the page.                           *)
DisplayNavigation ==
  /\ navigation = "asked"
  /\ navigation' = "shown"
  /\ revealed' = RevealedOn[document]
  /\ UNCHANGED <<document, readyState, evaluated, hash, events, sections, theme, anchor, copying>>

-----------------------------------------------------------------------------
(* Copying *)

FaultyCopy(succeeds) ==
  /\ Loaded
  /\ popupTimers < MaxPopups
  /\ popup' = TRUE
  /\ popupTimers' = IF succeeds THEN popupTimers + 1 ELSE popupTimers
  /\ UNCHANGED <<document, readyState, evaluated, hash, events, sections, theme, anchor, menu>>

(* A click on a copy or anchor icon: copyAndShowPopup.  If copying throws  *)
(* nothing is shown; the selection or textarea is removed either way.      *)
Copy(succeeds) ==
  /\ Loaded
  /\ popupTimers < MaxPopups
  /\ popup' = (popup \/ succeeds)
  /\ popupTimers' = IF succeeds THEN popupTimers + 1 ELSE popupTimers
  /\ UNCHANGED <<document, readyState, evaluated, hash, events, sections, theme, anchor, menu>>

(* 1200 ms later: the first of two clicks hides the popup of the second.   *)
PopupTimer ==
  /\ popupTimers > 0
  /\ popupTimers' = popupTimers - 1
  /\ popup' = FALSE
  /\ UNCHANGED <<document, readyState, evaluated, hash, events, sections, theme, anchor, menu>>

-----------------------------------------------------------------------------
Next ==
  \/ \E d \in Documents, h \in Anchors \cup {NoHash} : Open(d, h)
  \/ EvaluateHandler \/ EvaluateNavigation
  \/ DOMContentLoaded \/ Load
  \/ \E k \in Keys : ClickTab(k)
  \/ \E h \in Anchors \cup {NoHash} : ChangeHash(h)
  \/ HashChange \/ ScrollTimer
  \/ ToggleTheme \/ OtherPage
  \/ DisplayNavigation
  \/ \E succeeds \in BOOLEAN : Copy(succeeds)
  \/ PopupTimer

Spec == Init /\ [][Next]_vars

(* The document is parsed to its end and the menu is served. *)
FairSpec == Spec /\ WF_vars(DOMContentLoaded) /\ WF_vars(DisplayNavigation)

-----------------------------------------------------------------------------
(* A popup that is shown has a timer that will remove it, however often    *)
(* and with whatever success the icon is clicked.                          *)
TypeOK ==
  /\ storedTab \in Keys \cup {NoTab} /\ storedDark \in BOOLEAN
  /\ document \in Documents \cup {NoDocument}
  /\ readyState \in {"none", "loading", "interactive", "complete"}
  /\ evaluated \in BOOLEAN
  /\ hash \in Anchors \cup {NoHash}
  /\ events \in 0..MaxTimers
  /\ tab \subseteq Keys /\ body \subseteq Keys
  /\ highlighted \subseteq Anchors /\ highlightedAnchor \in Anchors \cup {NoHash}
  /\ timers \in Seq(Anchors) /\ Len(timers) <= MaxTimers + 1
  /\ dark \in BOOLEAN
  /\ navigation \in {"none", "listening", "asked", "shown"}
  /\ revealed \subseteq DOMAIN Menu
  /\ popup \in BOOLEAN /\ popupTimers \in 0..MaxPopups
  /\ popup => popupTimers > 0
  /\ reached \in BOOLEAN /\ left \in BOOLEAN
  /\ foreignTab \in BOOLEAN /\ foreignDark \in BOOLEAN

(* A loaded page shows one tab and that tab's body, whichever of the       *)
(* markup, the stored tab, anchors handled before and after the load event *)
(* and clicks decided last; and it is the stored tab, so that a reload     *)
(* shows the same, unless another page has written since.  A tab the page  *)
(* does not have leaves the first one.                                     *)
TabAsStored ==
  Loaded =>
    /\ body = tab
    /\ Cardinality(tab) = Cardinality(Markup(document))
    /\ ~foreignTab =>
         tab = IF storedTab \in KeysOf(document) THEN {storedTab} ELSE Markup(document)

(* The same of the theme, which a page shows from its first moment on.     *)
ThemeAsStored == document # NoDocument /\ ~foreignDark => (dark <=> storedDark)

(* What is shown is what is stored.                                        *)
ShownAsStored == TabAsStored /\ ThemeAsStored

Settled == Loaded /\ events = 0

(* hashchange events are handled late, and each by the hash of then: once  *)
(* none waits, the anchor of the hash is highlighted and no other, and its *)
(* tab is the one shown, over the stored tab, until a tab is clicked.  And *)
(* the page has been scrolled to it, though it may have become the hash    *)
(* before the script was there, before the load event, or while earlier    *)
(* scroll timers waited, some of which come to nothing.                    *)
AnchorShown ==
  Settled =>
    /\ highlighted = {hash} \cap AnchorsOf[document]
    /\ hash \in AnchorsOf[document] /\ ~left =>
         Visible(hash, tab) /\ (timers = <<>> => reached)

(* The script may run before or after the event it would listen to: the    *)
(* menu comes up all the same.                                             *)
MenuComesUp ==
  navigation \in {"listening", "asked"} ~> navigation \in {"shown", "none"}

(* What makes MenuPart the part of a page: it and the parts within it are  *)
(* all the menu lists under the page's id, or, if nothing is listed under  *)
(* that, under the longest piece of it; a page has no part if nothing is   *)
(* listed under any piece.                                                 *)
MenuListsPages ==
  \A d \in Documents :
    LET n == MenuPart[d]
        listed(piece) == {m \in DOMAIN Menu : Occurs(piece, Menu[m].id)}
    IN IF n = 0
         THEN \A piece \in IdsTried(PageId[d]) : listed(piece) = {}
         ELSE \E piece \in IdsTried(PageId[d]) :
                /\ n \in listed(piece)
                /\ \A m \in listed(piece) : m = n \/ n \in Menu[m].above
                /\ \A longer \in IdsTried(PageId[d]) :
                     Len(longer) > Len(piece) => listed(longer) = {}

(* The menu opens at the page's own part, or, for a page it does not list, *)
(* at the part of the class the page describes a member of; whatever the   *)
(* pieces of ids are found in, at no other, and visible to its root.       *)
MenuOpensAtPage ==
  navigation = "shown" =>
    LET n == MenuPart[document]
    IN revealed = IF n = 0 THEN {} ELSE {n} \cup Menu[n].above

=============================================================================
