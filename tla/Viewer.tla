------------------------------- MODULE Viewer -------------------------------
(***************************************************************************)
(* The terminal viewer of open and closed tabs (cli/lib.rs, cli/tui.rs): a *)
(* reducer over a tree sources / windows / tabs / history with a cursor, a *)
(* sort order, an incremental search and a set of tagged tabs, and the     *)
(* loop that feeds it keys, runs its prompts and performs its effects.     *)
(*                                                                         *)
(* Levels and positions are counted from 1 (in the code from 0).  A tab is *)
(* its id, its number of history entries and the title and URL of the      *)
(* current one; 0 stands for "no current entry", as in a tab without        *)
(* history.  A query or a glob is the title or URL it selects.             *)
(***************************************************************************)
EXTENDS Integers, Sequences, FiniteSets, StableSort

CONSTANTS SessionTrees,   \* what the Sessions directory may hold when it is read
          Hostless        \* URLs without an authority, about:blank for one

VARIABLES app,        \* the App, or ViewerClosed
          prompt,     \* which line editor reads the keys: none, search, tag, untag
          effect,     \* what the last update asked the main loop to perform
          marked,     \* history: the tabs the user has tagged and not untagged
          reordered   \* history: a sort has run while some tab was tagged

viewerVars == <<app, prompt, effect, marked, reordered>>

ViewerClosed == [open |-> FALSE]
NoEffect == [does |-> "nothing", tabs |-> {}]
NoSearch == [on |-> FALSE, backward |-> FALSE, matches |-> <<>>, current |-> 1, stale |-> FALSE]
NoTab == [id |-> 0, title |-> 0, url |-> 0, navs |-> 0]
NoWindow == [active |-> 0, tabs |-> <<>>]

NewApp(tree) ==
    [open |-> TRUE, sources |-> tree, depth |-> 1, sel |-> <<1, 1, 1, 1>>,
     search |-> NoSearch, sort |-> "none", tags |-> {}]

-----------------------------------------------------------------------------
(* What the cursor is on. *)

Get(s, i, none) == IF i \in DOMAIN s THEN s[i] ELSE none

CurrentWindow(a) == Get(Get(a.sources, a.sel[1], <<>>), a.sel[2], NoWindow)
CurrentTab(a) == Get(CurrentWindow(a).tabs, a.sel[3], NoTab)

LenAt(a, d) ==
    <<Len(a.sources), Len(Get(a.sources, a.sel[1], <<>>)),
      Len(CurrentWindow(a).tabs), CurrentTab(a).navs>>[d]

Highest(m, n) == IF m > n THEN m ELSE n
Lowest(m, n) == IF m < n THEN m ELSE n

LastRow(a) == Highest(LenAt(a, a.depth), 1)

\* The tab whose entry is under the cursor, NoTab above the tab level.
EntryTab(a) ==
    IF \/ a.depth < 3
       \/ a.depth = 4 /\ a.sel[4] > CurrentTab(a).navs
    THEN NoTab ELSE CurrentTab(a)

\* The tab locations of a tree, and some of them in document order.
Locations(tree) ==
    UNION {UNION {{<<s, w, t>> : t \in DOMAIN tree[s][w].tabs} : w \in DOMAIN tree[s]} :
        s \in DOMAIN tree}
TabAt(tree, p) == tree[p[1]][p[2]].tabs[p[3]]
Earlier(p, q) ==
    \/ p[1] < q[1]
    \/ p[1] = q[1] /\ p[2] < q[2]
    \/ p[1] = q[1] /\ p[2] = q[2] /\ p[3] < q[3]
InDocumentOrder(S) ==
    [n \in 1..Cardinality(S) |->
        CHOOSE p \in S : Cardinality({q \in S : Earlier(q, p)}) = n - 1]

\* Locations whose current entry the query selects; an empty query selects none.
FindMatches(tree, query) ==
    InDocumentOrder({p \in Locations(tree) :
        query # 0 /\ query \in {TabAt(tree, p).url, TabAt(tree, p).title}})

\* The empty glob, 0, matches every URL.
TabsMatching(tree, glob) ==
    {p \in Locations(tree) : TabAt(tree, p).url # 0 /\ glob \in {0, TabAt(tree, p).url}}

\* The tabs found at the tagged locations that have a current entry.
TaggedTabs(a) ==
    {TabAt(a.sources, p).id :
        p \in {q \in a.tags \cap Locations(a.sources) : TabAt(a.sources, q).url # 0}}

\* A tree is of sources, windows and tabs.  The id names the tab in the model, in
\* whatever window and order it is; the browser's own ids may repeat.
TabsGiven == [id: Nat \ {0}, title: Nat, url: Nat, navs: Nat]
WindowsGiven == [active: Nat \ {0}, tabs: Seq(TabsGiven)]
TellsTabsApart(tree) ==
    \A p, q \in Locations(tree) : TabAt(tree, p).id = TabAt(tree, q).id => p = q

ASSUME SessionAssumption ==
    \A tree \in SessionTrees : tree \in Seq(Seq(WindowsGiven)) /\ TellsTabsApart(tree)

-----------------------------------------------------------------------------
(* Moving. *)

Reduced(a) == app' = a /\ effect' = NoEffect

Quietly == UNCHANGED <<prompt, marked, reordered>>

Reading(who) == app.open /\ prompt = who

Down ==
    /\ Reading("none")
    /\ Reduced([app EXCEPT !.sel[app.depth] = Lowest(@ + 1, LastRow(app))])
    /\ Quietly

Up ==
    /\ Reading("none")
    /\ Reduced([app EXCEPT !.sel[app.depth] = Highest(@ - 1, 1)])
    /\ Quietly

Descend ==
    /\ Reading("none")
    /\ app.depth < 4 /\ LenAt(app, app.depth + 1) > 0
    /\ Reduced([app EXCEPT !.depth = @ + 1, !.sel[app.depth + 1] = 1])
    /\ Quietly

Ascend ==
    /\ Reading("none")
    /\ Reduced([app EXCEPT !.depth = Highest(@ - 1, 1)])
    /\ Quietly

\* gg, G, and the half and full page moves, which no list here is longer than.
PageMove ==
    /\ Reading("none")
    /\ \E row \in {1, LastRow(app)} : Reduced([app EXCEPT !.sel[app.depth] = row])
    /\ Quietly

JumpWindow ==
    /\ Reading("none")
    /\ LET count == Len(Get(app.sources, app.sel[1], <<>>))
       IN  /\ count > 0
           /\ \E delta \in {-1, 1} :
                Reduced([app EXCEPT
                    !.sel = <<@[1], Highest(1, Lowest(count, @[2] + delta)), 1, 1>>])
    /\ Quietly

-----------------------------------------------------------------------------
(* Searching. *)

\* The cursor goes to the current match, if there is one.
JumpToCurrentMatch(a) ==
    IF a.search.current \notin DOMAIN a.search.matches THEN a
    ELSE LET p == a.search.matches[a.search.current]
         IN  [a EXCEPT !.depth = 3, !.sel = <<p[1], p[2], p[3], 1>>]

BeginSearch(a, backward) ==
    [a EXCEPT !.search = [NoSearch EXCEPT !.on = TRUE, !.backward = backward]]

\* Every keystroke of the prompt searches the whole tree again.
SetQuery(a, query) ==
    LET found == FindMatches(a.sources, query)
    IN  JumpToCurrentMatch(
          [a EXCEPT !.search.matches = found, !.search.stale = FALSE,
             !.search.current = IF a.search.backward /\ found # <<>> THEN Len(found) ELSE 1])

SearchInput ==
    \/ /\ Reading("none")
       /\ \E backward \in BOOLEAN : Reduced(BeginSearch(app, backward))
       /\ prompt' = "search"
       /\ UNCHANGED <<marked, reordered>>
    \/ /\ Reading("search")
       /\ \E query \in {0} \cup {TabAt(app.sources, p).url : p \in Locations(app.sources)} :
            Reduced(SetQuery(app, query))
       /\ Quietly
    \/ /\ Reading("search")
       /\ \E a \in {app, [app EXCEPT !.search = NoSearch]} : Reduced(a)
       /\ prompt' = "none"
       /\ UNCHANGED <<marked, reordered>>

StepMatch ==
    /\ Reading("none")
    /\ app.search.on
    /\ LET n == Len(app.search.matches)
       IN  /\ n > 0
           /\ \E delta \in {-1, 1} :
                Reduced(JumpToCurrentMatch([app EXCEPT
                    !.search.current = 1 + ((@ - 1 + delta) % n)]))
    /\ Quietly

\* * : the host of the tab in scope, at whatever level the cursor is.
SearchHostname ==
    /\ Reading("none")
    /\ CurrentTab(app).url \notin {0} \cup Hostless
    /\ Reduced(SetQuery(BeginSearch(app, FALSE), CurrentTab(app).url))
    /\ Quietly

ClearSearch ==
    /\ Reading("none")
    /\ Reduced([app EXCEPT !.search = NoSearch])
    /\ Quietly

-----------------------------------------------------------------------------
(* Sorting, tagging, and what leaves the program. *)

NextSort(mode) ==
    CASE mode \in {"none", "tab-count"} -> "recency"
      [] mode = "recency" -> "title"
      [] mode = "title" -> "url"
      [] mode = "url" -> "tab-count"

SortWindow(w, mode) ==
    CASE mode = "title" -> [w EXCEPT !.tabs = SortedByKey(@, [t \in DOMAIN @ |-> @[t].title])]
      [] mode = "url" -> [w EXCEPT !.tabs = SortedByKey(@, [t \in DOMAIN @ |-> @[t].url])]
      [] OTHER -> w

SortSource(s, mode) ==
    CASE mode = "recency" -> SortedByKey(s, [n \in DOMAIN s |-> 0 - s[n].active])
      [] mode = "tab-count" -> SortedByKey(s, [n \in DOMAIN s |-> 0 - Len(s[n].tabs)])
      [] OTHER -> [n \in DOMAIN s |-> SortWindow(s[n], mode)]

\* Mistake: the cursor stays where it was.
CycleSortOnly(a) ==
    LET mode == NextSort(a.sort)
        tree == [s \in DOMAIN a.sources |-> SortSource(a.sources[s], mode)]
    IN  [a EXCEPT !.sort = mode, !.sources = tree,
                  !.search.stale = @ \/ (a.search.matches # <<>> /\ tree # a.sources)]

\* Only the tree is put in order and the cursor reset: not the depth, the
\* matches or the tags, which are locations in the old order ("stale" is a
\* history of that).
CycleSort(a) ==
    LET mode == NextSort(a.sort)
        tree == [s \in DOMAIN a.sources |-> SortSource(a.sources[s], mode)]
    IN  [a EXCEPT !.sort = mode, !.sel = <<1, 1, 1, 1>>, !.sources = tree,
                  !.search.stale = @ \/ (a.search.matches # <<>> /\ tree # a.sources)]

Sort ==
    /\ Reading("none")
    /\ Reduced(CycleSort(app))
    /\ reordered' = (reordered \/ (app.tags # {} /\ app'.sources # app.sources))
    /\ marked' = IF reordered' THEN {} ELSE marked
    /\ UNCHANGED prompt

Flip(S, x) == IF x \in S THEN S \ {x} ELSE S \cup {x}

TagCurrent(a) ==
    IF a.depth < 3 \/ CurrentTab(a) = NoTab THEN a
    ELSE [a EXCEPT !.tags = Flip(@, <<a.sel[1], a.sel[2], a.sel[3]>>)]

\* The user has marked the tabs m; with the last tag gone the count starts
\* anew, and after a sort it stops.
Remember(a, m) ==
    /\ reordered' = (reordered /\ a.tags # {})
    /\ marked' = IF a.tags = {} \/ reordered THEN {} ELSE m

ToggleTag ==
    /\ Reading("none")
    /\ Reduced(TagCurrent(app))
    /\ Remember(app', IF app' = app THEN marked ELSE Flip(marked, CurrentTab(app).id))
    /\ UNCHANGED prompt

\* Mistake: a second glob replaces what the first has tagged.
TagGlobAnew(a, tag, glob) ==
    LET hit == TabsMatching(a.sources, glob)
    IN  [a EXCEPT !.tags = IF tag THEN hit ELSE @ \ hit]

TagGlob(a, tag, glob) ==
    LET hit == TabsMatching(a.sources, glob)
    IN  [a EXCEPT !.tags = IF tag THEN @ \cup hit ELSE @ \ hit]

GlobInput ==
    \/ /\ Reading("none")
       /\ prompt' \in {"tag", "untag"}
       /\ Reduced(app)
       /\ UNCHANGED <<marked, reordered>>
    \/ \E tag \in BOOLEAN :
       /\ Reading(IF tag THEN "tag" ELSE "untag")
       /\ \/ Reduced(app) /\ UNCHANGED <<marked, reordered>>
          \/ \E glob \in {0} \cup {TabAt(app.sources, p).url : p \in Locations(app.sources)} :
               LET hit == {TabAt(app.sources, p).id : p \in TabsMatching(app.sources, glob)}
               IN  /\ Reduced(TagGlob(app, tag, glob))
                   /\ Remember(app', IF tag THEN marked \cup hit ELSE marked \ hit)
       /\ prompt' = "none"

\* y copies the tagged URLs, or the one under the cursor.
YankUrl ==
    /\ Reading("none")
    /\ app.tags # {} \/ EntryTab(app).url # 0
    /\ effect' = [does |-> "copy",
                  tabs |-> IF app.tags # {} THEN TaggedTabs(app) ELSE {EntryTab(app).id}]
    /\ UNCHANGED <<app, prompt, marked, reordered>>

\* o opens and Y copies the entry under the cursor, tagged tabs or not.
UseEntry ==
    /\ Reading("none")
    /\ EntryTab(app).url # 0
    /\ effect' = [does |-> "entry", tabs |-> {EntryTab(app).id}]
    /\ UNCHANGED <<app, prompt, marked, reordered>>

\* e exports the tagged tabs, the tab in scope, or the window.
ExportCurrent(a) ==
    IF a.depth >= 3 /\ CurrentTab(a) # NoTab THEN {CurrentTab(a).id}
    ELSE {CurrentWindow(a).tabs[t].id : t \in DOMAIN CurrentWindow(a).tabs}

ExportNode ==
    /\ Reading("none")
    /\ app.tags # {} \/ CurrentWindow(app) # NoWindow
    /\ effect' = [does |-> "export",
                  tabs |-> IF app.tags # {} THEN TaggedTabs(app) ELSE ExportCurrent(app)]
    /\ UNCHANGED <<app, prompt, marked, reordered>>

\* r builds a new App from what the directory holds by then; a read that fails
\* leaves the old one.
Reload ==
    /\ Reading("none")
    /\ \/ /\ \E tree \in SessionTrees : Reduced(NewApp(tree))
          /\ marked' = {}
          /\ reordered' = FALSE
       \/ Reduced(app) /\ UNCHANGED <<marked, reordered>>
    /\ UNCHANGED prompt

Quit ==
    /\ Reading("none")
    /\ Reduced(ViewerClosed)
    /\ marked' = {}
    /\ reordered' = FALSE
    /\ UNCHANGED prompt

-----------------------------------------------------------------------------

ViewerInit ==
    /\ app = ViewerClosed
    /\ prompt = "none"
    /\ effect = NoEffect
    /\ marked = {}
    /\ reordered = FALSE

RunTui ==
    /\ ~app.open
    /\ \E tree \in SessionTrees : tree # <<>> /\ Reduced(NewApp(tree))
    /\ Quietly

ViewerNext ==
    \/ RunTui \/ Down \/ Up \/ Descend \/ Ascend \/ PageMove \/ JumpWindow
    \/ SearchInput \/ StepMatch \/ SearchHostname \/ ClearSearch
    \/ Sort \/ ToggleTag \/ GlobInput \/ YankUrl \/ UseEntry \/ ExportNode \/ Reload \/ Quit

ViewerSpec == ViewerInit /\ [][ViewerNext]_viewerVars

-----------------------------------------------------------------------------

\* The row the cursor is on exists at every level down to its own, or is the
\* first of an empty list.
CursorOnList ==
    app.open => \A d \in 1..app.depth : app.sel[d] \in 1..Highest(LenAt(app, d), 1)

\* Only n and N can take the cursor off the lists, and only to a match that was
\* recorded under another order of the tree (lib.rs 516-524, 609-614, 757-778).
OnlyAStaleMatchLeavesTheList ==
    [][CursorOnList => (CursorOnList' \/ (StepMatch /\ app.search.stale))]_viewerVars

\* With a tag set, y and e take the tabs the user tagged, neither more nor fewer
\* but for tabs without a current entry, unless a sort has moved tabs under the
\* tags (lib.rs 412-432, 668-761).
TaggedIsWhatWasMarked ==
    (effect.does \in {"copy", "export"} /\ app.tags # {} /\ ~reordered) =>
        effect.tabs = marked \ {TabAt(app.sources, p).id :
                                   p \in {q \in Locations(app.sources) :
                                             TabAt(app.sources, q).url = 0}}

=============================================================================
