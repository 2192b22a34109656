---------------------------- MODULE ViewerProofs ----------------------------
(***************************************************************************)
(* That the tabs copied or exported are those the user tagged, and that    *)
(* the cursor leaves its lists by n and N after a sort only, for any trees *)
(* of sources, windows and tabs and any keys.                              *)
(***************************************************************************)
EXTENDS Viewer, OrderProofs

Positions == Int \X Int \X Int
Searches == [on: BOOLEAN, backward: BOOLEAN, matches: Seq(Positions), current: Int,
             stale: BOOLEAN]
Apps ==
    [open: {TRUE}, sources: Seq(Seq(WindowsGiven)), depth: 1..4, sel: [1..4 -> Int],
     search: Searches, sort: {"none", "recency", "title", "url", "tab-count"},
     tags: SUBSET Positions]

-----------------------------------------------------------------------------
(* Locations. *)

LEMMA LocationIs ==
    ASSUME NEW tree
    PROVE  \A p : p \in Locations(tree) <=>
              \E s \in DOMAIN tree : \E w \in DOMAIN tree[s] :
                 \E t \in DOMAIN tree[s][w].tabs : p = <<s, w, t>>
BY DEF Locations

LEMMA WindowTypes ==
    ASSUME NEW tree \in Seq(Seq(WindowsGiven))
    PROVE  /\ DOMAIN tree = 1..Len(tree) /\ Len(tree) \in Nat
           /\ \A s \in DOMAIN tree :
                /\ tree[s] \in Seq(WindowsGiven)
                /\ DOMAIN tree[s] = 1..Len(tree[s]) /\ Len(tree[s]) \in Nat
                /\ \A w \in DOMAIN tree[s] :
                     /\ tree[s][w] \in WindowsGiven
                     /\ tree[s][w].tabs \in Seq(TabsGiven) /\ tree[s][w].active \in Nat \ {0}
                     /\ DOMAIN tree[s][w].tabs = 1..Len(tree[s][w].tabs)
                     /\ Len(tree[s][w].tabs) \in Nat
                     /\ \A t \in DOMAIN tree[s][w].tabs : tree[s][w].tabs[t] \in TabsGiven
<1>1. /\ DOMAIN tree = 1..Len(tree) /\ Len(tree) \in Nat
      /\ \A s \in DOMAIN tree : tree[s] \in Seq(WindowsGiven)
  <2> DEFINE T == Seq(WindowsGiven)
  <2>1. tree \in Seq(T)
    OBVIOUS
  <2> HIDE DEF T
  <2>2. DOMAIN tree = 1..Len(tree) /\ Len(tree) \in Nat /\ \A s \in DOMAIN tree : tree[s] \in T
    BY <2>1
  <2> QED  BY <2>2 DEF T
<1>2. ASSUME NEW src \in Seq(WindowsGiven)
      PROVE  /\ DOMAIN src = 1..Len(src) /\ Len(src) \in Nat
             /\ \A w \in DOMAIN src : src[w] \in WindowsGiven
  OBVIOUS
<1>3. ASSUME NEW win \in WindowsGiven
      PROVE  /\ win.tabs \in Seq(TabsGiven) /\ win.active \in Nat \ {0}
             /\ DOMAIN win.tabs = 1..Len(win.tabs) /\ Len(win.tabs) \in Nat
             /\ \A t \in DOMAIN win.tabs : win.tabs[t] \in TabsGiven
  <2>1. win.tabs \in Seq(TabsGiven) /\ win.active \in Nat \ {0}
    BY DEF WindowsGiven
  <2> DEFINE V == win.tabs
  <2> HIDE DEF V
  <2>2. V \in Seq(TabsGiven)
    BY <2>1 DEF V
  <2>3. DOMAIN V = 1..Len(V) /\ Len(V) \in Nat /\ \A t \in DOMAIN V : V[t] \in TabsGiven
    BY <2>2
  <2> QED  BY <2>1, <2>3 DEF V
<1> QED  BY <1>1, <1>2, <1>3

LEMMA LocationTypes ==
    ASSUME NEW tree \in Seq(Seq(WindowsGiven))
    PROVE  /\ Locations(tree) \subseteq Positions
           /\ \A p \in Locations(tree) : TabAt(tree, p) \in TabsGiven
BY LocationIs, WindowTypes DEF Positions, TabAt

LEMMA LocationsFinite ==
    ASSUME NEW tree \in Seq(Seq(WindowsGiven))
    PROVE  IsFiniteSet(Locations(tree))
<1> DEFINE tabs(s, w) == {<<s, w, t>> : t \in DOMAIN tree[s][w].tabs}
           windows(s) == UNION {tabs(s, w) : w \in DOMAIN tree[s]}
<1>1. ASSUME NEW s \in DOMAIN tree, NEW w \in DOMAIN tree[s] PROVE IsFiniteSet(tabs(s, w))
  <2>0. DOMAIN tree[s][w].tabs = 1..Len(tree[s][w].tabs) /\ Len(tree[s][w].tabs) \in Nat
    BY WindowTypes
  <2>1. IsFiniteSet(DOMAIN tree[s][w].tabs)
    BY <2>0, FS_Interval
  <2> DEFINE D == DOMAIN tree[s][w].tabs
             g == [t \in D |-> <<s, w, t>>]
  <2>2. g \in Surjection(D, tabs(s, w))
    BY DEF Surjection
  <2> HIDE DEF g, tabs
  <2> QED  BY <2>1, <2>2, FS_Surjection
<1>2. ASSUME NEW s \in DOMAIN tree PROVE IsFiniteSet(windows(s))
  <2>1. IsFiniteSet(DOMAIN tree[s])
    BY WindowTypes, FS_Interval
  <2> DEFINE D == DOMAIN tree[s]
             g == [w \in D |-> tabs(s, w)]
             U == {tabs(s, w) : w \in D}
  <2>2. g \in Surjection(D, U)
    BY DEF Surjection
  <2>3. IsFiniteSet(U)
    <3> HIDE DEF g, U
    <3> QED  BY <2>1, <2>2, FS_Surjection
  <2>4. \A T \in U : IsFiniteSet(T)
    BY <1>1
  <2> HIDE DEF U
  <2>5. IsFiniteSet(UNION U)
    BY <2>3, <2>4, FS_UNION
  <2> QED  BY <2>5 DEF U
<1>3. IsFiniteSet(DOMAIN tree)
  <2>1. DOMAIN tree = 1..Len(tree) /\ Len(tree) \in Nat
    BY WindowTypes
  <2> QED  BY <2>1, FS_Interval
<1> DEFINE g == [s \in DOMAIN tree |-> windows(s)]
           U == {windows(s) : s \in DOMAIN tree}
<1>4. g \in Surjection(DOMAIN tree, U)
  <2> HIDE DEF windows
  <2> QED  BY DEF Surjection
<1>5. IsFiniteSet(U)
  <2> HIDE DEF g, U
  <2> QED  BY <1>3, <1>4, FS_Surjection
<1>6. \A T \in U : IsFiniteSet(T)
  BY <1>2
<1>7. IsFiniteSet(UNION U)
  <2> HIDE DEF U
  <2> QED  BY <1>5, <1>6, FS_UNION
<1>8. Locations(tree) \subseteq UNION U
  <2> SUFFICES ASSUME NEW p \in Locations(tree) PROVE p \in UNION U
    OBVIOUS
  <2>1. PICK s \in DOMAIN tree : p \in windows(s)
    BY DEF Locations
  <2> HIDE DEF windows
  <2> QED  BY <2>1
<1> QED  BY <1>7, <1>8, FS_Subset

\* The matches are locations of the tree.
LEMMA MatchesAreLocations ==
    ASSUME NEW tree \in Seq(Seq(WindowsGiven)), NEW S \in SUBSET Locations(tree)
    PROVE  InDocumentOrder(S) \in Seq(S)
<1> DEFINE R == {pq \in S \X S : Earlier(pq[1], pq[2])}
<1>1. IsFiniteSet(S) /\ Cardinality(S) \in Nat
  BY LocationsFinite, FS_Subset, FS_CardinalityType
<1>2. S \subseteq Positions
  BY LocationTypes
<1>3. \A p, q \in S : <<p, q>> \in R <=> Earlier(p, q)
  OBVIOUS
<1>4. /\ \A p \in S : ~Earlier(p, p)
      /\ \A p, q, r \in S : Earlier(p, q) /\ Earlier(q, r) => Earlier(p, r)
      /\ \A p, q \in S : p # q => Earlier(p, q) \/ Earlier(q, p)
  <2>1. \A p \in S : p = <<p[1], p[2], p[3]>> /\ p[1] \in Int /\ p[2] \in Int /\ p[3] \in Int
    BY <1>2 DEF Positions
  <2>2. \A p \in S : ~Earlier(p, p)
    BY <2>1 DEF Earlier
  <2>3. \A p, q, r \in S : Earlier(p, q) /\ Earlier(q, r) => Earlier(p, r)
    BY <2>1 DEF Earlier
  <2>4. \A p, q \in S : p # q => Earlier(p, q) \/ Earlier(q, p)
    BY <2>1 DEF Earlier
  <2> QED  BY <2>2, <2>3, <2>4
<1> HIDE DEF R
<1>5. ASSUME NEW n \in 1..Cardinality(S)
      PROVE  \E p \in S : Cardinality({q \in S : Earlier(q, p)}) = n - 1
  <2>1. \E p \in S : Before(R, S, p) = n - 1
    <3>1. /\ \A x \in S : <<x, x>> \notin R
          /\ \A x, y, z \in S : <<x, y>> \in R /\ <<y, z>> \in R => <<x, z>> \in R
          /\ \A x, y \in S : x # y => <<x, y>> \in R \/ <<y, x>> \in R
      BY <1>3, <1>4
    <3> QED  BY <1>1, <3>1, PlacesAreTaken
  <2>2. PICK p \in S : Before(R, S, p) = n - 1
    BY <2>1
  <2>3. {q \in S : <<q, p>> \in R} = {q \in S : Earlier(q, p)}
    BY <1>3
  <2> QED  BY <2>2, <2>3 DEF Before
<1>6. ASSUME NEW n \in 1..Cardinality(S)
      PROVE  (CHOOSE p \in S : Cardinality({q \in S : Earlier(q, p)}) = n - 1) \in S
  BY <1>5
<1> DEFINE at(n) == CHOOSE p \in S : Cardinality({q \in S : Earlier(q, p)}) = n - 1
<1>7. InDocumentOrder(S) = [n \in 1..Cardinality(S) |-> at(n)]
  BY DEF InDocumentOrder
<1>8. \A n \in 1..Cardinality(S) : at(n) \in S
  BY <1>6
<1> HIDE DEF at
<1> QED  BY <1>1, <1>7, <1>8

-----------------------------------------------------------------------------
(* The cursor. *)

CursorFits(a) == \A d \in 1..a.depth : a.sel[d] \in 1..Highest(LenAt(a, d), 1)

LEMMA GetTypes ==
    ASSUME NEW T, NEW s \in Seq(T), NEW i, NEW none
    PROVE  Len(s) \in Nat /\ (Get(s, i, none) \in T \/ Get(s, i, none) = none)
BY DEF Get

LEMMA CursorTypes ==
    ASSUME NEW a \in Apps
    PROVE  /\ LenAt(a, 1) = Len(a.sources)
           /\ LenAt(a, 2) = Len(Get(a.sources, a.sel[1], <<>>))
           /\ LenAt(a, 3) = Len(CurrentWindow(a).tabs)
           /\ LenAt(a, 4) = CurrentTab(a).navs
           /\ \A d \in 1..4 : LenAt(a, d) \in Nat
           /\ CurrentTab(a) \in TabsGiven \cup {NoTab}
           /\ CurrentTab(a).url \in Nat /\ CurrentTab(a).title \in Nat
<1>1. /\ LenAt(a, 1) = Len(a.sources)
      /\ LenAt(a, 2) = Len(Get(a.sources, a.sel[1], <<>>))
      /\ LenAt(a, 3) = Len(CurrentWindow(a).tabs)
      /\ LenAt(a, 4) = CurrentTab(a).navs
  BY DEF LenAt
<1>2. a.sources \in Seq(Seq(WindowsGiven))
  BY DEF Apps
<1> DEFINE src == Get(a.sources, a.sel[1], <<>>)
           win == CurrentWindow(a)
           tab == CurrentTab(a)
<1>3. Len(a.sources) \in Nat /\ src \in Seq(WindowsGiven)
  BY <1>2, WindowTypes DEF Get
<1>4. win = Get(src, a.sel[2], NoWindow) /\ tab = Get(win.tabs, a.sel[3], NoTab)
  BY DEF CurrentWindow, CurrentTab
<1> HIDE DEF src, win, tab
<1>5. Len(src) \in Nat /\ (win \in WindowsGiven \/ win = NoWindow)
  BY <1>3, <1>4, GetTypes
<1>6. win.tabs \in Seq(TabsGiven)
  <2>1. CASE win \in WindowsGiven
    BY <2>1 DEF WindowsGiven
  <2>2. CASE win = NoWindow
    <3>1. win.tabs = <<>>
      BY <2>2 DEF NoWindow
    <3>2. <<>> \in Seq(TabsGiven)
      OBVIOUS
    <3> QED  BY <3>1, <3>2
  <2> QED  BY <1>5, <2>1, <2>2
<1>7. Len(win.tabs) \in Nat /\ (tab \in TabsGiven \/ tab = NoTab)
  <2> DEFINE T == win.tabs
  <2> HIDE DEF T
  <2>1. T \in Seq(TabsGiven) /\ tab = Get(T, a.sel[3], NoTab)
    BY <1>4, <1>6 DEF T
  <2>2. Len(T) \in Nat /\ (tab \in TabsGiven \/ tab = NoTab)
    BY <2>1, GetTypes
  <2> QED  BY <2>2 DEF T
<1>8. tab.navs \in Nat /\ tab.url \in Nat /\ tab.title \in Nat
  BY <1>7 DEF TabsGiven, NoTab
<1>9. \A d \in 1..4 : LenAt(a, d) \in Nat
  <2> TAKE d \in 1..4
  <2>1. d = 1 \/ d = 2 \/ d = 3 \/ d = 4
    OBVIOUS
  <2> QED  BY <1>1, <1>3, <1>5, <1>7, <1>8, <2>1 DEF src, win, tab
<1> QED  BY <1>1, <1>7, <1>8, <1>9 DEF tab

\* How long a list is depends on the cursor above it only.
LEMMA LenAtBelow ==
    ASSUME NEW a \in Apps, NEW b \in Apps, a.sources = b.sources, NEW d \in 1..4,
           \A k \in 1..(d - 1) : a.sel[k] = b.sel[k]
    PROVE  LenAt(a, d) = LenAt(b, d)
<1>1. d > 1 => a.sel[1] = b.sel[1]
  OBVIOUS
<1>2. d > 2 => a.sel[2] = b.sel[2]
  OBVIOUS
<1>3. d > 3 => a.sel[3] = b.sel[3]
  OBVIOUS
<1>4. CASE d = 1
  BY <1>4, CursorTypes
<1>5. CASE d = 2
  BY <1>1, <1>5, CursorTypes
<1>6. CASE d = 3
  BY <1>1, <1>2, <1>6, CursorTypes DEF CurrentWindow
<1>7. CASE d = 4
  BY <1>1, <1>2, <1>3, <1>7, CursorTypes DEF CurrentWindow, CurrentTab
<1> QED  BY <1>4, <1>5, <1>6, <1>7

\* A row that is moved on its own list stays on it, and so do the rows above.
LEMMA RowMoves ==
    ASSUME NEW a \in Apps, CursorFits(a), NEW row \in 1..LastRow(a)
    PROVE  LET b == [a EXCEPT !.sel[a.depth] = row] IN b \in Apps /\ CursorFits(b)
<1> DEFINE b == [a EXCEPT !.sel[a.depth] = row]
<1>1. a.depth \in 1..4 /\ a.sel \in [1..4 -> Int] /\ LenAt(a, a.depth) \in Nat
  BY CursorTypes DEF Apps
<1>2. LastRow(a) \in Nat /\ row \in Int
  BY <1>1 DEF LastRow, Highest
<1>3. /\ b \in Apps /\ b.depth = a.depth /\ b.sources = a.sources
      /\ b.sel = [a.sel EXCEPT ![a.depth] = row]
  BY <1>1, <1>2 DEF Apps
<1>4. ASSUME NEW d \in 1..b.depth PROVE b.sel[d] \in 1..Highest(LenAt(b, d), 1)
  <2>1. d \in 1..4 /\ d \in 1..a.depth
    BY <1>1, <1>3
  <2>2. LenAt(b, d) = LenAt(a, d)
    <3>1. \A k \in 1..(d - 1) : b.sel[k] = a.sel[k]
      BY <1>1, <1>3, <2>1
    <3> HIDE DEF b
    <3> QED  BY <1>3, <2>1, <3>1, LenAtBelow
  <2>3. CASE d = a.depth
    BY <1>1, <1>3, <2>2, <2>3 DEF LastRow
  <2>4. CASE d # a.depth
    <3>1. b.sel[d] = a.sel[d]
      BY <1>1, <1>3, <2>1, <2>4
    <3> QED  BY <2>1, <2>2, <3>1 DEF CursorFits
  <2> QED  BY <2>3, <2>4
<1> HIDE DEF b
<1> QED  BY <1>3, <1>4 DEF CursorFits, b

\* Row 1 is on every list.
LEMMA FirstRow ==
    ASSUME NEW n \in Nat
    PROVE  Highest(n, 1) \in Nat /\ 1 \in 1..Highest(n, 1)
BY DEF Highest

LEMMA CursorHome ==
    ASSUME NEW a \in Apps, a.sel = <<1, 1, 1, 1>>
    PROVE  CursorFits(a)
<1>1. a.depth \in 1..4
  BY DEF Apps
<1> SUFFICES ASSUME NEW d \in 1..a.depth PROVE a.sel[d] \in 1..Highest(LenAt(a, d), 1)
  BY DEF CursorFits
<1>2. d \in 1..4
  BY <1>1
<1>3. a.sel[d] = 1 /\ LenAt(a, d) \in Nat
  BY <1>2, CursorTypes
<1> QED  BY <1>3, FirstRow

-----------------------------------------------------------------------------
(* Searching. *)

MatchesSound(a) ==
    a.search.stale \/ \A i \in DOMAIN a.search.matches :
                         a.search.matches[i] \in Locations(a.sources)

\* Only the depth and the cursor move.
SameTree(a, b) ==
    b.sources = a.sources /\ b.tags = a.tags /\ b.search = a.search /\ b.sort = a.sort

LEMMA MatchTypes ==
    ASSUME NEW a \in Apps
    PROVE  /\ DOMAIN a.search.matches = 1..Len(a.search.matches)
           /\ Len(a.search.matches) \in Nat /\ a.search.current \in Int
           /\ \A i \in DOMAIN a.search.matches : a.search.matches[i] \in Positions
<1> DEFINE m == a.search.matches
<1>1. m \in Seq(Positions) /\ a.search.current \in Int
  BY DEF Apps, Searches
<1> HIDE DEF m
<1>2. DOMAIN m = 1..Len(m) /\ Len(m) \in Nat /\ \A i \in DOMAIN m : m[i] \in Positions
  BY <1>1
<1> QED  BY <1>1, <1>2 DEF m

PutAt(a, depth, sel) == [a EXCEPT !.depth = depth, !.sel = sel]

LEMMA Placed ==
    ASSUME NEW a \in Apps, NEW depth \in 1..4, NEW sel \in [1..4 -> Int]
    PROVE  /\ PutAt(a, depth, sel) \in Apps /\ SameTree(a, PutAt(a, depth, sel))
           /\ PutAt(a, depth, sel).depth = depth /\ PutAt(a, depth, sel).sel = sel
<1> DEFINE c == [a EXCEPT !.depth = depth]
           b == [c EXCEPT !.sel = sel]
<1>1. c \in Apps /\ c.depth = depth /\ SameTree(a, c)
  BY DEF Apps, SameTree
<1> HIDE DEF c
<1>2. b \in Apps /\ b.depth = depth /\ b.sel = sel /\ SameTree(c, b)
  BY <1>1 DEF Apps, SameTree
<1>3. SameTree(a, b)
  BY <1>1, <1>2 DEF SameTree
<1>4. PutAt(a, depth, sel) = b
  BY DEF PutAt, c
<1> QED  BY <1>2, <1>3, <1>4

LEMMA JumpSound ==
    ASSUME NEW a \in Apps
    PROVE  LET b == JumpToCurrentMatch(a)
           IN  /\ b \in Apps /\ SameTree(a, b)
               /\ (CursorFits(a) /\ MatchesSound(a) /\ ~a.search.stale) => CursorFits(b)
<1> DEFINE b == JumpToCurrentMatch(a)
           k == a.search.current
           p == a.search.matches[k]
<1>1. CASE k \notin DOMAIN a.search.matches
  <2>1. b = a
    BY <1>1 DEF JumpToCurrentMatch
  <2> QED  BY <2>1 DEF SameTree
<1>2. CASE k \in DOMAIN a.search.matches
  <2>1. p \in Positions
    BY <1>2, MatchTypes
  <2>2. p = <<p[1], p[2], p[3]>> /\ p[1] \in Int /\ p[2] \in Int /\ p[3] \in Int
    BY <2>1 DEF Positions
  <2>3. b = [a EXCEPT !.depth = 3, !.sel = <<p[1], p[2], p[3], 1>>]
    BY <1>2 DEF JumpToCurrentMatch
  <2> HIDE DEF p
  <2> DEFINE row == <<p[1], p[2], p[3], 1>>
  <2>5. row \in [1..4 -> Int] /\ row[1] = p[1] /\ row[2] = p[2] /\ row[3] = p[3]
    BY <2>2
  <2> HIDE DEF row
  <2>6. b = [a EXCEPT !.depth = 3, !.sel = row]
    BY <2>3 DEF row
  <2> HIDE DEF b
  <2>7. /\ b \in Apps /\ SameTree(a, b) /\ b.depth = 3
        /\ b.sel[1] = p[1] /\ b.sel[2] = p[2] /\ b.sel[3] = p[3]
    <3>1. b \in Apps /\ SameTree(a, b) /\ b.depth = 3 /\ b.sel = row
      <4>1. b = PutAt(a, 3, row) /\ 3 \in 1..4
        BY <2>6 DEF PutAt
      <4> QED  BY <2>5, <4>1, Placed
    <3> QED  BY <2>5, <3>1
  <2>8. ASSUME CursorFits(a), MatchesSound(a), ~a.search.stale PROVE CursorFits(b)
    <3>1. p \in Locations(a.sources)
      BY <1>2, <2>8 DEF MatchesSound, p
    <3>2. /\ p[1] \in DOMAIN a.sources /\ p[2] \in DOMAIN a.sources[p[1]]
          /\ p[3] \in DOMAIN a.sources[p[1]][p[2]].tabs
      <4>1. PICK s \in DOMAIN a.sources : \E w \in DOMAIN a.sources[s] :
               \E t \in DOMAIN a.sources[s][w].tabs : p = <<s, w, t>>
        BY <3>1, LocationIs
      <4> QED  BY <4>1
    <3>3. a.sources \in Seq(Seq(WindowsGiven)) /\ b.sources = a.sources
      BY <2>7 DEF Apps, SameTree
    <3> HIDE DEF b
    <3>4. /\ Get(b.sources, b.sel[1], <<>>) = a.sources[p[1]]
          /\ CurrentWindow(b) = a.sources[p[1]][p[2]]
      BY <2>7, <3>2, <3>3 DEF Get, CurrentWindow
    <3>5. /\ LenAt(b, 1) = Len(a.sources) /\ LenAt(b, 2) = Len(a.sources[p[1]])
          /\ LenAt(b, 3) = Len(a.sources[p[1]][p[2]].tabs)
      BY <2>7, <3>3, <3>4, CursorTypes
    <3>6. \A d \in 1..3 : b.sel[d] \in 1..LenAt(b, d) /\ LenAt(b, d) \in Nat
      <4>1. /\ p[1] \in 1..Len(a.sources) /\ p[2] \in 1..Len(a.sources[p[1]])
            /\ p[3] \in 1..Len(a.sources[p[1]][p[2]].tabs)
        BY <3>2, <3>3, WindowTypes
      <4>2. \A d \in 1..3 : LenAt(b, d) \in Nat
        BY <2>7, CursorTypes
      <4>3. \A d \in 1..3 : d = 1 \/ d = 2 \/ d = 3
        OBVIOUS
      <4> QED  BY <2>7, <3>5, <4>1, <4>2, <4>3
    <3> QED  BY <2>7, <3>6 DEF CursorFits, Highest
  <2> QED  BY <2>7, <2>8 DEF b
<1> QED  BY <1>1, <1>2

LEMMA SetQuerySound ==
    ASSUME NEW a \in Apps, NEW query
    PROVE  LET b == SetQuery(a, query)
           IN  /\ b \in Apps /\ b.sources = a.sources /\ b.tags = a.tags
               /\ MatchesSound(b) /\ (CursorFits(a) => CursorFits(b))
<1> DEFINE found == FindMatches(a.sources, query)
           at == IF a.search.backward /\ found # <<>> THEN Len(found) ELSE 1
           c == [a EXCEPT !.search.matches = found, !.search.stale = FALSE,
                          !.search.current = at]
<1>1. a.sources \in Seq(Seq(WindowsGiven))
  BY DEF Apps
<1> DEFINE S == {p \in Locations(a.sources) :
                   query # 0 /\ query \in {TabAt(a.sources, p).url, TabAt(a.sources, p).title}}
<1>2. found \in Seq(S)
  BY <1>1, MatchesAreLocations DEF FindMatches
<1>3. S \subseteq Positions /\ S \subseteq Locations(a.sources)
  BY <1>1, LocationTypes
<1>4. SetQuery(a, query) = JumpToCurrentMatch(c)
  BY DEF SetQuery
<1> HIDE DEF found, S
<1>5. /\ found \in Seq(Positions) /\ Len(found) \in Nat
      /\ \A i \in DOMAIN found : found[i] \in Locations(a.sources)
  BY <1>2, <1>3
<1>6. at \in Int
  BY <1>5
<1> HIDE DEF at
<1>7. /\ c \in Apps /\ c.sources = a.sources /\ c.tags = a.tags
      /\ c.depth = a.depth /\ c.sel = a.sel
      /\ c.search.matches = found /\ c.search.stale = FALSE
  BY <1>5, <1>6 DEF Apps, Searches
<1> HIDE DEF c
<1>8. MatchesSound(c)
  BY <1>5, <1>7 DEF MatchesSound
<1>9. CursorFits(a) => CursorFits(c)
  <2> SUFFICES ASSUME CursorFits(a), NEW d \in 1..c.depth
               PROVE  c.sel[d] \in 1..Highest(LenAt(c, d), 1)
    BY DEF CursorFits
  <2>1. d \in 1..4 /\ d \in 1..a.depth
    BY <1>7 DEF Apps
  <2>2. LenAt(c, d) = LenAt(a, d)
    BY <1>7, <2>1, LenAtBelow
  <2> QED  BY <1>7, <2>1, <2>2 DEF CursorFits
<1> DEFINE b == JumpToCurrentMatch(c)
<1>10. b \in Apps /\ SameTree(c, b) /\ (CursorFits(c) => CursorFits(b))
  BY <1>7, <1>8, JumpSound
<1> HIDE DEF b
<1>11. b.sources = a.sources /\ b.tags = a.tags /\ MatchesSound(b)
  BY <1>7, <1>8, <1>10 DEF SameTree, MatchesSound
<1> QED  BY <1>4, <1>9, <1>10, <1>11 DEF b

Searching(a, search) == [a EXCEPT !.search = search]

\* Whatever becomes of the search, the cursor stays on its lists.
LEMMA OtherSearch ==
    ASSUME NEW a \in Apps, NEW search \in Searches
    PROVE  LET b == Searching(a, search)
           IN  /\ b \in Apps /\ b.sources = a.sources /\ b.tags = a.tags
               /\ b.search = search /\ (CursorFits(a) => CursorFits(b))
<1> DEFINE b == Searching(a, search)
<1>1. /\ b \in Apps /\ b.sources = a.sources /\ b.tags = a.tags /\ b.search = search
      /\ b.depth = a.depth /\ b.sel = a.sel
  BY DEF Searching, Apps
<1> HIDE DEF b
<1>2. ASSUME CursorFits(a), NEW d \in 1..b.depth
      PROVE  b.sel[d] \in 1..Highest(LenAt(b, d), 1)
  <2>1. d \in 1..4 /\ d \in 1..a.depth
    BY <1>1 DEF Apps
  <2>2. LenAt(b, d) = LenAt(a, d)
    BY <1>1, <2>1, LenAtBelow
  <2> QED  BY <1>1, <1>2, <2>1, <2>2 DEF CursorFits
<1>3. CursorFits(a) => CursorFits(b)
  BY <1>2 DEF CursorFits
<1> QED  BY <1>1, <1>3 DEF b

-----------------------------------------------------------------------------
(* Sorting. *)

Modes == {"recency", "title", "url", "tab-count"}

\* The elements of v are those of s, each once, place saying where they were.
Places(s, place) ==
    /\ place \in [DOMAIN s -> DOMAIN s]
    /\ \A i, j \in DOMAIN s : place[i] = place[j] => i = j

WindowMoved(w, v, place) ==
    /\ Places(w.tabs, place) /\ DOMAIN v.tabs = DOMAIN w.tabs
    /\ \A t \in DOMAIN w.tabs : v.tabs[t] = w.tabs[place[t]]
WindowKept(w, v) == \E place : WindowMoved(w, v, place)
TabPlace(w, v) == CHOOSE place : WindowMoved(w, v, place)

SourceMoved(s, v, place) ==
    /\ Places(s, place) /\ DOMAIN v = DOMAIN s
    /\ \A n \in DOMAIN s : WindowKept(s[place[n]], v[n])
SourceKept(s, v) == \E place : SourceMoved(s, v, place)
WindowPlace(s, v) == CHOOSE place : SourceMoved(s, v, place)

LEMMA NothingMoves ==
    ASSUME NEW s
    PROVE  \E place : Places(s, place) /\ \A i \in DOMAIN s : place[i] = i
<1> DEFINE place == [i \in DOMAIN s |-> i]
<1>1. place \in [DOMAIN s -> DOMAIN s] /\ \A i \in DOMAIN s : place[i] = i
  OBVIOUS
<1> HIDE DEF place
<1> QED  BY <1>1 DEF Places

LEMMA SortedPlaces ==
    ASSUME NEW T, NEW s \in Seq(T), NEW keys \in [DOMAIN s -> Int]
    PROVE  /\ SortedByKey(s, keys) \in Seq(T)
           /\ DOMAIN SortedByKey(s, keys) = DOMAIN s
           /\ \E place : Places(s, place)
                /\ \A i \in DOMAIN s : SortedByKey(s, keys)[i] = s[place[i]]
<1>1. /\ SortedByKey(s, keys) \in Seq(T)
      /\ DOMAIN SortedByKey(s, keys) = DOMAIN s
  BY SortedElements
<1>2. PICK place \in [DOMAIN s -> DOMAIN s] :
         /\ \A a, b \in DOMAIN s : place[a] = place[b] => a = b
         /\ \A i \in DOMAIN s : \E a \in DOMAIN s : place[a] = i
         /\ \A a, b \in DOMAIN s : a < b => GoesBefore(keys, place[a], place[b])
         /\ SortedByKey(s, keys) \in [DOMAIN s -> {s[i] : i \in DOMAIN s}]
         /\ \A a \in DOMAIN s : SortedByKey(s, keys)[a] = s[place[a]]
  BY SortedIsPermutation
<1>3. Places(s, place)
  BY <1>2 DEF Places
<1> QED  BY <1>1, <1>2, <1>3

LEMMA SameWindow ==
    ASSUME NEW w
    PROVE  WindowKept(w, w)
BY NothingMoves DEF WindowKept, WindowMoved

LEMMA WindowSorted ==
    ASSUME NEW w \in WindowsGiven, NEW mode
    PROVE  SortWindow(w, mode) \in WindowsGiven /\ WindowKept(w, SortWindow(w, mode))
<1>1. ASSUME NEW keys \in [DOMAIN w.tabs -> Int]
      PROVE  LET v == [w EXCEPT !.tabs = SortedByKey(w.tabs, keys)]
             IN  v \in WindowsGiven /\ WindowKept(w, v)
  <2> DEFINE sorted == SortedByKey(w.tabs, keys)
             v == [w EXCEPT !.tabs = sorted]
  <2>1. w.tabs \in Seq(TabsGiven)
    BY DEF WindowsGiven
  <2>2. /\ sorted \in Seq(TabsGiven) /\ DOMAIN sorted = DOMAIN w.tabs
        /\ \E place : Places(w.tabs, place)
             /\ \A i \in DOMAIN w.tabs : sorted[i] = w.tabs[place[i]]
    BY <2>1, SortedPlaces
  <2> HIDE DEF sorted
  <2>3. v \in WindowsGiven /\ v.tabs = sorted
    BY <2>2 DEF WindowsGiven
  <2> HIDE DEF v
  <2>4. WindowKept(w, v)
    BY <2>2, <2>3 DEF WindowKept, WindowMoved
  <2> QED  BY <2>3, <2>4 DEF v, sorted
<1>2. \A t \in DOMAIN w.tabs : w.tabs[t].title \in Int /\ w.tabs[t].url \in Int
  <2> DEFINE T == w.tabs
  <2>1. T \in Seq(TabsGiven)
    BY DEF WindowsGiven
  <2> HIDE DEF T
  <2>2. \A t \in DOMAIN T : T[t] \in TabsGiven
    BY <2>1
  <2>3. \A t \in DOMAIN T : T[t].title \in Int /\ T[t].url \in Int
    BY <2>2 DEF TabsGiven
  <2> QED  BY <2>3 DEF T
<1> DEFINE titles == [t \in DOMAIN w.tabs |-> w.tabs[t].title]
           urls == [t \in DOMAIN w.tabs |-> w.tabs[t].url]
<1>3. titles \in [DOMAIN w.tabs -> Int] /\ urls \in [DOMAIN w.tabs -> Int]
  BY <1>2
<1>4. SortWindow(w, mode) = IF mode = "title" THEN [w EXCEPT !.tabs = SortedByKey(w.tabs, titles)]
                            ELSE IF mode = "url" THEN [w EXCEPT !.tabs = SortedByKey(w.tabs, urls)]
                            ELSE w
  BY DEF SortWindow
<1> HIDE DEF titles, urls
<1> QED  BY <1>1, <1>3, <1>4, SameWindow

LEMMA SourceSorted ==
    ASSUME NEW s \in Seq(WindowsGiven), NEW mode
    PROVE  SortSource(s, mode) \in Seq(WindowsGiven) /\ SourceKept(s, SortSource(s, mode))
<1>1. DOMAIN s = 1..Len(s) /\ Len(s) \in Nat /\ \A n \in DOMAIN s : s[n] \in WindowsGiven
  OBVIOUS
<1>2. ASSUME NEW keys \in [DOMAIN s -> Int]
      PROVE  SortedByKey(s, keys) \in Seq(WindowsGiven) /\ SourceKept(s, SortedByKey(s, keys))
  <2> DEFINE sorted == SortedByKey(s, keys)
  <2>1. /\ sorted \in Seq(WindowsGiven) /\ DOMAIN sorted = DOMAIN s
        /\ \E place : Places(s, place) /\ \A i \in DOMAIN s : sorted[i] = s[place[i]]
    BY SortedPlaces
  <2> HIDE DEF sorted
  <2>2. PICK place : Places(s, place) /\ \A i \in DOMAIN s : sorted[i] = s[place[i]]
    BY <2>1
  <2>3. \A n \in DOMAIN s : WindowKept(s[place[n]], sorted[n])
    BY <2>2, SameWindow
  <2>4. SourceMoved(s, sorted, place)
    BY <2>1, <2>2, <2>3 DEF SourceMoved
  <2> QED  BY <2>1, <2>4 DEF SourceKept, sorted
<1>3. \A n \in DOMAIN s : s[n].active \in Int /\ Len(s[n].tabs) \in Int
  <2> TAKE n \in DOMAIN s
  <2> DEFINE w == s[n]
  <2>1. w \in WindowsGiven
    BY <1>1
  <2> HIDE DEF w
  <2>2. w.active \in Int /\ w.tabs \in Seq(TabsGiven)
    BY <2>1 DEF WindowsGiven
  <2> QED  BY <2>2 DEF w
<1> DEFINE recent == [n \in DOMAIN s |-> 0 - s[n].active]
           long == [n \in DOMAIN s |-> 0 - Len(s[n].tabs)]
           within == [n \in DOMAIN s |-> SortWindow(s[n], mode)]
<1>4. recent \in [DOMAIN s -> Int] /\ long \in [DOMAIN s -> Int]
  BY <1>3
<1>5. within \in Seq(WindowsGiven) /\ SourceKept(s, within)
  <2>1. \A n \in DOMAIN s : SortWindow(s[n], mode) \in WindowsGiven
                              /\ WindowKept(s[n], SortWindow(s[n], mode))
    BY <1>1, WindowSorted
  <2>2. DOMAIN within = DOMAIN s /\ \A n \in DOMAIN s : within[n] = SortWindow(s[n], mode)
    OBVIOUS
  <2>3. within \in [DOMAIN s -> WindowsGiven]
    BY <2>1
  <2> HIDE DEF within
  <2>4. PICK place : Places(s, place) /\ \A i \in DOMAIN s : place[i] = i
    BY NothingMoves
  <2>5. SourceMoved(s, within, place)
    BY <2>1, <2>2, <2>4 DEF SourceMoved
  <2> QED  BY <1>1, <2>3, <2>5 DEF SourceKept
<1>6. SortSource(s, mode) = IF mode = "recency" THEN SortedByKey(s, recent)
                            ELSE IF mode = "tab-count" THEN SortedByKey(s, long)
                            ELSE within
  BY DEF SortSource
<1> HIDE DEF recent, long, within
<1> QED  BY <1>2, <1>4, <1>5, <1>6

\* A tree that is sorted holds the same tabs, each once.
LEMMA TreeSorted ==
    ASSUME NEW tree \in Seq(Seq(WindowsGiven)), NEW mode, TellsTabsApart(tree)
    PROVE  LET sorted == [s \in DOMAIN tree |-> SortSource(tree[s], mode)]
           IN  sorted \in Seq(Seq(WindowsGiven)) /\ TellsTabsApart(sorted)
<1> DEFINE sorted == [s \in DOMAIN tree |-> SortSource(tree[s], mode)]
<1>1. /\ DOMAIN tree = 1..Len(tree) /\ Len(tree) \in Nat
      /\ \A s \in DOMAIN tree : tree[s] \in Seq(WindowsGiven)
  BY WindowTypes
<1>2. \A s \in DOMAIN tree : /\ SortSource(tree[s], mode) \in Seq(WindowsGiven)
                             /\ SourceKept(tree[s], SortSource(tree[s], mode))
  BY <1>1, SourceSorted
<1>3. DOMAIN sorted = DOMAIN tree /\ \A s \in DOMAIN tree : sorted[s] = SortSource(tree[s], mode)
  OBVIOUS
<1>4. sorted \in [1..Len(tree) -> Seq(WindowsGiven)]
  BY <1>1, <1>2
<1> HIDE DEF sorted
<1>5. sorted \in Seq(Seq(WindowsGiven))
  <2> DEFINE T == Seq(WindowsGiven)
             n == Len(tree)
  <2>1. n \in Nat /\ sorted \in [1..n -> T]
    BY <1>1, <1>4
  <2>2. \A m \in Nat : \A f \in [1..m -> T] : f \in Seq(T)
    <3> HIDE DEF T
    <3> QED  OBVIOUS
  <2> QED  BY <2>1, <2>2
<1> DEFINE W(s) == WindowPlace(tree[s], sorted[s])
           T(s, w) == TabPlace(tree[s][W(s)[w]], sorted[s][w])
<1>6. \A s \in DOMAIN tree : SourceMoved(tree[s], sorted[s], W(s))
  BY <1>2, <1>3 DEF SourceKept, WindowPlace
<1>7. \A s \in DOMAIN tree : \A w \in DOMAIN tree[s] :
         /\ W(s)[w] \in DOMAIN tree[s]
         /\ WindowMoved(tree[s][W(s)[w]], sorted[s][w], T(s, w))
  BY <1>6 DEF SourceMoved, Places, WindowKept, TabPlace
<1> HIDE DEF W, T
<1>8. ASSUME NEW s \in DOMAIN sorted, NEW w \in DOMAIN sorted[s],
             NEW t \in DOMAIN sorted[s][w].tabs
      PROVE  /\ s \in DOMAIN tree /\ w \in DOMAIN tree[s]
             /\ W(s)[w] \in DOMAIN tree[s] /\ t \in DOMAIN tree[s][W(s)[w]].tabs
             /\ T(s, w)[t] \in DOMAIN tree[s][W(s)[w]].tabs
             /\ <<s, W(s)[w], T(s, w)[t]>> \in Locations(tree)
             /\ TabAt(sorted, <<s, w, t>>) = TabAt(tree, <<s, W(s)[w], T(s, w)[t]>>)
  <2>1. s \in DOMAIN tree /\ w \in DOMAIN tree[s]
    BY <1>3, <1>6 DEF SourceMoved
  <2>2. W(s)[w] \in DOMAIN tree[s] /\ t \in DOMAIN tree[s][W(s)[w]].tabs
    BY <1>7, <2>1 DEF WindowMoved
  <2>3. /\ T(s, w)[t] \in DOMAIN tree[s][W(s)[w]].tabs
        /\ sorted[s][w].tabs[t] = tree[s][W(s)[w]].tabs[T(s, w)[t]]
    BY <1>7, <2>1, <2>2 DEF WindowMoved, Places
  <2>4. <<s, W(s)[w], T(s, w)[t]>> \in Locations(tree)
    BY <2>1, <2>2, <2>3, LocationIs
  <2> QED  BY <2>1, <2>2, <2>3, <2>4 DEF TabAt
<1>9. ASSUME NEW p \in Locations(sorted), NEW q \in Locations(sorted),
             TabAt(sorted, p).id = TabAt(sorted, q).id
      PROVE  p = q
  <2>1. PICK s \in DOMAIN sorted : \E w \in DOMAIN sorted[s] :
           \E t \in DOMAIN sorted[s][w].tabs : p = <<s, w, t>>
    BY LocationIs
  <2>2. PICK w \in DOMAIN sorted[s] : \E t \in DOMAIN sorted[s][w].tabs : p = <<s, w, t>>
    BY <2>1
  <2>3. PICK t \in DOMAIN sorted[s][w].tabs : p = <<s, w, t>>
    BY <2>2
  <2>4. PICK s2 \in DOMAIN sorted : \E w2 \in DOMAIN sorted[s2] :
           \E t2 \in DOMAIN sorted[s2][w2].tabs : q = <<s2, w2, t2>>
    BY LocationIs
  <2>5. PICK w2 \in DOMAIN sorted[s2] : \E t2 \in DOMAIN sorted[s2][w2].tabs : q = <<s2, w2, t2>>
    BY <2>4
  <2>6. PICK t2 \in DOMAIN sorted[s2][w2].tabs : q = <<s2, w2, t2>>
    BY <2>5
  <2>7. <<s, W(s)[w], T(s, w)[t]>> = <<s2, W(s2)[w2], T(s2, w2)[t2]>>
    <3> DEFINE p0 == <<s, W(s)[w], T(s, w)[t]>>
               q0 == <<s2, W(s2)[w2], T(s2, w2)[t2]>>
    <3>1. p0 \in Locations(tree) /\ TabAt(sorted, p) = TabAt(tree, p0)
      BY <1>8, <2>3
    <3>2. q0 \in Locations(tree) /\ TabAt(sorted, q) = TabAt(tree, q0)
      BY <1>8, <2>6
    <3> HIDE DEF p0, q0
    <3>3. p0 = q0
      BY <1>9, <3>1, <3>2 DEF TellsTabsApart
    <3> QED  BY <3>3 DEF p0, q0
  <2>8. s = s2 /\ W(s)[w] = W(s2)[w2] /\ T(s, w)[t] = T(s2, w2)[t2]
    BY <2>7
  <2>9. w = w2
    BY <1>6, <1>8, <2>3, <2>6, <2>8 DEF SourceMoved, Places
  <2>10. t = t2
    <3>1. WindowMoved(tree[s][W(s)[w]], sorted[s][w], T(s, w))
      BY <1>7, <1>8
    <3>2. t \in DOMAIN tree[s][W(s)[w]].tabs /\ t2 \in DOMAIN tree[s][W(s)[w]].tabs
      BY <1>8, <2>8, <2>9
    <3> QED  BY <2>8, <2>9, <3>1, <3>2 DEF WindowMoved, Places
  <2> QED  BY <2>3, <2>6, <2>8, <2>9, <2>10
<1>10. TellsTabsApart(sorted)
  BY <1>9 DEF TellsTabsApart
<1> QED  BY <1>5, <1>10 DEF sorted

-----------------------------------------------------------------------------
(* The invariant. *)

\* The tags are on the tabs the user has marked, until a sort has moved them.
TagsSound ==
    IF reordered THEN marked = {}
    ELSE /\ app.tags \subseteq Locations(app.sources)
         /\ marked = {TabAt(app.sources, p).id : p \in app.tags}

\* With a tag set, what was copied or exported last is what is tagged.
EffectSound ==
    (effect.does \in {"copy", "export"} /\ app.tags # {}) => effect.tabs = TaggedTabs(app)

ViewerInv ==
    /\ reordered \in BOOLEAN
    /\ \/ app = ViewerClosed /\ marked = {} /\ reordered = FALSE /\ effect = NoEffect
       \/ /\ app \in Apps /\ TellsTabsApart(app.sources) /\ MatchesSound(app)
          /\ TagsSound /\ EffectSound

\* What the action property says of one step.
Stays == CursorOnList => (CursorOnList' \/ (StepMatch /\ app.search.stale))

LEMMA OpenApp ==
    ASSUME ViewerInv, app.open
    PROVE  /\ app \in Apps /\ TellsTabsApart(app.sources) /\ MatchesSound(app)
           /\ TagsSound /\ EffectSound /\ reordered \in BOOLEAN
           /\ app.sources \in Seq(Seq(WindowsGiven))
<1>1. app # ViewerClosed
  BY DEF ViewerClosed
<1>2. app \in Apps
  BY <1>1 DEF ViewerInv
<1>3. app.sources \in Seq(Seq(WindowsGiven))
  BY <1>2 DEF Apps
<1> QED  BY <1>1, <1>3 DEF ViewerInv

LEMMA NothingAsked == NoEffect.does \notin {"copy", "export"}
BY DEF NoEffect

\* A step that leaves the tree and the tags and asks for nothing.
LEMMA QuietStep ==
    ASSUME ViewerInv, app.open, app' \in Apps, app'.sources = app.sources,
           app'.tags = app.tags, MatchesSound(app'), effect' = NoEffect,
           UNCHANGED <<marked, reordered>>
    PROVE  ViewerInv'
<1>1. /\ app \in Apps /\ TellsTabsApart(app.sources) /\ TagsSound /\ reordered \in BOOLEAN
  BY OpenApp
<1>2. TagsSound'
  BY <1>1 DEF TagsSound
<1>3. EffectSound'
  BY NothingAsked DEF EffectSound
<1>4. TellsTabsApart(app.sources)' /\ MatchesSound(app)' /\ reordered' \in BOOLEAN
  BY <1>1
<1> QED  BY <1>2, <1>3, <1>4 DEF ViewerInv

\* With the cursor on its lists after the step, the step is as it should be.
LEMMA OnList ==
    ASSUME app' \in Apps, CursorFits(app')
    PROVE  CursorOnList'
BY DEF CursorOnList, CursorFits

LEMMA WasOnList ==
    ASSUME CursorOnList, app.open
    PROVE  CursorFits(app)
BY DEF CursorOnList, CursorFits

\* A step that moves the cursor.
LEMMA CursorStep ==
    ASSUME ViewerInv, app.open, app' \in Apps, SameTree(app, app'), effect' = NoEffect, Quietly,
           CursorFits(app) => CursorFits(app')
    PROVE  ViewerInv' /\ Stays
<1>1. MatchesSound(app)
  BY OpenApp
<1>2. /\ app'.sources = app.sources /\ app'.tags = app.tags /\ MatchesSound(app')
      /\ UNCHANGED <<marked, reordered>>
  BY <1>1 DEF SameTree, MatchesSound, Quietly
<1>3. ViewerInv'
  BY <1>2, QuietStep
<1>4. Stays
  BY WasOnList, OnList DEF Stays
<1> QED  BY <1>3, <1>4

-----------------------------------------------------------------------------
(* Moving. *)

RowAt(a, row) == [a EXCEPT !.sel[a.depth] = row]

LEMMA RowTyped ==
    ASSUME NEW a \in Apps, NEW row \in Int
    PROVE  RowAt(a, row) \in Apps /\ SameTree(a, RowAt(a, row))
<1>1. a.depth \in 1..4 /\ a.sel \in [1..4 -> Int]
  BY DEF Apps
<1> QED  BY <1>1 DEF RowAt, Apps, SameTree

LEMMA RowFits ==
    ASSUME NEW a \in Apps, CursorFits(a), NEW row \in 1..LastRow(a)
    PROVE  CursorFits(RowAt(a, row))
BY RowMoves DEF RowAt

LEMMA RowIs ==
    ASSUME NEW a \in Apps
    PROVE  /\ a.sel[a.depth] \in Int /\ LastRow(a) \in Nat /\ LastRow(a) >= 1
           /\ CursorFits(a) => a.sel[a.depth] \in 1..LastRow(a)
<1>1. a.depth \in 1..4 /\ a.sel \in [1..4 -> Int]
  BY DEF Apps
<1>2. LenAt(a, a.depth) \in Nat /\ a.depth \in 1..a.depth
  BY <1>1, CursorTypes
<1> QED  BY <1>1, <1>2 DEF CursorFits, LastRow, Highest

LEMMA RowStep ==
    ASSUME ViewerInv, Reading("none"), NEW row \in Int, Reduced(RowAt(app, row)), Quietly,
           CursorFits(app) => row \in 1..LastRow(app)
    PROVE  ViewerInv' /\ Stays
<1>1. app.open /\ app' = RowAt(app, row) /\ effect' = NoEffect
  BY DEF Reading, Reduced
<1>2. app \in Apps
  BY <1>1, OpenApp
<1>3. app' \in Apps /\ SameTree(app, app')
  BY <1>1, <1>2, RowTyped
<1>4. CursorFits(app) => CursorFits(app')
  BY <1>1, <1>2, RowFits
<1> QED  BY <1>1, <1>3, <1>4, CursorStep

LEMMA MoveSteps ==
    ASSUME ViewerInv, Down \/ Up \/ PageMove
    PROVE  ViewerInv' /\ Stays
<1>1. app \in Apps /\ Reading("none") /\ Quietly
  BY OpenApp DEF Down, Up, PageMove, Reading
<1> DEFINE at == app.sel[app.depth]
<1>2. /\ at \in Int /\ LastRow(app) \in Nat /\ LastRow(app) >= 1
      /\ CursorFits(app) => at \in 1..LastRow(app)
  BY <1>1, RowIs
<1>3. CASE Down
  <2> DEFINE row == Lowest(at + 1, LastRow(app))
  <2>1. Reduced(RowAt(app, row))
    BY <1>3, Zenon DEF Down, RowAt
  <2> HIDE DEF at
  <2>2. row \in Int /\ (CursorFits(app) => row \in 1..LastRow(app))
    BY <1>2 DEF Lowest
  <2> HIDE DEF row
  <2> QED  BY <1>1, <2>1, <2>2, RowStep
<1>4. CASE Up
  <2> DEFINE row == Highest(at - 1, 1)
  <2>1. Reduced(RowAt(app, row))
    BY <1>4, Zenon DEF Up, RowAt
  <2> HIDE DEF at
  <2>2. row \in Int /\ (CursorFits(app) => row \in 1..LastRow(app))
    BY <1>2 DEF Highest
  <2> HIDE DEF row
  <2> QED  BY <1>1, <2>1, <2>2, RowStep
<1>5. CASE PageMove
  <2>1. PICK row \in {1, LastRow(app)} : Reduced(RowAt(app, row))
    BY <1>5, Zenon DEF PageMove, RowAt
  <2>2. row \in Int /\ (CursorFits(app) => row \in 1..LastRow(app))
    BY <1>2, <2>1
  <2> QED  BY <1>1, <2>1, <2>2, RowStep
<1> QED  BY <1>3, <1>4, <1>5

LEMMA DescendStep ==
    ASSUME ViewerInv, Descend
    PROVE  ViewerInv' /\ Stays
<1>1. /\ app \in Apps /\ app.open /\ Quietly /\ effect' = NoEffect /\ app.depth < 4
      /\ app' = [app EXCEPT !.depth = @ + 1, !.sel[app.depth + 1] = 1]
  BY OpenApp DEF Descend, Reading, Reduced
<1>2. app.depth \in 1..4 /\ app.sel \in [1..4 -> Int]
  BY <1>1 DEF Apps
<1> DEFINE d == app.depth + 1
           sel == [app.sel EXCEPT ![d] = 1]
<1>3. d \in 1..4 /\ sel \in [1..4 -> Int] /\ sel[d] = 1
      /\ \A k \in 1..4 : k # d => sel[k] = app.sel[k]
  BY <1>1, <1>2
<1>4. app' = PutAt(app, d, sel)
  BY <1>1, Zenon DEF PutAt
<1>5. app' \in Apps /\ SameTree(app, app') /\ app'.depth = d /\ app'.sel = sel
  <2>1. ASSUME NEW q \in 1..4, NEW r \in [1..4 -> Int], app' = PutAt(app, q, r)
        PROVE  app' \in Apps /\ SameTree(app, app') /\ app'.depth = q /\ app'.sel = r
    <3>1. app \in Apps
      BY <1>1
    <3>2. PutAt(app, q, r) \in Apps /\ SameTree(app, PutAt(app, q, r))
      BY <3>1, Placed
    <3>3. PutAt(app, q, r).depth = q /\ PutAt(app, q, r).sel = r
      BY <3>1, Placed
    <3> QED  BY <2>1, <3>2, <3>3
  <2> HIDE DEF d, sel
  <2> QED  BY <1>3, <1>4, <2>1
<1>6. ASSUME CursorFits(app) PROVE CursorFits(app')
  <2> SUFFICES ASSUME NEW k \in 1..app'.depth
               PROVE  app'.sel[k] \in 1..Highest(LenAt(app', k), 1)
    BY DEF CursorFits
  <2>1. k \in 1..4 /\ (k = d \/ k \in 1..app.depth)
    BY <1>2, <1>3, <1>5
  <2>2. CASE k = d
    BY <1>3, <1>5, <2>1, <2>2, CursorTypes, FirstRow
  <2>3. CASE k # d
    <3>1. k \in 1..app.depth /\ \A j \in 1..k : app'.sel[j] = app.sel[j]
      BY <1>2, <1>3, <1>5, <2>1, <2>3
    <3>2. app.sources = app'.sources
      BY <1>5 DEF SameTree
    <3>3. \A j \in 1..(k - 1) : app.sel[j] = app'.sel[j]
      BY <1>2, <3>1
    <3>4. LenAt(app, k) = LenAt(app', k)
      BY <1>1, <1>5, <2>1, <3>2, <3>3, LenAtBelow
    <3> QED  BY <1>2, <1>6, <3>1, <3>4 DEF CursorFits
  <2> QED  BY <2>2, <2>3
<1> QED  BY <1>1, <1>5, <1>6, CursorStep

LEMMA AscendStep ==
    ASSUME ViewerInv, Ascend
    PROVE  ViewerInv' /\ Stays
<1>1. /\ app \in Apps /\ app.open /\ Quietly /\ effect' = NoEffect
      /\ app' = [app EXCEPT !.depth = Highest(@ - 1, 1)]
  BY OpenApp DEF Ascend, Reading, Reduced
<1>2. app.depth \in 1..4
  BY <1>1 DEF Apps
<1> DEFINE d == Highest(app.depth - 1, 1)
<1>3. d \in 1..4 /\ d <= app.depth
  BY <1>2 DEF Highest
<1>4. app' = [app EXCEPT !.depth = d]
  BY <1>1, Zenon
<1> HIDE DEF d
<1>5. app' \in Apps /\ SameTree(app, app') /\ app'.depth = d /\ app'.sel = app.sel
  BY <1>1, <1>3, <1>4 DEF Apps, SameTree
<1>6. ASSUME CursorFits(app) PROVE CursorFits(app')
  <2> SUFFICES ASSUME NEW k \in 1..app'.depth
               PROVE  app'.sel[k] \in 1..Highest(LenAt(app', k), 1)
    BY DEF CursorFits
  <2>1. k \in 1..4 /\ k \in 1..app.depth
    BY <1>2, <1>3, <1>5
  <2>2. app.sources = app'.sources
    BY <1>5 DEF SameTree
  <2>3. LenAt(app, k) = LenAt(app', k)
    BY <1>1, <1>5, <2>1, <2>2, LenAtBelow
  <2> QED  BY <1>5, <1>6, <2>1, <2>3 DEF CursorFits
<1> QED  BY <1>1, <1>5, <1>6, CursorStep

LEMMA JumpWindowStep ==
    ASSUME ViewerInv, JumpWindow
    PROVE  ViewerInv' /\ Stays
<1> DEFINE count == Len(Get(app.sources, app.sel[1], <<>>))
<1>1. /\ app \in Apps /\ app.open /\ Quietly /\ count > 0
  BY OpenApp DEF JumpWindow, Reading
<1>2. PICK delta \in {-1, 1} :
         Reduced([app EXCEPT !.sel = <<@[1], Highest(1, Lowest(count, @[2] + delta)), 1, 1>>])
  BY DEF JumpWindow
<1>3. app.depth \in 1..4 /\ app.sel \in [1..4 -> Int]
  BY <1>1 DEF Apps
<1>4. count = LenAt(app, 2) /\ count \in Nat
  BY <1>1, CursorTypes
<1> HIDE DEF count
<1> DEFINE row == Highest(1, Lowest(count, app.sel[2] + delta))
           sel == <<app.sel[1], row, 1, 1>>
<1>5. row \in 1..count /\ row \in Int
  BY <1>1, <1>3, <1>4 DEF Highest, Lowest
<1>6. effect' = NoEffect /\ app' = [app EXCEPT !.sel = sel]
  BY <1>2, Zenon DEF Reduced
<1> HIDE DEF row
<1>7. sel \in [1..4 -> Int] /\ sel[1] = app.sel[1] /\ sel[2] = row /\ sel[3] = 1 /\ sel[4] = 1
  BY <1>3, <1>5
<1> HIDE DEF sel
<1>8. /\ app' \in Apps /\ SameTree(app, app') /\ app'.depth = app.depth /\ app'.sel = sel
  BY <1>1, <1>6, <1>7 DEF Apps, SameTree
<1>9. ASSUME CursorFits(app) PROVE CursorFits(app')
  <2> SUFFICES ASSUME NEW k \in 1..app'.depth
               PROVE  app'.sel[k] \in 1..Highest(LenAt(app', k), 1)
    BY DEF CursorFits
  <2>1. k \in 1..app.depth /\ k \in 1..4 /\ (k = 1 \/ k = 2 \/ k = 3 \/ k = 4)
    BY <1>3, <1>8
  <2>2. app.sources = app'.sources
    BY <1>8 DEF SameTree
  <2>3. CASE k = 1
    <3>1. LenAt(app, 1) = LenAt(app', 1)
      BY <1>1, <1>8, <2>2, CursorTypes
    <3> QED  BY <1>7, <1>8, <1>9, <2>1, <2>3, <3>1 DEF CursorFits
  <2>4. CASE k = 2
    <3>1. LenAt(app', 2) = count
      BY <1>1, <1>4, <1>7, <1>8, <2>2, CursorTypes
    <3> QED  BY <1>4, <1>5, <1>7, <1>8, <2>4, <3>1 DEF Highest
  <2>5. CASE k \in {3, 4}
    <3>1. app'.sel[k] = 1 /\ LenAt(app', k) \in Nat
      BY <1>7, <1>8, <2>5, CursorTypes
    <3> QED  BY <3>1, FirstRow
  <2> QED  BY <2>1, <2>3, <2>4, <2>5
<1> QED  BY <1>1, <1>6, <1>8, <1>9, CursorStep

-----------------------------------------------------------------------------
(* Searching. *)

\* A step that changes the search and the cursor only, leaving true matches.
LEMMA SearchStep ==
    ASSUME ViewerInv, app.open, app' \in Apps, app'.sources = app.sources,
           app'.tags = app.tags, effect' = NoEffect, UNCHANGED <<marked, reordered>>,
           MatchesSound(app'), CursorFits(app) => CursorFits(app')
    PROVE  ViewerInv' /\ Stays
<1>1. ViewerInv'
  BY QuietStep
<1>2. Stays
  BY WasOnList, OnList DEF Stays
<1> QED  BY <1>1, <1>2

LEMMA Unsearched ==
    ASSUME NEW a \in Apps, NEW search \in Searches, search.matches = <<>>
    PROVE  LET b == Searching(a, search)
           IN  /\ b \in Apps /\ b.sources = a.sources /\ b.tags = a.tags
               /\ MatchesSound(b) /\ (CursorFits(a) => CursorFits(b))
<1> DEFINE b == Searching(a, search)
<1>1. /\ b \in Apps /\ b.sources = a.sources /\ b.tags = a.tags
      /\ b.search = search /\ (CursorFits(a) => CursorFits(b))
  BY OtherSearch
<1> HIDE DEF b
<1>2. MatchesSound(b)
  BY <1>1 DEF MatchesSound
<1> QED  BY <1>1, <1>2 DEF b

LEMMA SearchTyped ==
    ASSUME NEW on \in BOOLEAN, NEW backward \in BOOLEAN
    PROVE  LET s == [on |-> on, backward |-> backward, matches |-> <<>>, current |-> 1,
                     stale |-> FALSE]
           IN  s \in Searches /\ s.matches = <<>>
<1>1. ASSUME NEW m \in Seq(Positions)
      PROVE  LET s == [on |-> on, backward |-> backward, matches |-> m, current |-> 1,
                       stale |-> FALSE]
             IN  s \in Searches /\ s.matches = m
  BY DEF Searches
<1>2. <<>> \in Seq(Positions)
  OBVIOUS
<1> QED  BY <1>1, <1>2

LEMMA NoSearchTyped == NoSearch \in Searches /\ NoSearch.matches = <<>>
BY SearchTyped DEF NoSearch

LEMMA BegunSearch ==
    ASSUME NEW a \in Apps, NEW backward \in BOOLEAN
    PROVE  LET b == BeginSearch(a, backward)
           IN  /\ b \in Apps /\ b.sources = a.sources /\ b.tags = a.tags
               /\ MatchesSound(b) /\ (CursorFits(a) => CursorFits(b))
<1> DEFINE search == [NoSearch EXCEPT !.on = TRUE, !.backward = backward]
<1>1. search \in Searches /\ search.matches = NoSearch.matches
  BY NoSearchTyped DEF Searches
<1>2. BeginSearch(a, backward) = Searching(a, search)
  BY DEF BeginSearch, Searching
<1> HIDE DEF search
<1> QED  BY <1>1, <1>2, NoSearchTyped, Unsearched

LEMMA SearchInputStep ==
    ASSUME ViewerInv, SearchInput
    PROVE  ViewerInv' /\ Stays
<1>1. app.open /\ effect' = NoEffect /\ UNCHANGED <<marked, reordered>>
  BY DEF SearchInput, Reading, Reduced, Quietly
<1>2. app \in Apps /\ MatchesSound(app)
  BY <1>1, OpenApp
<1>3. \/ \E backward \in BOOLEAN : app' = BeginSearch(app, backward)
      \/ \E query \in {0} \cup {TabAt(app.sources, p).url : p \in Locations(app.sources)} :
            app' = SetQuery(app, query)
      \/ app' \in {app, Searching(app, NoSearch)}
  BY Zenon DEF SearchInput, Reduced, Searching
<1>4. CASE \E backward \in BOOLEAN : app' = BeginSearch(app, backward)
  BY <1>1, <1>2, <1>4, BegunSearch, SearchStep
<1>5. CASE \E query \in {0} \cup {TabAt(app.sources, p).url : p \in Locations(app.sources)} :
              app' = SetQuery(app, query)
  <2>1. PICK query : app' = SetQuery(app, query)
    BY <1>5
  <2>2. /\ app' \in Apps /\ app'.sources = app.sources /\ app'.tags = app.tags
        /\ MatchesSound(app') /\ (CursorFits(app) => CursorFits(app'))
    BY <1>2, <2>1, SetQuerySound
  <2> QED  BY <1>1, <2>2, SearchStep
<1>6. CASE app' = app
  <2>1. /\ app' \in Apps /\ app'.sources = app.sources /\ app'.tags = app.tags
        /\ MatchesSound(app') /\ (CursorFits(app) => CursorFits(app'))
    BY <1>2, <1>6
  <2> QED  BY <1>1, <2>1, SearchStep
<1>7. CASE app' = Searching(app, NoSearch)
  <2>1. /\ app' \in Apps /\ app'.sources = app.sources /\ app'.tags = app.tags
        /\ MatchesSound(app') /\ (CursorFits(app) => CursorFits(app'))
    BY <1>2, <1>7, NoSearchTyped, Unsearched
  <2> QED  BY <1>1, <2>1, SearchStep
<1> QED  BY <1>3, <1>4, <1>5, <1>6, <1>7

LEMMA ClearSearchStep ==
    ASSUME ViewerInv, ClearSearch
    PROVE  ViewerInv' /\ Stays
<1>1. /\ app.open /\ effect' = NoEffect /\ UNCHANGED <<marked, reordered>>
      /\ app' = Searching(app, NoSearch)
  BY DEF ClearSearch, Reading, Reduced, Quietly, Searching
<1>2. app \in Apps
  BY <1>1, OpenApp
<1>3. /\ app' \in Apps /\ app'.sources = app.sources /\ app'.tags = app.tags
      /\ MatchesSound(app') /\ (CursorFits(app) => CursorFits(app'))
  BY <1>1, <1>2, NoSearchTyped, Unsearched
<1> QED  BY <1>1, <1>3, SearchStep

LEMMA SearchHostnameStep ==
    ASSUME ViewerInv, SearchHostname
    PROVE  ViewerInv' /\ Stays
<1> DEFINE b == BeginSearch(app, FALSE)
           query == CurrentTab(app).url
<1>1. /\ app.open /\ effect' = NoEffect /\ UNCHANGED <<marked, reordered>>
      /\ app' = SetQuery(b, query)
  BY DEF SearchHostname, Reading, Reduced, Quietly
<1>2. app \in Apps
  BY <1>1, OpenApp
<1>3. /\ b \in Apps /\ b.sources = app.sources /\ b.tags = app.tags
      /\ (CursorFits(app) => CursorFits(b))
  BY <1>2, BegunSearch
<1> HIDE DEF b, query
<1>4. /\ app' \in Apps /\ app'.sources = b.sources /\ app'.tags = b.tags
      /\ MatchesSound(app') /\ (CursorFits(b) => CursorFits(app'))
  BY <1>1, <1>3, SetQuerySound
<1>5. /\ app'.sources = app.sources /\ app'.tags = app.tags
      /\ (CursorFits(app) => CursorFits(app'))
  BY <1>3, <1>4
<1> QED  BY <1>1, <1>4, <1>5, SearchStep

\* n and N: on to another match, which is a tab unless the tree was reordered.
LEMMA StepMatchStep ==
    ASSUME ViewerInv, StepMatch
    PROVE  ViewerInv' /\ Stays
<1> DEFINE n == Len(app.search.matches)
<1>1. /\ app.open /\ effect' = NoEffect /\ UNCHANGED <<marked, reordered>> /\ n > 0
  BY DEF StepMatch, Reading, Reduced, Quietly
<1>2. app \in Apps /\ MatchesSound(app)
  BY <1>1, OpenApp
<1>3. PICK delta \in {-1, 1} :
         app' = JumpToCurrentMatch([app EXCEPT !.search.current = 1 + ((@ - 1 + delta) % n)])
  BY DEF StepMatch, Reduced
<1> DEFINE at == 1 + ((app.search.current - 1 + delta) % n)
           search == [app.search EXCEPT !.current = at]
           b == Searching(app, search)
<1>4. n \in Nat /\ app.search.current \in Int
  BY <1>2, MatchTypes
<1>5. at \in Int
  <2> HIDE DEF n
  <2> QED  BY <1>1, <1>4
<1>6. [app EXCEPT !.search.current = at] = b
  <2> HIDE DEF at
  <2> QED  BY <1>2 DEF Apps, Searching
<1>7. app' = JumpToCurrentMatch(b)
  BY <1>3, <1>6, Zenon
<1> HIDE DEF at
<1>8. search \in Searches /\ search.matches = app.search.matches /\ search.stale = app.search.stale
  BY <1>2, <1>5 DEF Apps, Searches
<1> HIDE DEF search
<1>9. /\ b \in Apps /\ b.sources = app.sources /\ b.tags = app.tags /\ b.search = search
      /\ (CursorFits(app) => CursorFits(b))
  BY <1>2, <1>8, OtherSearch
<1> HIDE DEF b
<1>10. MatchesSound(b)
  BY <1>2, <1>8, <1>9 DEF MatchesSound
<1>11. /\ app' \in Apps /\ SameTree(b, app')
       /\ (CursorFits(b) /\ MatchesSound(b) /\ ~b.search.stale) => CursorFits(app')
  BY <1>7, <1>9, JumpSound
<1>12. app'.sources = app.sources /\ app'.tags = app.tags /\ MatchesSound(app')
  BY <1>9, <1>10, <1>11 DEF SameTree, MatchesSound
<1>13. ViewerInv'
  BY <1>1, <1>11, <1>12, QuietStep
<1>14. CASE app.search.stale
  BY <1>13, <1>14 DEF Stays
<1>15. CASE ~app.search.stale
  <2>1. CursorFits(app) => CursorFits(app')
    BY <1>8, <1>9, <1>10, <1>11, <1>15
  <2> QED  BY <1>1, <1>11, <1>13, <2>1, WasOnList, OnList DEF Stays
<1> QED  BY <1>14, <1>15

-----------------------------------------------------------------------------
(* Sorting. *)

LEMMA CycleSortSound ==
    ASSUME NEW a \in Apps, TellsTabsApart(a.sources), MatchesSound(a)
    PROVE  LET b == CycleSort(a)
           IN  /\ b \in Apps /\ TellsTabsApart(b.sources) /\ MatchesSound(b)
               /\ b.tags = a.tags /\ CursorFits(b)
<1> DEFINE mode == NextSort(a.sort)
           tree == [s \in DOMAIN a.sources |-> SortSource(a.sources[s], mode)]
           stale == a.search.stale \/ (a.search.matches # <<>> /\ tree # a.sources)
           search == [a.search EXCEPT !.stale = stale]
           b == CycleSort(a)
<1>1. a.sources \in Seq(Seq(WindowsGiven)) /\ a.search \in Searches
  BY DEF Apps
<1>2. mode \in Modes
  BY DEF NextSort, Apps, Modes
<1>3. tree \in Seq(Seq(WindowsGiven)) /\ TellsTabsApart(tree)
  <2> HIDE DEF mode
  <2> QED  BY <1>1, TreeSorted
<1>4. b = [[[[a EXCEPT !.sort = mode] EXCEPT !.sel = <<1, 1, 1, 1>>] EXCEPT !.sources = tree]
             EXCEPT !.search.stale = stale]
  BY Zenon DEF CycleSort
<1> HIDE DEF mode, tree
<1>5. /\ search \in Searches /\ search.matches = a.search.matches /\ search.stale = stale
  BY <1>1 DEF Searches
<1>6. <<1, 1, 1, 1>> \in [1..4 -> Int]
  OBVIOUS
<1> DEFINE row == <<1, 1, 1, 1>>
           c == [a EXCEPT !.sort = mode]
           d == [c EXCEPT !.sel = row]
           e == [d EXCEPT !.sources = tree]
           f == [e EXCEPT !.search = search]
<1>7. row \in [1..4 -> Int] /\ row = <<1, 1, 1, 1>>
  BY <1>6
<1> HIDE DEF row, stale
<1>8. c \in Apps /\ c.search = a.search /\ c.tags = a.tags
  BY <1>2 DEF Apps, Modes
<1>9. e.search = c.search /\ [e EXCEPT !.search.stale = stale] = f
  <2>1. e.search = c.search /\ e.search = a.search
    BY <1>8 DEF Apps
  <2> QED  BY <2>1
<1> HIDE DEF c
<1>10. d \in Apps /\ d.search = a.search /\ d.tags = a.tags /\ d.sel = row
  BY <1>7, <1>8 DEF Apps
<1> HIDE DEF d
<1>11. e \in Apps /\ e.tags = a.tags /\ e.sel = row /\ e.sources = tree
  BY <1>3, <1>10 DEF Apps
<1> HIDE DEF e, search
<1>12. /\ f \in Apps /\ f.tags = a.tags /\ f.sel = row /\ f.sources = tree /\ f.search = search
  BY <1>5, <1>11 DEF Apps
<1> HIDE DEF f
<1>13. b = f
  BY <1>4, <1>9 DEF c, d, e, row
<1> HIDE DEF b
<1>14. CursorFits(b)
  BY <1>7, <1>12, <1>13, CursorHome
<1>15. MatchesSound(b)
  <2>1. CASE stale
    BY <1>5, <1>12, <1>13, <2>1 DEF MatchesSound
  <2>2. CASE ~stale /\ a.search.matches = <<>>
    BY <1>5, <1>12, <1>13, <2>2 DEF MatchesSound
  <2>3. CASE ~stale /\ tree = a.sources
    <3>1. ~a.search.stale
      BY <2>3 DEF stale
    <3> QED  BY <1>5, <1>12, <1>13, <2>3, <3>1 DEF MatchesSound
  <2> QED  BY <2>1, <2>2, <2>3 DEF stale
<1> QED  BY <1>3, <1>12, <1>13, <1>14, <1>15 DEF b

IdsAt(tree, S) == {TabAt(tree, p).id : p \in S}

LEMMA SortStep ==
    ASSUME ViewerInv, Sort
    PROVE  ViewerInv' /\ Stays
<1>1. /\ app.open /\ app' = CycleSort(app) /\ effect' = NoEffect
      /\ reordered' = (reordered \/ (app.tags # {} /\ app'.sources # app.sources))
      /\ marked' = IF reordered' THEN {} ELSE marked
  BY DEF Sort, Reading, Reduced
<1>2. /\ app \in Apps /\ TellsTabsApart(app.sources) /\ MatchesSound(app) /\ TagsSound
      /\ reordered \in BOOLEAN
  BY <1>1, OpenApp
<1>3. /\ app' \in Apps /\ TellsTabsApart(app'.sources) /\ MatchesSound(app')
      /\ app'.tags = app.tags /\ CursorFits(app')
  BY <1>1, <1>2, CycleSortSound
<1>4. TagsSound'
  <2>1. CASE reordered'
    BY <1>1, <2>1 DEF TagsSound
  <2>2. CASE ~reordered' /\ app.tags = {}
    <3>1. ~reordered /\ marked = {}
      BY <1>1, <1>2, <2>2 DEF TagsSound
    <3> QED  BY <1>1, <1>3, <2>2, <3>1 DEF TagsSound
  <2>3. CASE ~reordered' /\ app'.sources = app.sources
    <3>1. ~reordered /\ marked' = marked
      BY <1>1, <2>3
    <3> QED  BY <1>2, <1>3, <2>3, <3>1 DEF TagsSound
  <2> QED  BY <1>1, <2>1, <2>2, <2>3
<1>5. EffectSound'
  BY <1>1, NothingAsked DEF EffectSound
<1>6. ViewerInv'
  BY <1>1, <1>2, <1>3, <1>4, <1>5 DEF ViewerInv
<1> QED  BY <1>3, <1>6, OnList DEF Stays

-----------------------------------------------------------------------------
(* Tagging. *)

Tagging(a, tags) == [a EXCEPT !.tags = tags]

LEMMA OtherTags ==
    ASSUME NEW a \in Apps, NEW tags \in SUBSET Positions
    PROVE  LET b == Tagging(a, tags)
           IN  /\ b \in Apps /\ b.sources = a.sources /\ b.search = a.search
               /\ b.tags = tags /\ (CursorFits(a) => CursorFits(b))
<1> DEFINE b == Tagging(a, tags)
<1>1. /\ b \in Apps /\ b.sources = a.sources /\ b.tags = tags /\ b.search = a.search
      /\ b.depth = a.depth /\ b.sel = a.sel
  BY DEF Tagging, Apps
<1> HIDE DEF b
<1>2. ASSUME CursorFits(a), NEW d \in 1..b.depth
      PROVE  b.sel[d] \in 1..Highest(LenAt(b, d), 1)
  <2>1. d \in 1..4 /\ d \in 1..a.depth
    BY <1>1 DEF Apps
  <2>2. LenAt(b, d) = LenAt(a, d)
    BY <1>1, <2>1, LenAtBelow
  <2> QED  BY <1>1, <1>2, <2>1, <2>2 DEF CursorFits
<1>3. CursorFits(a) => CursorFits(b)
  BY <1>2 DEF CursorFits
<1> QED  BY <1>1, <1>3 DEF b

\* A step that changes the tags to what the user has marked, m.
LEMMA TagStep ==
    ASSUME ViewerInv, app.open, NEW tags \in SUBSET Positions, app' = Tagging(app, tags),
           effect' = NoEffect, NEW m, Remember(app', m),
           ~reordered => tags \subseteq Locations(app.sources) /\ m = IdsAt(app.sources, tags)
    PROVE  ViewerInv' /\ Stays
<1>1. /\ app \in Apps /\ TellsTabsApart(app.sources) /\ MatchesSound(app) /\ TagsSound
      /\ reordered \in BOOLEAN
  BY OpenApp
<1>2. /\ app' \in Apps /\ app'.sources = app.sources /\ app'.search = app.search
      /\ app'.tags = tags /\ (CursorFits(app) => CursorFits(app'))
  BY <1>1, OtherTags
<1>3. MatchesSound(app') /\ TellsTabsApart(app'.sources)
  BY <1>1, <1>2 DEF MatchesSound
<1>4. /\ reordered' = (reordered /\ tags # {})
      /\ marked' = IF tags = {} \/ reordered THEN {} ELSE m
  BY <1>2 DEF Remember
<1>5. TagsSound'
  <2>1. CASE reordered'
    BY <1>4, <2>1 DEF TagsSound
  <2>2. CASE ~reordered' /\ tags = {}
    BY <1>2, <1>4, <2>2 DEF TagsSound
  <2>3. CASE ~reordered' /\ tags # {}
    <3>1. ~reordered /\ marked' = m
      BY <1>4, <2>3
    <3> QED  BY <1>2, <2>3, <3>1 DEF TagsSound, IdsAt
  <2> QED  BY <2>1, <2>2, <2>3
<1>6. EffectSound'
  BY NothingAsked DEF EffectSound
<1>7. ViewerInv'
  BY <1>1, <1>2, <1>3, <1>4, <1>5, <1>6 DEF ViewerInv
<1> QED  BY <1>2, <1>7, WasOnList, OnList DEF Stays

\* A step that leaves the App as it is.
LEMMA NoTagStep ==
    ASSUME ViewerInv, app.open, app' = app, effect' = NoEffect, Remember(app', marked)
    PROVE  ViewerInv' /\ Stays
<1>1. app \in Apps /\ TagsSound /\ reordered \in BOOLEAN
  BY OpenApp
<1>2. app.tags \in SUBSET Positions /\ app' = Tagging(app, app.tags)
  BY <1>1 DEF Apps, Tagging
<1>3. ~reordered => /\ app.tags \subseteq Locations(app.sources)
                    /\ marked = IdsAt(app.sources, app.tags)
  BY <1>1 DEF TagsSound, IdsAt
<1> QED  BY <1>2, <1>3, TagStep

\* The tab the cursor is in is at a location of the tree.
LEMMA CursorLocation ==
    ASSUME NEW a \in Apps, CurrentTab(a) # NoTab
    PROVE  LET p == <<a.sel[1], a.sel[2], a.sel[3]>>
           IN  p \in Locations(a.sources) /\ TabAt(a.sources, p) = CurrentTab(a)
<1>1. a.sel[3] \in DOMAIN CurrentWindow(a).tabs /\ CurrentTab(a) = CurrentWindow(a).tabs[a.sel[3]]
  BY DEF CurrentTab, Get
<1>2. DOMAIN <<>> = {}
  OBVIOUS
<1>3. CurrentWindow(a) # NoWindow
  BY <1>1, <1>2 DEF NoWindow
<1> DEFINE src == Get(a.sources, a.sel[1], <<>>)
<1>4. a.sel[2] \in DOMAIN src /\ CurrentWindow(a) = src[a.sel[2]]
  BY <1>3, Zenon DEF CurrentWindow, Get
<1>5. a.sel[1] \in DOMAIN a.sources /\ src = a.sources[a.sel[1]]
  BY <1>2, <1>4 DEF Get
<1> HIDE DEF src
<1>6. <<a.sel[1], a.sel[2], a.sel[3]>> \in Locations(a.sources)
  BY <1>1, <1>4, <1>5, LocationIs
<1> QED  BY <1>1, <1>4, <1>5, <1>6 DEF TabAt

LEMMA ToggleTagStep ==
    ASSUME ViewerInv, ToggleTag
    PROVE  ViewerInv' /\ Stays
<1>1. /\ app.open /\ app' = TagCurrent(app) /\ effect' = NoEffect
      /\ Remember(app', IF app' = app THEN marked ELSE Flip(marked, CurrentTab(app).id))
  BY DEF ToggleTag, Reading, Reduced
<1>2. app \in Apps /\ TellsTabsApart(app.sources) /\ TagsSound
  BY <1>1, OpenApp
<1>3. CASE app' = app
  BY <1>1, <1>3, NoTagStep
<1>4. CASE app' # app
  <2> DEFINE p == <<app.sel[1], app.sel[2], app.sel[3]>>
             tags == Flip(app.tags, p)
             id == CurrentTab(app).id
  <2>1. CurrentTab(app) # NoTab /\ app' = Tagging(app, tags)
    BY <1>1, <1>4 DEF TagCurrent, Tagging
  <2>2. p \in Locations(app.sources) /\ TabAt(app.sources, p).id = id
    BY <1>2, <2>1, CursorLocation
  <2>3. p \in Positions /\ app.tags \in SUBSET Positions
    <3>1. app.sources \in Seq(Seq(WindowsGiven)) /\ app.tags \in SUBSET Positions
      BY <1>2 DEF Apps
    <3> QED  BY <2>2, <3>1, LocationTypes
  <2> HIDE DEF p, id
  <2>4. tags \in SUBSET Positions
    BY <2>3 DEF Flip
  <2>5. ASSUME ~reordered
        PROVE  tags \subseteq Locations(app.sources)
               /\ Flip(marked, id) = IdsAt(app.sources, tags)
    <3>1. /\ app.tags \subseteq Locations(app.sources)
          /\ marked = {TabAt(app.sources, q).id : q \in app.tags}
      BY <1>2, <2>5 DEF TagsSound
    <3>2. tags \subseteq Locations(app.sources)
      BY <2>2, <3>1 DEF Flip
    <3>3. \A q \in app.tags : TabAt(app.sources, q).id = id => q = p
      BY <1>2, <2>2, <3>1 DEF TellsTabsApart
    <3>4. CASE p \in app.tags
      <4>1. tags = app.tags \ {p} /\ id \in marked
        BY <2>2, <3>1, <3>4 DEF Flip
      <4>2. IdsAt(app.sources, tags) = marked \ {id}
        BY <2>2, <3>1, <3>3, <4>1 DEF IdsAt
      <4> QED  BY <3>2, <4>1, <4>2 DEF Flip
    <3>5. CASE p \notin app.tags
      <4>1. tags = app.tags \cup {p} /\ id \notin marked
        BY <3>1, <3>3, <3>5 DEF Flip
      <4>2. IdsAt(app.sources, tags) = marked \cup {id}
        BY <2>2, <3>1, <4>1 DEF IdsAt
      <4> QED  BY <3>2, <4>1, <4>2 DEF Flip
    <3> QED  BY <3>4, <3>5
  <2>6. Remember(app', Flip(marked, id))
    BY <1>1, <1>4 DEF id
  <2> HIDE DEF tags
  <2> QED  BY <1>1, <2>1, <2>4, <2>5, <2>6, TagStep
<1> QED  BY <1>3, <1>4

LEMMA GlobInputStep ==
    ASSUME ViewerInv, GlobInput
    PROVE  ViewerInv' /\ Stays
<1>1. app.open /\ effect' = NoEffect
  BY DEF GlobInput, Reading, Reduced
<1>2. app \in Apps /\ TellsTabsApart(app.sources) /\ TagsSound /\ MatchesSound(app)
  BY <1>1, OpenApp
<1>3. \/ app' = app /\ UNCHANGED <<marked, reordered>>
      \/ \E tag \in BOOLEAN : \E glob : app' = TagGlob(app, tag, glob)
           /\ LET hit == {TabAt(app.sources, p).id : p \in TabsMatching(app.sources, glob)}
              IN  Remember(app', IF tag THEN marked \cup hit ELSE marked \ hit)
  BY Zenon DEF GlobInput, Reduced
<1>4. CASE app' = app /\ UNCHANGED <<marked, reordered>>
  <2>1. /\ app' \in Apps /\ app'.sources = app.sources /\ app'.tags = app.tags
        /\ MatchesSound(app') /\ (CursorFits(app) => CursorFits(app'))
    BY <1>2, <1>4
  <2> QED  BY <1>1, <1>4, <2>1, SearchStep
<1>5. CASE \E tag \in BOOLEAN : \E glob : app' = TagGlob(app, tag, glob)
             /\ LET hit == {TabAt(app.sources, p).id : p \in TabsMatching(app.sources, glob)}
                IN  Remember(app', IF tag THEN marked \cup hit ELSE marked \ hit)
  <2>0. PICK tag \in BOOLEAN : \E glob :
           /\ app' = TagGlob(app, tag, glob)
           /\ LET hit == {TabAt(app.sources, p).id : p \in TabsMatching(app.sources, glob)}
              IN  Remember(app', IF tag THEN marked \cup hit ELSE marked \ hit)
    BY <1>5
  <2>1. PICK glob :
           /\ app' = TagGlob(app, tag, glob)
           /\ LET hit == {TabAt(app.sources, p).id : p \in TabsMatching(app.sources, glob)}
              IN  Remember(app', IF tag THEN marked \cup hit ELSE marked \ hit)
    BY <2>0
  <2> DEFINE at == TabsMatching(app.sources, glob)
             hit == IdsAt(app.sources, at)
             tags == IF tag THEN app.tags \cup at ELSE app.tags \ at
             m == IF tag THEN marked \cup hit ELSE marked \ hit
  <2>2. app' = Tagging(app, tags) /\ Remember(app', m)
    BY <2>1, Zenon DEF TagGlob, Tagging, IdsAt
  <2>3. at \subseteq Locations(app.sources)
    BY DEF TabsMatching
  <2>4. app.tags \in SUBSET Positions /\ at \subseteq Positions
    <3>1. app.sources \in Seq(Seq(WindowsGiven)) /\ app.tags \in SUBSET Positions
      BY <1>2 DEF Apps
    <3> QED  BY <2>3, <3>1, LocationTypes
  <2> HIDE DEF at
  <2>5. tags \in SUBSET Positions
    BY <2>4
  <2>6. ASSUME ~reordered
        PROVE  tags \subseteq Locations(app.sources) /\ m = IdsAt(app.sources, tags)
    <3>1. /\ app.tags \subseteq Locations(app.sources)
          /\ marked = {TabAt(app.sources, q).id : q \in app.tags}
      BY <1>2, <2>6 DEF TagsSound
    <3>2. \A p, q \in Locations(app.sources) :
             TabAt(app.sources, p).id = TabAt(app.sources, q).id => p = q
      BY <1>2 DEF TellsTabsApart
    <3>3. CASE tag
      BY <2>3, <3>1, <3>3 DEF IdsAt
    <3>4. CASE ~tag
      <4>1. IdsAt(app.sources, app.tags \ at) = marked \ hit
        BY <2>3, <3>1, <3>2 DEF IdsAt
      <4> QED  BY <3>1, <3>4, <4>1
    <3> QED  BY <3>3, <3>4
  <2> HIDE DEF tags, m
  <2> QED  BY <1>1, <2>2, <2>5, <2>6, TagStep
<1> QED  BY <1>3, <1>4, <1>5

-----------------------------------------------------------------------------
(* What leaves the program, and the rest. *)

LEMMA EffectSteps ==
    ASSUME ViewerInv, YankUrl \/ UseEntry \/ ExportNode
    PROVE  ViewerInv' /\ Stays
<1>1. app.open /\ UNCHANGED <<app, marked, reordered>>
  BY DEF YankUrl, UseEntry, ExportNode, Reading
<1>2. /\ app \in Apps /\ TellsTabsApart(app.sources) /\ MatchesSound(app) /\ TagsSound
      /\ reordered \in BOOLEAN
  BY <1>1, OpenApp
<1>3. TagsSound'
  BY <1>1, <1>2 DEF TagsSound
<1>4. EffectSound'
  <2>1. TaggedTabs(app') = TaggedTabs(app)
    BY <1>1
  <2>2. CASE YankUrl
    <3>1. app.tags # {} => effect'.tabs = TaggedTabs(app)
      BY <2>2 DEF YankUrl
    <3> QED  BY <1>1, <2>1, <3>1 DEF EffectSound
  <2>3. CASE ExportNode
    <3>1. app.tags # {} => effect'.tabs = TaggedTabs(app)
      BY <2>3 DEF ExportNode
    <3> QED  BY <1>1, <2>1, <3>1 DEF EffectSound
  <2>4. CASE UseEntry
    <3>1. effect'.does = "entry"
      BY <2>4 DEF UseEntry
    <3> QED  BY <3>1 DEF EffectSound
  <2> QED  BY <2>2, <2>3, <2>4
<1>5. ViewerInv'
  <2>1. app' \in Apps /\ TellsTabsApart(app'.sources) /\ MatchesSound(app') /\ reordered' \in BOOLEAN
    BY <1>1, <1>2
  <2> QED  BY <1>3, <1>4, <2>1 DEF ViewerInv
<1>6. Stays
  BY <1>1 DEF Stays, CursorOnList
<1> QED  BY <1>5, <1>6

LEMMA NewAppStep ==
    ASSUME NEW tree \in SessionTrees, Reduced(NewApp(tree)), marked' = {}, reordered' = FALSE
    PROVE  ViewerInv' /\ Stays
<1>1. /\ app' = NewApp(tree) /\ effect' = NoEffect
      /\ tree \in Seq(Seq(WindowsGiven)) /\ TellsTabsApart(tree)
  BY SessionAssumption DEF Reduced
<1> DEFINE row == <<1, 1, 1, 1>>
<1>2. row \in [1..4 -> Int]
  OBVIOUS
<1>3. /\ NewApp(tree).open = TRUE /\ NewApp(tree).sources = tree /\ NewApp(tree).sel = row
      /\ NewApp(tree).search = NoSearch /\ NewApp(tree).tags = {}
  BY DEF NewApp
<1>4. NewApp(tree) \in Apps
  <2> HIDE DEF row
  <2>1. NewApp(tree) = [open |-> TRUE, sources |-> tree, depth |-> 1, sel |-> row,
                        search |-> NoSearch, sort |-> "none", tags |-> {}]
    BY Zenon DEF NewApp, row
  <2> QED  BY <1>1, <1>2, <2>1, NoSearchTyped DEF Apps
<1>5. CursorFits(app') /\ app' \in Apps
  BY <1>1, <1>3, <1>4, CursorHome
<1>6. MatchesSound(app')
  BY <1>1, <1>3, NoSearchTyped DEF MatchesSound
<1>7. TagsSound' /\ EffectSound'
  BY <1>1, <1>3, NothingAsked DEF TagsSound, EffectSound
<1>8. ViewerInv'
  BY <1>1, <1>3, <1>5, <1>6, <1>7 DEF ViewerInv
<1> QED  BY <1>5, <1>8, OnList DEF Stays

LEMMA OtherSteps ==
    ASSUME ViewerInv, RunTui \/ Reload \/ Quit
    PROVE  ViewerInv' /\ Stays
<1>1. CASE RunTui
  <2>1. PICK tree \in SessionTrees : Reduced(NewApp(tree))
    BY <1>1 DEF RunTui
  <2>2. app = ViewerClosed
    BY <1>1 DEF RunTui, ViewerInv, Apps
  <2>3. marked' = {} /\ reordered' = FALSE
    <3>1. marked = {} /\ reordered = FALSE
      BY <2>2 DEF ViewerInv, ViewerClosed, Apps
    <3> QED  BY <1>1, <3>1 DEF RunTui, Quietly
  <2> QED  BY <2>1, <2>3, NewAppStep
<1>2. CASE Reload
  <2>1. CASE marked' = {} /\ reordered' = FALSE /\ \E tree \in SessionTrees : Reduced(NewApp(tree))
    BY <2>1, NewAppStep
  <2>2. CASE Reduced(app) /\ UNCHANGED <<marked, reordered>>
    <3>1. app.open /\ app' = app /\ effect' = NoEffect
      BY <1>2, <2>2 DEF Reload, Reading, Reduced
    <3>2. app \in Apps /\ MatchesSound(app)
      BY <3>1, OpenApp
    <3>3. /\ app' \in Apps /\ app'.sources = app.sources /\ app'.tags = app.tags
          /\ MatchesSound(app') /\ (CursorFits(app) => CursorFits(app'))
      BY <3>1, <3>2
    <3> QED  BY <2>2, <3>1, <3>3, SearchStep
  <2> QED  BY <1>2, <2>1, <2>2 DEF Reload
<1>3. CASE Quit
  <2>1. app' = ViewerClosed /\ effect' = NoEffect /\ marked' = {} /\ reordered' = FALSE
    BY <1>3 DEF Quit, Reduced
  <2>2. ViewerInv'
    BY <2>1 DEF ViewerInv
  <2>3. CursorOnList'
    BY <2>1 DEF CursorOnList, ViewerClosed
  <2> QED  BY <2>2, <2>3 DEF Stays
<1> QED  BY <1>1, <1>2, <1>3

LEMMA ViewerStep ==
    ASSUME ViewerInv, [ViewerNext]_viewerVars
    PROVE  ViewerInv' /\ (viewerVars' = viewerVars \/ Stays)
<1>1. CASE ViewerNext
  BY <1>1, OtherSteps, MoveSteps, DescendStep, AscendStep, JumpWindowStep, SearchInputStep,
     StepMatchStep, SearchHostnameStep, ClearSearchStep, SortStep, ToggleTagStep,
     GlobInputStep, EffectSteps DEF ViewerNext
<1>2. CASE UNCHANGED viewerVars
  BY <1>2 DEF viewerVars, ViewerInv, TagsSound, EffectSound
<1> QED  BY <1>1, <1>2

\* While tabs are tagged and no sort has moved them, y and e take the tabs the user
\* tagged, whatever keys came before (lib.rs 412-432, 668-761).
THEOREM TagsCorrect == ViewerSpec => []TaggedIsWhatWasMarked
<1>1. ViewerInit => ViewerInv
  BY DEF ViewerInit, ViewerInv
<1>2. ViewerInv /\ [ViewerNext]_viewerVars => ViewerInv'
  BY ViewerStep
<1>3. ViewerInv => TaggedIsWhatWasMarked
  <2> SUFFICES ASSUME ViewerInv, effect.does \in {"copy", "export"}, app.tags # {}, ~reordered
               PROVE  effect.tabs = marked \ {TabAt(app.sources, p).id :
                                       p \in {q \in Locations(app.sources) :
                                                 TabAt(app.sources, q).url = 0}}
    BY DEF TaggedIsWhatWasMarked
  <2>1. TellsTabsApart(app.sources) /\ TagsSound /\ EffectSound
    BY NothingAsked DEF ViewerInv
  <2>2. /\ app.tags \subseteq Locations(app.sources)
        /\ marked = {TabAt(app.sources, p).id : p \in app.tags}
    BY <2>1 DEF TagsSound
  <2>3. effect.tabs = TaggedTabs(app)
    BY <2>1 DEF EffectSound
  <2>4. \A p, q \in Locations(app.sources) :
           TabAt(app.sources, p).id = TabAt(app.sources, q).id => p = q
    BY <2>1 DEF TellsTabsApart
  <2> QED  BY <2>2, <2>3, <2>4 DEF TaggedTabs
<1> QED  BY <1>1, <1>2, <1>3, PTL DEF ViewerSpec

\* No key but n and N takes the cursor off its lists, and these only to a match found
\* under another order of the tree (lib.rs 516-524, 609-614, 757-778).
THEOREM CursorCorrect == ViewerSpec => OnlyAStaleMatchLeavesTheList
<1>1. ViewerInit => ViewerInv
  BY DEF ViewerInit, ViewerInv
<1>2. ViewerInv /\ [ViewerNext]_viewerVars
        => ViewerInv' /\ [CursorOnList => (CursorOnList' \/ (StepMatch /\ app.search.stale))]_viewerVars
  BY ViewerStep DEF Stays
<1> QED  BY <1>1, <1>2, PTL DEF ViewerSpec, OnlyAStaleMatchLeavesTheList

=============================================================================
