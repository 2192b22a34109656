------------------------------ MODULE MCBr4n6 ------------------------------
(***************************************************************************)
(* The verbs over small evidence: cases to triage and to search, trees of   *)
(* files to be discovered, roots with key material, profiles with visits,   *)
(* session files, caches and stores.                                        *)
(***************************************************************************)
EXTENDS Br4n6, TLC

CONSTANTS chromium1, chromium2, safari, webcache     \* profiles

-----------------------------------------------------------------------------
(* Cases: two profiles side by side or nothing, or a file.  What differs    *)
(* between them is what the first profile holds of the items that interfere *)
(* with each other.                                                         *)

Interfering ==
    {<<"History", "visit", "a">>, <<"History", "cleared", "c">>, <<"History", "freed", "r">>,
     <<"Cookies", "cookie", "k">>, <<"Network/Network Persistent State", "domain", "a">>,
     <<"History", "broken", "-">>}

Always ==
    {<<"History", "download", "x.exe">>, <<"History", "logged", "r">>,
     <<"Extensions", "extension", "e">>, <<"Cache", "evicted", "u">>,
     <<"Network Persistent State", "domain", "a">>}

Profile(number, family, stamp, holds) ==
    [path |-> number, family |-> family, stamp |-> stamp, holds |-> holds]

Fox == Profile(2, "Firefox", "Firefox/x",
    {<<"places.sqlite", "visit", "b">>, <<"places.sqlite", "gap", "g">>,
     <<"cookies.sqlite", "late", "l">>, <<"bookmarkbackups", "bookmark", "m">>,
     <<"SiteSecurityServiceState.txt", "domain", "a">>, <<"places.sqlite", "malformed", "o">>})

Twin == Profile(3, "Chromium", "Chrome/Profile 1",
    {<<"History", "download", "x.exe">>, <<"Cookies", "cookie", "k">>,
     <<"Network Persistent State", "domain", "a">>})

Bare == Profile(0, "Chromium", "none", {<<"Cache", "evicted", "u">>, <<"DIPS", "domain", "c">>})

Directory(inside) ==
    [shape |-> "directory", profiles |-> inside, self |-> Bare, fragments |-> <<>>,
     unreadable |-> FALSE]

SomeFile(shape, unreadable) ==
    [shape |-> shape, profiles |-> <<>>, self |-> Fox, fragments |-> <<"f", "f">>,
     unreadable |-> unreadable]

MCPaths ==
    {Directory(<<Profile(1, "Chromium", "Chrome/Default", some \cup Always), second>>) :
        some \in SUBSET Interfering, second \in {Fox, Twin}}
    \cup {Directory(<<>>)}
    \cup {SomeFile(shape, unreadable) : shape \in {"sqlite", "disk", "other"}, unreadable \in BOOLEAN}

-----------------------------------------------------------------------------
(* Trees: a Chrome directory with its profile, beside copies of it; files of *)
(* several browsers in one directory; containers, known and not, in one     *)
(* another.                                                                  *)

NoContents == [header |-> "none", tables |-> {}]
Node(in, name, is) ==
    [in |-> in, name |-> name, is |-> is, to |-> 0, reads |-> TRUE, holds |-> NoContents]
Dir(in, name) == Node(in, name, "dir")
Closed(in, name) == [Dir(in, name) EXCEPT !.reads = FALSE]
File(in, name) == Node(in, name, "file")
Database(in, name, tables) ==
    [File(in, name) EXCEPT !.holds = [header |-> "SQLite", tables |-> tables]]
Link(in, name, to) == [Node(in, name, "link") EXCEPT !.to = to]

\* The profile may have files of another browser, or be a link into the copies.
ChromeTree(sibling, default, history) ==
    LET other == IF sibling = "Cache" THEN "Cookies" ELSE "places.sqlite"
        copies == IF default = "link" THEN 4 ELSE 5
    IN  <<Dir(0, "Chrome"), Dir(1, sibling),
          CASE default = "link" -> Link(1, "Default", 4)
            [] default = "closed" -> Closed(1, "Default")
            [] default = "dir" -> Dir(1, "Default"),
          IF default = "link" THEN Dir(0, "copies") ELSE File(3, other),
          IF default = "link" THEN File(4, other) ELSE Dir(0, "copies"),
          Database(copies, "History", {"urls", "visits"}),
          IF default = "link" \/ history = "none" THEN File(copies, "Preferences")
          ELSE IF history = "link" THEN Link(3, "History", 6)
          ELSE Database(3, "History", {"urls"}),
          Link(copies, "again", 0), Dir(0, "Firefox"), Dir(9, "p"), File(10, "places.sqlite")>>

Dump(first, second, cookies) ==
    <<Dir(0, "Default"), first, second, Database(0, cookies, {"cookies"}),
      File(0, "WebCacheV01.dat")>>

Container(framework, sub, leveldb, session) ==
    <<Dir(0, framework), Dir(1, sub), Dir(2, "Local Storage"), leveldb, Dir(0, "WebCache"),
      File(5, "WebCacheV01.dat"), Link(0, "Safari", 8), Dir(0, "s"), File(8, "History.db"),
      File(session, "previous.jsonlz4"), Dir(8, "deep"), Dir(11, "deeper"),
      File(12, "places.sqlite")>>

MCTreesGiven ==
    {ChromeTree(s, d, h) : s \in {"Cache", "Crashpad"}, d \in {"dir", "link", "closed"},
                           h \in {"link", "none", "file"}}
    \cup {Dump(f, s, c) :
            f \in {File(0, "History"), File(1, "History"),
                   Database(0, "History.db", {"history_items", "history_visits"})},
            s \in {Database(0, "places.sqlite", {"moz_places"}), Link(0, "places.sqlite", 4),
                   [File(0, "other") EXCEPT !.reads = FALSE]},
            c \in {"Cookies", "cookies.sqlite"}}
    \cup {Container(a, b, l, s) :
            a \in {"Slack", "Unheard"}, b \in {"Partition", "Cache"},
            l \in {Dir(3, "leveldb"), Link(3, "leveldb", 1), File(3, "leveldb")}, s \in {8, 3}}

-----------------------------------------------------------------------------
(* Key material of two users, some of it behind a link, and rows that        *)
(* either's key, or none, opens.                                             *)

Holding(node, contents) == [node EXCEPT !.holds = contents]
State(in, wrapped, key, by) ==
    Holding(File(in, "Local State"), [wrapped |-> wrapped, key |-> key, by |-> by])
Masterkey(in, masterkey, password, sid) ==
    Holding(File(in, "GUID"), [masterkey |-> masterkey, password |-> password, sid |-> sid])
Key4(in, password, key) == Holding(File(in, "key4.db"), [password |-> password, key |-> key])

\* Two profiles' states, the master keys of two users, the second's perhaps elsewhere.
WindowsRoot(first, elsewhere) ==
    <<Dir(0, "Protect"), Dir(1, "sid1"), Masterkey(2, "m1", "p1", "sid1"),
      IF elsewhere THEN Link(1, "sid2", 5) ELSE Dir(1, "sid2"),
      Dir(0, "outside"),
      Masterkey(IF elsewhere THEN 5 ELSE 4, "m2", "p1", "sid2"),
      State(0, first, "k1", "m1"), State(1, TRUE, "k2", "m2"),
      IF elsewhere THEN Link(2, "GUID", 6) ELSE File(2, "Preferred")>>
MacRoot == <<State(0, FALSE, "none", "none")>>
FirefoxRoot(password) ==
    <<Dir(0, "a"), Key4(1, password, "k1"), Dir(0, "b"), Key4(3, "none", "k2"),
      [Key4(0, "none", "k2") EXCEPT !.reads = FALSE]>>

Value(text, host) == [text |-> text, boundTo |-> host]
Row(scheme, key, host, plain) ==
    [sound |-> TRUE, scheme |-> scheme, key |-> key, host |-> host, plain |-> plain]
\* Bound to its host, moved from another's row, from before values were bound, of a
\* scheme that is refused, damaged.
CookieRows ==
    {Row(s, k, "h1", v) : s \in {"GCM", "CBC"}, k \in {"k1", "k2"},
                          v \in {Value("x", "h1"), Value("x", "h2"), Value("x", "none")}}
    \cup {Row("v20", "k1", "h1", Value("x", "h1")),
          [Row("GCM", "k1", "h1", Value("x", "h1")) EXCEPT !.sound = FALSE]}
Wanted(artifact, root, password, keychain, reveal, opens, rows) ==
    [artifact |-> artifact, root |-> root, password |-> password, keychain |-> keychain,
     opens |-> opens, reveal |-> reveal, rows |-> rows]
MCCookies ==
    {Wanted("cookies", root, p, "k1", FALSE, TRUE, <<a, Row("CBC", "k1", "h1", Value("y", "h1"))>>) :
        root \in {WindowsRoot(f, e) : f, e \in BOOLEAN} \cup {MacRoot, <<>>},
        p \in {"p1", "none"}, a \in CookieRows}
    \cup {Wanted("cookies", MacRoot, "none", "none", FALSE, o, <<>>) : o \in BOOLEAN}

LoginRow(key, sound) ==
    [sound |-> sound, scheme |-> "CBC", key |-> key, plain |-> Value("user", "none"),
     password |-> Value("pw", "none")]
MCLogins ==
    {Wanted("logins", root, "none", "none", reveal, opens, <<LoginRow(k, s), LoginRow("k1", TRUE)>>) :
        root \in {FirefoxRoot("none"), FirefoxRoot("p1"), <<>>}, reveal, opens \in BOOLEAN,
        k \in {"k1", "k2"}, s \in BOOLEAN}

-----------------------------------------------------------------------------
(* Two Chromium profiles with the same visit ids, a Safari and a WebCache one. *)

MCFamily == (chromium1 :> "Chromium") @@ (chromium2 :> "Chromium")
            @@ (safari :> "Safari") @@ (webcache :> "WebCache")
MCName == (chromium1 :> "Default") @@ (chromium2 :> "Default")
          @@ (safari :> "Default") @@ (webcache :> "WebCache")
MCUser == (chromium1 :> "ann") @@ (chromium2 :> "bob") @@ (safari :> "ann") @@ (webcache :> "bob")

HomeVisit(id, from, time) ==
    [id |-> id, from |-> from, redirect |-> FALSE, time |-> time, session |-> 0]
MCVisits ==
    (chromium1 :> <<HomeVisit(1, 0, 1), HomeVisit(2, 1, 4)>>)
    @@ (chromium2 :> <<HomeVisit(1, 0, 2), HomeVisit(2, 1, 3)>>)
    @@ (safari :> <<>>) @@ (webcache :> <<>>)

-----------------------------------------------------------------------------
(* Session files, visits, caches, answers and stored items. *)

\* Two windows, one with two tabs, one without, and a source without any; a tab
\* without a history beside one with.
Tab(id, title, url) == [id |-> id, title |-> title, url |-> url, navs |-> 1]
Untouched(id) == [id |-> id, title |-> 0, url |-> 0, navs |-> 0]
MCSessionTrees ==
    {<< <<[active |-> 1, tabs |-> <<Tab(1, 2, 2), Tab(2, 1, 3)>>], [active |-> 2, tabs |-> <<>>]>>,
        <<>> >>,
     << <<[active |-> 1, tabs |-> <<Tab(1, 1, 2), Untouched(2)>>]>> >>}

ListedVisit(id, from, redirect, time, session) ==
    [id |-> id, from |-> from, redirect |-> redirect, time |-> time, session |-> session]

\* Three visits that come from each other in every way, two with one id, or from
\* nowhere; and a chain of three at several times in several sessions.
MCLists ==
    {<<ListedVisit(1, f[1], r[1], 2, 0), ListedVisit(2, f[2], r[2], 1, 0),
       ListedVisit(id, f[3], r[3], 3, 0)>> :
        f \in [1..3 -> 0..4], r \in [1..3 -> BOOLEAN], id \in {2, 3}}
    \cup
    {<<ListedVisit(1, 0, FALSE, t[1], s[1]), ListedVisit(2, 1, FALSE, t[2], s[2]),
       ListedVisit(3, 2, FALSE, t[3], s[3])>> :
        t \in [1..3 -> {1, 2, 5}], s \in [1..3 -> 0..2]}

\* What two caches hold of a page, with up to three elements, of a stylesheet, a
\* script and two copies of an image; and Safari's cache, given as a file.
Element(is, url, urls) == [is |-> is, url |-> url, urls |-> urls]
MCElements ==
    {Element("stylesheet", u, <<>>) : u \in {"css", Embedded, "gone"}}
    \cup {Element("script", u, <<>>) : u \in {"script", Embedded}}
    \cup {Element("icon", "image", <<>>), Element("media", "image", <<"script", "gone">>),
          Element("style", NoAddress, <<"image", "gone", Embedded, "css">>)}
\* An address that fills the page as an icon and is then a stylesheet.
MCIconThenSheet ==
    [n \in 1..4 |-> Element(IF n < 4 THEN "icon" ELSE "stylesheet", "css", <<>>)]
Resource(url, type, len) ==
    [url |-> url, type |-> type, len |-> len, elements |-> <<>>, urls |-> <<>>]
Html(url, elements) == [Resource(url, "html", 1) EXCEPT !.elements = elements]
Css == [Resource("css", "other", 1) EXCEPT !.urls = <<"image", "gone", "css", "script">>]
Image(len) == Resource("image", "image", len)
CachedIn(simple, safariHolds, storage) ==
    [b \in DOMAIN NoCaches.held |->
        CASE b = "simple" -> simple [] b = "safari" -> safariHolds [] b = "cachestorage" -> storage
          [] OTHER -> <<>>]
MCCaches ==
    {[isFile |-> FALSE,
      held |-> CachedIn(<<Html("page", elements), Css>>, <<Html("other", <<>>), Image(1)>>,
                     <<Resource("script", "other", 2), Image(2)>>)] :
        elements \in (UNION {[1..n -> MCElements] : n \in 1..3}) \cup {MCIconThenSheet}}
    \cup {[isFile |-> TRUE,
           held |-> CachedIn(<<>>, <<Html("page", <<Element("icon", "image", <<>>)>>), Image(1)>>, <<>>)]}
MCStem(url) == "page"

\* Answers in one coding, in several, in one that is not known, or too big.
Response(declared, delivered, big) ==
    [declared |-> declared, delivered |-> delivered, big |-> big]
MCResponses ==
    {Response(<<>>, <<>>, FALSE), Response(<<>>, <<"gzip">>, FALSE),
     Response(<<"gzip">>, <<>>, FALSE), Response(<<"gzip">>, <<"gzip">>, FALSE),
     Response(<<"gzip">>, <<>>, TRUE), Response(<<"br">>, <<>>, FALSE),
     Response(<<"br", "gzip">>, <<>>, FALSE), Response(<<"unknown">>, <<"unknown">>, FALSE)}

\* Two values of an item that decode, and one that does not.
MCItemValues == [plain : {TRUE}, v : {1, 2}] \cup [plain : {FALSE}, v : {1}]

=============================================================================
