----------------------------- MODULE Artifacts -----------------------------
(***************************************************************************)
(* br4n6 artifact NAME PATH (cli.rs, dispatch_artifact, run_artifact and   *)
(* the handlers of the other names): which parser reads the file, and what *)
(* is printed.  Between two runs the browser adds rows to the file, and    *)
(* rows are damaged: their columns, their bytes, their times.              *)
(***************************************************************************)
EXTENDS Integers, Sequences, FiniteSets, StableSort

CONSTANTS WEBKIT_EPOCH_OFFSET, CORE_DATA_EPOCH_OFFSET, OverflowChecks,
          Readers,        \* the parsers that are run
          MaxTableRows    \* how many rows a file gets

VARIABLES reader,   \* the parser: its family and the artifact
          store     \* the file

artifactVars == <<reader, store>>

Stored == INSTANCE Stores
Chromium == INSTANCE ChromiumParsers
Firefox == INSTANCE FirefoxParsers
Safari == INSTANCE SafariParsers

ChromiumLists ==
    [history |-> {"urls"}, visits |-> {"visits", "urls"}, pages |-> {"visits", "urls"},
     cookies |-> {"cookies"}, extension_cookies |-> {"cookies"},
     downloads |-> {"downloads", "downloads_url_chains"}, bookmarks |-> {"roots"},
     extensions |-> {"extensions"}, logins |-> {"logins"}, autofill |-> {"autofill"},
     cache |-> {"files"}, local_state |-> {"info_cache"},
     preferences |-> {"scalars", "times", "account_info", "startup_urls"},
     permissions |-> {"exceptions"}, tabs |-> {"tabs"},
     credentials |-> {"credit_cards", "masked_credit_cards", "token_service",
                      "autofill_profiles"},
     favicons |-> {"icon_mapping", "favicons", "favicon_bitmaps"}, top_sites |-> {"top_sites"},
     shortcuts |-> {"omni_box_shortcuts"}, predictor |-> {"network_action_predictor"},
     media_history |-> {"playback", "playbackSession", "origin"}, dips |-> {"bounces"},
     nel |-> {"nel_policies", "reporting_endpoints"}, nel_json |-> {"policies", "endpoints"},
     network_state |-> {"servers", "broken_alternative_services"},
     transport_security |-> {"sts", "root"}]
FirefoxLists ==
    [history |-> {"moz_places"}, visits |-> {"moz_historyvisits", "moz_places"},
     cookies |-> {"moz_cookies"}, autofill |-> {"moz_formhistory"},
     bookmarks |-> {"moz_bookmarks", "moz_places"},
     downloads |-> {"moz_annos", "moz_places", "moz_anno_attributes"},
     annotations |-> {"moz_annos", "moz_places", "moz_anno_attributes"},
     typed_input |-> {"moz_inputhistory", "moz_places"}, permissions |-> {"moz_perms"},
     extensions |-> {"addons"}, logins |-> {"logins"}, session |-> {"tabs"},
     preferences |-> {"lines"}, site_security |-> {"lines"}, cache |-> {"files"},
     local_storage |-> {"webappsstore2"}, indexeddb |-> {"object_data"},
     deleted_bookmarks |-> {"moz_bookmarks", "backup_1", "backup_2"}]
SafariLists ==
    [history |-> {"history_visits", "history_items"}, cookies |-> {"cookies"},
     bookmarks |-> {"Children"}, downloads |-> {"DownloadHistory"},
     extensions |-> {"Installed_Extensions"}, topsites |-> {"TopSites"},
     webcache |-> {"Containers", "Container_1", "Container_2"}]

\* Every parser.
KnownReaders ==
    [family : {"Chromium"}, artifact : DOMAIN ChromiumLists]
    \cup [family : {"Firefox"}, artifact : DOMAIN FirefoxLists]
    \cup [family : {"Safari"}, artifact : DOMAIN SafariLists]
ASSUME ReadersAssumption == Readers \subseteq KnownReaders /\ MaxTableRows \in Nat
ASSUME OffsetsAssumption == WEBKIT_EPOCH_OFFSET \in Nat /\ CORE_DATA_EPOCH_OFFSET \in Nat
ASSUME BuildAssumption == OverflowChecks \in BOOLEAN

ListsOf ==
    CASE reader.family = "Chromium" -> ChromiumLists[reader.artifact]
      [] reader.family = "Firefox" -> FirefoxLists[reader.artifact]
      [] reader.family = "Safari" -> SafariLists[reader.artifact]

ParseChromium(artifact, f) ==
    CASE artifact = "history" -> Chromium!ParseHistory(f)
      [] artifact = "visits" -> Chromium!ParseVisits(f)
      [] artifact = "pages" -> Chromium!CollapseRedirects(f, Chromium!ParseVisits(f))
      [] artifact = "cookies" -> Chromium!ParseCookies(f)
      [] artifact = "extension_cookies" -> Chromium!ParseExtensionCookies(f)
      [] artifact = "downloads" -> Chromium!ParseDownloads(f)
      [] artifact = "bookmarks" -> Chromium!ParseBookmarks(f)
      [] artifact = "extensions" -> Chromium!ParseExtensions(f)
      [] artifact = "logins" -> Chromium!ParseLoginData(f)
      [] artifact = "autofill" -> Chromium!ParseAutofill(f)
      [] artifact = "cache" -> Chromium!ParseCache(f)
      [] artifact = "local_state" -> Chromium!ParseLocalState(f)
      [] artifact = "preferences" -> Chromium!ParsePreferences(f)
      [] artifact = "permissions" -> Chromium!ParsePermissions(f)
      [] artifact = "tabs" -> Chromium!ParseSession(f)
      [] artifact = "credentials" -> Chromium!ParseWebData(f)
      [] artifact = "favicons" -> Chromium!ParseFavicons(f)
      [] artifact = "top_sites" -> Chromium!ParseTopSites(f)
      [] artifact = "shortcuts" -> Chromium!ParseShortcuts(f)
      [] artifact = "predictor" -> Chromium!ParseNetworkActionPredictor(f)
      [] artifact = "media_history" -> Chromium!ParseMediaHistory(f)
      [] artifact = "dips" -> Chromium!ParseDips(f)
      [] artifact = "nel" -> Chromium!ParseNelSqlite(f)
      [] artifact = "nel_json" -> Chromium!ParseNelJson(f)
      [] artifact = "network_state" -> Chromium!ParseNetworkPersistentState(f)
      [] artifact = "transport_security" -> Chromium!ParseTransportSecurity(f)

ParseFirefox(artifact, f) ==
    CASE artifact = "history" -> Firefox!ParseHistory(f)
      [] artifact = "visits" -> Firefox!ParseVisits(f)
      [] artifact = "cookies" -> Firefox!ParseCookies(f)
      [] artifact = "autofill" -> Firefox!ParseAutofill(f)
      [] artifact = "bookmarks" -> Firefox!ParseBookmarks(f)
      [] artifact = "downloads" -> Firefox!ParseDownloads(f)
      [] artifact = "annotations" -> Firefox!ParseAnnotations(f)
      [] artifact = "typed_input" -> Firefox!ParseTypedInput(f)
      [] artifact = "permissions" -> Firefox!ParsePermissions(f)
      [] artifact = "extensions" -> Firefox!ParseExtensions(f)
      [] artifact = "logins" -> Firefox!ParseLoginData(f)
      [] artifact = "session" -> Firefox!ParseSession(f)
      [] artifact = "preferences" -> Firefox!ParsePreferences(f)
      [] artifact = "site_security" -> Firefox!ParseSiteSecurity(f)
      [] artifact = "cache" -> Firefox!ParseCache(f)
      [] artifact = "local_storage" -> Firefox!ParseLocalStorage(f)
      [] artifact = "indexeddb" -> Firefox!ParseIndexeddb(f)
      [] artifact = "deleted_bookmarks" -> Firefox!RecoverDeletedBookmarks(f)

ParseSafari(artifact, f) ==
    CASE artifact = "history" -> Safari!ParseHistory(f)
      [] artifact = "cookies" -> Safari!ParseCookies(f)
      [] artifact = "bookmarks" -> Safari!ParseBookmarks(f)
      [] artifact = "downloads" -> Safari!ParseDownloads(f)
      [] artifact = "extensions" -> Safari!ParseExtensions(f)
      [] artifact = "topsites" -> Safari!ParseTopSites(f)
      [] artifact = "webcache" -> Safari!ParseWebcache(f)

ParseArtifact(f) ==
    CASE reader.family = "Chromium" -> ParseChromium(reader.artifact, f)
      [] reader.family = "Firefox" -> ParseFirefox(reader.artifact, f)
      [] reader.family = "Safari" -> ParseSafari(reader.artifact, f)

\* What is printed: in the order of time, or an error and nothing.
Unsorted == {"typed_input", "deleted_bookmarks"}
RunArtifact(f) ==
    LET parsed == ParseArtifact(f)
        times == [k \in DOMAIN parsed.events |-> parsed.events[k].at]
    IN  IF reader.artifact \in Unsorted THEN parsed
        ELSE [parsed EXCEPT !.events = SortedByKey(@, times)]

(* The file over time. *)

Trees == {"roots", "Children"}
JoinedLists ==
    {"visits", "icon_mapping", "tabs", "moz_historyvisits", "moz_bookmarks", "moz_annos",
     "moz_inputhistory", "history_visits"}
SortedOut == {"logins", "visits", "moz_bookmarks", "moz_annos", "lines", "Containers"} \cup Trees

LinksOf(list) ==
    CASE list \in Trees -> 0..MaxTableRows
      [] list = "Containers" -> {1, 2}
      [] list \in JoinedLists -> {0, 1}
      [] OTHER -> {1}
\* Their rows are only what the links of others lead to.
Referred == {"moz_places", "moz_anno_attributes", "downloads_url_chains", "favicons",
             "favicon_bitmaps", "history_items"}

IsRecovery == reader.artifact = "deleted_bookmarks"

\* Rows that want in one respect at most.
WholeRow(list, id) ==
    [id |-> id, key |-> 1, at |-> 2, sound |-> TRUE, link |-> IF list \in Trees THEN 0 ELSE 1,
     sort |-> TRUE]
Wanting(list, id) ==
    LET whole == WholeRow(list, id)
    IN  {whole} \cup {[whole EXCEPT !.link = n] : n \in LinksOf(list)}
        \cup (IF list \in SortedOut THEN {[whole EXCEPT !.sort = FALSE]} ELSE {})
        \cup (IF IsRecovery THEN {[whole EXCEPT !.key = 2]}
              ELSE {[whole EXCEPT !.key = n] : n \in {Stored!Null, 0}}
                   \cup {[whole EXCEPT !.at = n] : n \in {Stored!Null, 0}})
\* Rows are numbered as they come.
AllRows(f) == {p \in ListsOf \X (1..MaxTableRows) : p[2] \in DOMAIN f.lists[p[1]].rows}
NewRows(list) == Wanting(list, 1 + Cardinality(AllRows(store)))

\* A file for the parser, still empty; a backup bears a date, or none.
ArtifactsInit ==
    /\ reader \in Readers
    /\ \E opens \in BOOLEAN, states \in [ListsOf -> {"here", "absent", "changed"}],
          dates \in [ListsOf -> {0, 1}] :
          /\ reader.artifact # "credentials" => \A l \in ListsOf : states[l] # "changed"
          /\ \A l \in ListsOf : l \in Firefox!Backups \/ dates[l] = 0
          /\ store = [opens |-> opens, utf8 |-> TRUE,
                       lists |-> [l \in ListsOf |-> [state |-> states[l], rows |-> <<>>,
                                                     date |-> dates[l]]]]

NothingToRead ==
    /\ reader = [family |-> "Safari", artifact |-> "cookies"] /\ ~store.opens
    /\ Stored!Here(store, "cookies")

\* MaxTableRows bounds the rows.
AddRow ==
    /\ \E list \in ListsOf \ Referred : \E row \in NewRows(list) :
          /\ store.opens /\ Stored!Here(store, list) /\ row.id <= MaxTableRows
          /\ store' = [store EXCEPT !.lists[list].rows = Append(@, row)]
    /\ UNCHANGED reader

\* A column of a row no longer holds what it should.
SpoilRow ==
    /\ \E list \in ListsOf : \E k \in DOMAIN store.lists[list].rows :
          /\ store.lists[list].rows[k].sound
          /\ store' = [store EXCEPT !.lists[list].rows[k] =
                                    [@ EXCEPT !.sound = FALSE, !.at = Stored!Null]]
    /\ UNCHANGED reader

\* Bytes of a row are no text any more: the file is none either, and in a database the
\* column does not decode.  (A backup of which this is true is one that is changed.)
GarbleRow ==
    /\ \E list \in ListsOf \ Firefox!Backups : \E k \in DOMAIN store.lists[list].rows :
          /\ store.lists[list].rows[k].sound
          /\ store' = [store EXCEPT !.lists[list].rows[k] = [@ EXCEPT !.sound = FALSE],
                                    !.utf8 = FALSE]
    /\ UNCHANGED reader

\* The time of a row is one that no clock shows.
StretchRow ==
    /\ \E list \in ListsOf : \E k \in DOMAIN store.lists[list].rows :
          /\ store.lists[list].rows[k].at # Stored!Huge
          /\ store' = [store EXCEPT !.lists[list].rows[k] = [@ EXCEPT !.at = Stored!Huge]]
    /\ UNCHANGED reader

ArtifactsNext == AddRow \/ SpoilRow \/ GarbleRow \/ StretchRow
ArtifactsSpec == ArtifactsInit /\ [][ArtifactsNext]_artifactVars

-----------------------------------------------------------------------------
(* What is reported. *)

RowAt(f, p) == f.lists[p[1]].rows[p[2]]

\* A row, and those that are only reached through it: below a folder, or in the table
\* a container names.
Below(f, p) ==
    LET rows == f.lists[p[1]].rows
        under[n \in 0..MaxTableRows] ==
            IF n = 0 THEN {}
            ELSE IF n = p[2] \/ (n \in DOMAIN rows /\ rows[n].link \in under[n - 1])
                 THEN under[n - 1] \cup {n} ELSE under[n - 1]
    IN  {q \in AllRows(f) :
            \/ q = p
            \/ p[1] \in Trees /\ q[1] = p[1] /\ q[2] \in under[MaxTableRows]
            \/ p[1] = "Containers" /\ q[1] = Safari!TableOf(RowAt(f, p))}

OtherEvents(f, events, p) ==
    Those(events, LAMBDA e : e.row \notin {RowAt(f, q).id : q \in Below(f, p)})

\* The exceptions.  A JSON document, a plist and prefs.js are read as one text: bytes that
\* are none fail them whole.  In a program built with overflow checks, a time of the two
\* formats whose times are multiplied unchecked may end the run.
ReadAsText ==
    \/ reader.family = "Chromium" /\ reader.artifact \in
          {"bookmarks", "local_state", "preferences", "permissions", "nel_json",
           "network_state", "transport_security"}
    \/ reader.family = "Firefox" /\ reader.artifact \in
          {"extensions", "logins", "session", "preferences"}
    \/ reader.family = "Safari" /\ reader.artifact \in
          {"bookmarks", "downloads", "extensions", "topsites"}
MayOverflow(f) ==
    /\ OverflowChecks /\ reader.artifact \in {"transport_security", "site_security"}
    /\ \E l \in ListsOf : \E k \in DOMAIN f.lists[l].rows : f.lists[l].rows[k].at = Stored!Huge
ARowRuinsAll ==
    \/ ReadAsText /\ store'.utf8 # store.utf8
    \/ MayOverflow(store) \/ MayOverflow(store')

\* Each row is reported for itself: but for these, whatever is added to a file, and
\* whatever damage a row takes, what the file's other rows say, in which order, and
\* whether the parser succeeds, is as before.  (Bookmarks are deleted relative to one
\* another.)
RowsStandAlone ==
    [][LET before == RunArtifact(store)
           after == RunArtifact(store')
       IN  ~IsRecovery /\ ~ARowRuinsAll =>
           \A p \in AllRows(store') :
               p \notin AllRows(store) \/ RowAt(store', p) # RowAt(store, p) =>
                   /\ after.ok = before.ok
                   /\ OtherEvents(store', after.events, p) = OtherEvents(store', before.events, p)]_store

\* No bookmark is lost without a trace: one that a readable backup holds is among the
\* bookmarks, or is reported once as deleted, whatever the other backups are like.
BackedUpBookmarksAreKept ==
    IsRecovery /\ RunArtifact(store).ok =>
        \A url \in {1, 2} : Firefox!Holding(store, url) # {} =>
            \/ url \in Firefox!CurrentBookmarkUrls(store)
            \/ Cardinality({k \in DOMAIN RunArtifact(store).events :
                    \E p \in AllRows(store) :
                        RowAt(store, p).key = url /\ RowAt(store, p).id = RunArtifact(store).events[k].row}) = 1

=============================================================================
