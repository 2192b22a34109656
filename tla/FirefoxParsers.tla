-------------------------- MODULE FirefoxParsers ---------------------------
(***************************************************************************)
(* The parsers of a Firefox profile (browser-forensic-firefox).            *)
(***************************************************************************)
EXTENDS Stores
LOCAL INSTANCE SequencesExt

Address(r) == Joined(r) /\ Texted(r)
DatedText(r) == Dated(r) /\ Texted(r)

\* Any recorded time will do, zero and earlier ones included.
ParseHistory(f) ==
    Query(f, {"moz_places"},
          OrderedByTime(Those(RowsIn(f, "moz_places"),
                                  LAMBDA r : Stamped(r) /\ Texted(r))), "unix")
ParseVisits(f) ==
    Query(f, {"moz_historyvisits", "moz_places"},
          Those(OrderedByTime(Those(RowsIn(f, "moz_historyvisits"), Address)), Dated), "unix")
ParseCookies(f) ==
    Query(f, {"moz_cookies"},
          OrderedByTime(Those(RowsIn(f, "moz_cookies"), DatedText)), "unix")
ParseAutofill(f) ==
    Query(f, {"moz_formhistory"},
          OrderedByTime(Those(RowsIn(f, "moz_formhistory"), DatedText)), "unix")
\* Bookmarks proper, not folders and separators.
ParseBookmarks(f) ==
    Query(f, {"moz_bookmarks", "moz_places"},
          OrderedByTime(Those(RowsIn(f, "moz_bookmarks"),
              LAMBDA r : r.sort /\ Dated(r) /\ Address(r))), "unix")
\* The annotations that name a download's target.
ParseDownloads(f) ==
    Query(f, {"moz_annos", "moz_places", "moz_anno_attributes"},
          OrderedByTime(Those(RowsIn(f, "moz_annos"),
              LAMBDA r : r.sort /\ Stamped(r) /\ Address(r))), "unix")
ParseAnnotations(f) ==
    Query(f, {"moz_annos", "moz_places", "moz_anno_attributes"},
          OrderedByTime(Those(RowsIn(f, "moz_annos"), Address)), "unix")
ParseTypedInput(f) ==
    Query(f, {"moz_inputhistory", "moz_places"},
          Those(RowsIn(f, "moz_inputhistory"), Address), "none")
ParseLocalStorage(f) ==
    Query(f, {"webappsstore2"}, Those(RowsIn(f, "webappsstore2"), Texted), "none")
ParseIndexeddb(f) == Query(f, {"object_data"}, RowsIn(f, "object_data"), "none")
ParsePermissions(f) == Query(f, {"moz_perms"}, RowsIn(f, "moz_perms"), "unix")

\* Documents whose every entry is reported; without the array there is nothing.
ParseExtensions(f) == Walk(f, RowsIn(f, "addons"), "unix")
ParseLoginData(f) == Walk(f, RowsIn(f, "logins"), "unix")
\* Of a tab its last entry.
ParseSession(f) == Walk(f, Those(RowsIn(f, "tabs"), Joined), "unix")

\* Lines of the form that is looked for, in a text; or in bytes taken for text where they
\* can be, their days multiplied unchecked.
ParsePreferences(f) == Walk(f, Decoded(RowsIn(f, "lines")), "none")
SecurityLines(f) == Those(RowsIn(f, "lines"), LAMBDA r : r.sort /\ Named(r))
\* Mistake: the file is read as text.
SiteSecurityAsText(f) ==
    Unchecked(SecurityLines(f), Walk(f, SecurityLines(f), "unix_unchecked"))
ParseSiteSecurity(f) ==
    Unchecked(SecurityLines(f), WalkBytes(f, SecurityLines(f), "unix_unchecked"))

ParseCache(f) ==
    Parsed(IF f.opens
           THEN Events(Those(RowsIn(f, "files"), LAMBDA r : r.sound /\ Named(r)), "none")
           ELSE <<>>)

(* Deleted bookmarks: what a backup holds and the current set does not.  A key is    *)
(* an address here, and a backup has a date, or 0 where its name tells none.        *)

Backups == {"backup_1", "backup_2"}
CurrentBookmarkUrls(f) == {r.key : r \in {RowsIn(f, "moz_bookmarks")[k] : k \in
    {n \in DOMAIN RowsIn(f, "moz_bookmarks") :
        LET row == RowsIn(f, "moz_bookmarks")[n] IN row.sort /\ row.sound /\ Address(row)}}}

\* Where in a backup a bookmark is; one that does not decompress or parse is passed over.
BackedUp(f, backup, url) ==
    {k \in DOMAIN RowsIn(f, backup) :
        LET row == RowsIn(f, backup)[k] IN row.sort /\ Texted(row) /\ row.key = url}
Holding(f, url) == {b \in Backups : BackedUp(f, b, url) # {}}

\* The later of two by the date of its name, then by the name.
Later(f, a, b) ==
    \/ f.lists[a].date > f.lists[b].date
    \/ f.lists[a].date = f.lists[b].date /\ a = "backup_2" /\ b = "backup_1"
RecoveredFrom(f, url) ==
    CHOOSE b \in Holding(f, url) : \A c \in Holding(f, url) \ {b} : Later(f, b, c)

RecoveredBookmark(f, url) ==
    LET held == BackedUp(f, RecoveredFrom(f, url), url)
    IN  RowsIn(f, RecoveredFrom(f, url))[CHOOSE k \in held : \A n \in held : n <= k]

\* Mistake: a backup that cannot be read ends the recovery.
StopsAtABadBackup(f) ==
    LET urls == {u \in 1..2 : Holding(f, u) # {}} \ CurrentBookmarkUrls(f)
        gone == SetToSeq({RecoveredBookmark(f, u) : u \in urls})
    IN  Parsed(IF \A b \in Backups : Here(f, b) THEN Events(gone, "unix") ELSE <<>>)

Deleted(f, url) ==
    IF Holding(f, url) # {} /\ url \notin CurrentBookmarkUrls(f)
    THEN <<RecoveredBookmark(f, url)>> ELSE <<>>

\* In the order of the addresses, then of the times at which they were bookmarked.
RecoverDeletedBookmarks(f) ==
    IF f.opens /\ Here(f, "moz_bookmarks")
    THEN Parsed(Events(OrderedByTime(Deleted(f, 0) \o Deleted(f, 1) \o Deleted(f, 2)), "unix"))
    ELSE Failed

=============================================================================
