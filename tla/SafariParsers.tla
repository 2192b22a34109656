--------------------------- MODULE SafariParsers ---------------------------
(***************************************************************************)
(* The parsers of a Safari profile (browser-forensic-safari) and of the    *)
(* WebCache of Internet Explorer and the first Edge                        *)
(* (browser-forensic-webcache).                                            *)
(***************************************************************************)
EXTENDS Stores

ParseHistory(f) ==
    Query(f, {"history_visits", "history_items"},
          OrderedByTime(Those(RowsIn(f, "history_visits"),
              LAMBDA r : Joined(r) /\ Texted(r) /\ Dated(r))), "core_data")
ParseCookies(f) ==
    Query(f, {"cookies"},
          OrderedByTime(Those(RowsIn(f, "cookies"), LAMBDA r : Texted(r) /\ Dated(r))),
          "core_data")

\* A folder or leaf that is no dictionary is passed over, with what is below it.
ParseBookmarks(f) == Walk(f, Leaves(RowsIn(f, "Children")), "none")

\* Documents that are not what they should be are errors.
ParseDownloads(f) ==
    IF Here(f, "DownloadHistory")
    THEN Walk(f, Decoded(RowsIn(f, "DownloadHistory")), "core_data") ELSE Failed
ParseExtensions(f) ==
    IF Here(f, "Installed_Extensions")
    THEN Walk(f, Decoded(RowsIn(f, "Installed_Extensions")), "none") ELSE Failed
\* This one may be without its array.
ParseTopSites(f) ==
    Walk(f, Those(RowsIn(f, "TopSites"), LAMBDA r : r.sound /\ Named(r)), "none")

(* WebCache: the table Containers names the others. *)

\* classify_container: a name it knows is of the sort that is looked for.
IsRead(container) == container.sound /\ Named(container) /\ container.sort
TableOf(container) == IF container.link = 1 THEN "Container_1" ELSE "Container_2"

\* A table that is not there, or a record that does not decode, is passed over; a
\* record without an address or a time is reported without.
EventFromRecord(r) == [row |-> r.id, at |-> Timestamp("webkit_if_any", r.at)]
RecordsOf(f, container) ==
    LET records == Decoded(RowsIn(f, TableOf(container)))
    IN  [k \in DOMAIN records |-> EventFromRecord(records[k])]

ParseWebcache(f) ==
    LET containers == RowsIn(f, "Containers")
        upTo[n \in 0..Len(containers)] ==
            IF n = 0 THEN <<>>
            ELSE upTo[n - 1] \o (IF IsRead(containers[n]) THEN RecordsOf(f, containers[n]) ELSE <<>>)
    IN  IF f.opens /\ Here(f, "Containers") THEN Parsed(upTo[Len(containers)]) ELSE Failed

=============================================================================
