-------------------------- MODULE ChromiumParsers --------------------------
(***************************************************************************)
(* The parsers of a Chromium profile (browser-forensic-chrome), each over  *)
(* the file it is given.  Which lists a parser needs, which rows it        *)
(* reports and by which clock are the code's; the wording of an event is   *)
(* left out.                                                               *)
(***************************************************************************)
EXTENDS Stores

DatedText(r) == Dated(r) /\ Texted(r)
Link(r) == Joined(r) /\ Texted(r)

ParseAutofill(f) ==
    Query(f, {"autofill"}, OrderedByTime(Those(RowsIn(f, "autofill"), DatedText)), "unix")

\* The partition key is asked for only where the column exists.
ParseCookieStore(f) ==
    Query(f, {"cookies"}, OrderedByTime(Those(RowsIn(f, "cookies"), DatedText)), "webkit")
ParseCookies(f) == ParseCookieStore(f)
ParseExtensionCookies(f) == ParseCookieStore(f)

\* A left join: a download without an address is reported too.
ParseDownloads(f) ==
    Query(f, {"downloads", "downloads_url_chains"},
          OrderedByTime(Those(RowsIn(f, "downloads"), DatedText)), "webkit")

ParseHistory(f) ==
    Query(f, {"urls"}, Those(OrderedByTime(RowsIn(f, "urls")), DatedText), "webkit")

\* An inner join: the visits of addresses that are gone stay out.
ParseVisits(f) ==
    Query(f, {"visits", "urls"},
          Those(OrderedByTime(Those(RowsIn(f, "visits"), Joined)), DatedText), "webkit")

\* A refusal to save a password is kept whenever it was made, even at no time.
ParseLoginData(f) ==
    Query(f, {"logins"},
          OrderedByTime(Those(RowsIn(f, "logins"),
              LAMBDA r : (Dated(r) \/ (r.sort /\ Stamped(r))) /\ Texted(r))), "webkit")

\* The time is the last activation, or else the last of any kind.  The columns
\* are looked up first, which does not fail where the table is missing.
ParseDips(f) ==
    Query(f, {"bounces"}, Those(RowsIn(f, "bounces"), Named), "webkit_if_any")

ParseFavicons(f) ==
    QueryIfAny(f, {"icon_mapping", "favicons", "favicon_bitmaps"},
               OrderedByTime(Those(RowsIn(f, "icon_mapping"),
                                       LAMBDA r : Joined(r) /\ Named(r))), "webkit_if_any")
ParseShortcuts(f) ==
    QueryIfAny(f, {"omni_box_shortcuts"},
               OrderedByTime(Those(RowsIn(f, "omni_box_shortcuts"), Named)), "webkit_if_any")
ParseTopSites(f) ==
    QueryIfAny(f, {"top_sites"}, Those(RowsIn(f, "top_sites"), Named), "none")
ParseNetworkActionPredictor(f) ==
    QueryIfAny(f, {"network_action_predictor"},
               Those(RowsIn(f, "network_action_predictor"), Named), "none")

\* Three tables, each on its own.
PlaybackEvents(f) ==
    QueryIfAny(f, {"playback"}, Those(RowsIn(f, "playback"), Named), "webkit_if_any")
SessionEvents(f) ==
    QueryIfAny(f, {"playbackSession"}, Those(RowsIn(f, "playbackSession"), Named),
               "webkit_if_any")
OriginEvents(f) ==
    QueryIfAny(f, {"origin"}, Those(RowsIn(f, "origin"), Named), "webkit_if_any")
ParseMediaHistory(f) == Then(Then(PlaybackEvents(f), SessionEvents(f)), OriginEvents(f))

\* Web Data: a table may be missing, but one that is there must be as expected.
IfThere(f, list, parsed) == IF f.lists[list].state = "absent" THEN Parsed(<<>>) ELSE parsed
ParseCreditCards(f) ==
    Query(f, {"credit_cards"}, Those(RowsIn(f, "credit_cards"), Stamped), "webkit")
ParseMaskedCreditCards(f) ==
    Query(f, {"masked_credit_cards"}, RowsIn(f, "masked_credit_cards"), "none")
ParseTokenService(f) ==
    Query(f, {"token_service"}, Those(RowsIn(f, "token_service"), Texted), "none")
ParseAutofillProfiles(f) ==
    Query(f, {"autofill_profiles"},
          Those(RowsIn(f, "autofill_profiles"), LAMBDA r : Texted(r) /\ Stamped(r)), "webkit")
ParseWebData(f) ==
    IF ~f.opens THEN Failed
    ELSE Then(Then(Then(IfThere(f, "credit_cards", ParseCreditCards(f)),
                        IfThere(f, "masked_credit_cards", ParseMaskedCreditCards(f))),
                   IfThere(f, "token_service", ParseTokenService(f))),
              IfThere(f, "autofill_profiles", ParseAutofillProfiles(f)))

\* Reporting and NEL: a database, or in earlier versions a document.
ParseNelSqlite(f) ==
    Then(QueryIfAny(f, {"nel_policies"}, Those(RowsIn(f, "nel_policies"), Named), "webkit"),
         QueryIfAny(f, {"reporting_endpoints"},
                    Those(RowsIn(f, "reporting_endpoints"), Named), "none"))
\* An entry without a host, or a file without an address, names nobody.
Host(r) == r.sound /\ Named(r)
ParseNelJson(f) ==
    Walk(f, Those(RowsIn(f, "policies"), Host) \o Those(RowsIn(f, "endpoints"), Host), "none")

ParseNetworkPersistentState(f) ==
    Then(Walk(f, Those(RowsIn(f, "servers"), Host), "none"),
         Walk(f, Those(RowsIn(f, "broken_alternative_services"), Host), "unix"))

\* The array, if there is one, else the object of the first format; times are converted
\* unchecked.
PinnedHosts(f) ==
    IF Here(f, "sts") THEN Those(RowsIn(f, "sts"), LAMBDA r : r.sound /\ Texted(r))
    ELSE Decoded(RowsIn(f, "root"))
ParseTransportSecurity(f) == Unchecked(PinnedHosts(f), Walk(f, PinnedHosts(f), "unix_unchecked"))

\* The folders below the three known roots; a leaf need not have an address.
ParseBookmarks(f) == Walk(f, Leaves(RowsIn(f, "roots")), "webkit")

\* Documents whose every entry is reported, with defaults for what is not there.
ParseLocalState(f) == Walk(f, RowsIn(f, "info_cache"), "unix")
ParsePermissions(f) == Walk(f, RowsIn(f, "exceptions"), "webkit_if_any")
\* A time that is no number is none.
TimePrefs(f) ==
    Then(Walk(f, Those(RowsIn(f, "times"), Stamped), "webkit"),
         Walk(f, Those(RowsIn(f, "times"), LAMBDA r : ~Stamped(r)), "none"))
ParsePreferences(f) ==
    Then(Then(Walk(f, RowsIn(f, "scalars"), "none"), TimePrefs(f)),
         Then(Walk(f, RowsIn(f, "account_info"), "none"),
              Walk(f, Decoded(RowsIn(f, "startup_urls")), "none")))

\* Tabs whose current entry is in their history, at the time of their window.
ParseSession(f) == WalkBytes(f, Those(RowsIn(f, "tabs"), Joined), "unix")

\* A directory that cannot be listed has nothing in it; of an extension the last
\* version counts, of a cache file the address at its end.
Listing(f, entries) == IF f.opens THEN entries ELSE <<>>
ParseExtensions(f) ==
    Parsed(Events(Listing(f, Decoded(RowsIn(f, "extensions"))), "unix"))
ParseCache(f) ==
    Parsed(Events(Listing(f, Those(RowsIn(f, "files"), Host)), "none"))

\* redirect_kind, is_chain_end: the hops between a page that was asked for and the one
\* that was landed on are dropped from the visits.
IsHop(r) == ~r.sort
CollapseRedirects(f, visits) ==
    LET hops == {r.id : r \in {RowsIn(f, "visits")[k] : k \in
                    {n \in DOMAIN RowsIn(f, "visits") : IsHop(RowsIn(f, "visits")[n])}}}
    IN  [visits EXCEPT !.events = Those(@, LAMBDA e : e.row \notin hops)]

=============================================================================
