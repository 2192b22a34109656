-------------------------------- MODULE Find --------------------------------
(***************************************************************************)
(* The find verb (cli.rs, run_find and run_find_iocs; find.rs; browser-    *)
(* forensic-search): which evidence a term is looked for in, what each hit *)
(* says of where it is from, and what is said when there is none.          *)
(*                                                                         *)
(* A term is a datum and matches the items that carry it; kinds of terms   *)
(* and the patterns they become are left out.                              *)
(***************************************************************************)
EXTENDS Triage

VARIABLES query,     \* the path and options of the run
          answer     \* its outcome, its hits, and what it says it searched

findVars == <<query, answer>>

\* Items whose time is unknown are at 0; the others are all of one time.  A window may
\* have no bounds (--from, --to), be that very time, or lie after or before it.
ItemTime(what) == IF what = "domain" THEN 0 ELSE 2
Windows == {[from |-> 0, to |-> 4], [from |-> 2, to |-> 2], [from |-> 3, to |-> 4],
            [from |-> 0, to |-> 1]}
InWindow(what, window) == ItemTime(what) >= window.from /\ ItemTime(what) <= window.to

\* The classes of evidence.
ProvenanceFor(what) ==
    CASE what = "visit"    -> [source |-> "History", state |-> "Live"]
      [] what = "row"      -> [source |-> "History", state |-> "Live"]
      [] what = "bookmark" -> [source |-> "History", state |-> "Deleted"]
      [] what = "download" -> [source |-> "Download", state |-> "Live"]
      [] what = "cookie"   -> [source |-> "Cookie", state |-> "Live"]
      [] what = "domain"   -> [source |-> "Recovered", state |-> "Inferred"]
      [] what = "carved"   -> [source |-> "Carved", state |-> "Carved"]

ConfidenceFor(state) ==
    CASE state = "Live" -> "High" [] state = "Deleted" -> "Medium" [] OTHER -> "Low"

\* A hit does not name the profile it is from; from is history.
Hit(what, datum, p) ==
    [match |-> datum, provenance |-> ProvenanceFor(what), from |-> p.path,
     confidence |-> ConfidenceFor(ProvenanceFor(what).state)]

-----------------------------------------------------------------------------

\* An event is an item and the profile it is of.
EventsOf(p) == {[item |-> i, profile |-> p] : i \in TriageOne(p, FALSE).events}

DownloadsOf(p) ==
    {[item |-> <<"History", "download", d>>, profile |-> p] :
        d \in IF p.family = "Chromium" THEN ToSet(Data(p, "History", "download")) ELSE {}}

CollectProfileEvents(path) ==
    UNION {EventsOf(p) : p \in ToSet(InvestigationProfiles(path))}

Selected(path, selector) ==
    {p \in ToSet(InvestigationProfiles(path)) : p.stamp = selector}

\* Mistake: the selector is forgotten.
CollectWhatever(path, selector) == CollectProfileEvents(path)

\* With a selector the downloads are read as well.
CollectProfileEventsScoped(path, selector) ==
    IF selector = "none" THEN CollectProfileEvents(path)
    ELSE UNION {EventsOf(p) \cup DownloadsOf(p) : p \in Selected(path, selector)}

\* Nothing selected is an error.
SelectorFails(path, selector) == selector # "none" /\ Selected(path, selector) = {}

\* Mistake: the upper bound is forgotten.
FilterSince(events, term, window) ==
    {e \in events : /\ ItemTime(e.item[2]) >= window.from
                    /\ term = "any" \/ e.item[3] = term}

FilterEvents(events, term, window) ==
    {e \in events : InWindow(e.item[2], window) /\ (term = "any" \/ e.item[3] = term)}

\* Every history database under the path is carved, whatever the selector or window.
FindCarveHits(path, term) ==
    {Hit("carved", term, p) : p \in {q \in ToSet(InvestigationProfiles(path)) :
                                        \E w \in {"freed", "logged"} :
                                           term \in ToSet(Data(q, HistoryDb[q.family], w))}}

SourceAllowed(sources, hit) == sources = {} \/ hit.provenance.source \in sources

Answer(hits, searched) ==
    [outcome |-> "done", hits |-> hits,
     searched |-> IF hits = {} THEN searched ELSE {}]

Refused == [outcome |-> "error", hits |-> {}, searched |-> {}]
NotAsked == [outcome |-> "none", hits |-> {}, searched |-> {}]

RunFind ==
    /\ query.verb = "none"
    /\ \E path \in PathsGiven, term \in {"a", "x.exe", "r", "absent"}, window \in Windows,
          selector \in {"none", "Chrome/Default", "Firefox/x"},
          sources \in {{}, {"History"}, {"Recovered"}} :
          LET carvedWanted == sources = {} \/ "Carved" \in sources
              events == CollectProfileEventsScoped(path, selector)
              live == {Hit(e.item[2], term, e.profile) : e \in FilterEvents(events, term, window)}
              hits == {h \in live : SourceAllowed(sources, h)}
                      \cup IF carvedWanted THEN FindCarveHits(path, term) ELSE {}
          IN  /\ query' = [verb |-> "find", path |-> path, term |-> term, window |-> window,
                           selector |-> selector, sources |-> sources]
              /\ answer' = IF SelectorFails(path, selector) THEN Refused
                           ELSE Answer(hits, {"visit", "download", "bookmark", "cookie", "domain"}
                                             \cup IF carvedWanted THEN {"carved"} ELSE {})

\* Every event has an indicator in it, or none has; its class is that of the event.
RunFindIocs ==
    /\ query.verb = "none"
    /\ \E path \in PathsGiven, window \in Windows,
          selector \in {"none", "Chrome/Default", "Firefox/x"},
          sources \in {{}, {"History"}, {"Recovered"}} :
          LET events == CollectProfileEventsScoped(path, selector)
              hits == {Hit(e.item[2], e.item[3], e.profile) : e \in FilterEvents(events, "any", window)}
          IN  /\ query' = [verb |-> "iocs", path |-> path, term |-> "any", window |-> window,
                           selector |-> selector, sources |-> sources]
              /\ answer' = IF SelectorFails(path, selector) THEN Refused
                           ELSE Answer({h \in hits : SourceAllowed(sources, h)},
                                       {"visit", "download", "bookmark", "cookie", "cache"})

FindInit == query = [verb |-> "none"] /\ answer = NotAsked

FindSpec == FindInit /\ [][RunFind \/ RunFindIocs]_findVars

-----------------------------------------------------------------------------

\* What holds the term, of the class what, in a profile that the selector leaves.
Holds(what) ==
    {e \in UNION {{<<p, i>> : i \in p.holds} : p \in ToSet(InvestigationProfiles(query.path))} :
        /\ query.selector \in {"none", e[1].stamp}
        /\ e[2][2] = what /\ query.term \in {"any", e[2][3]} /\ InWindow(what, query.window)
        /\ <<e[2][1], "broken", "-">> \notin e[1].holds}

\* A hit that is not carved is from a profile that the selector leaves and within both
\* bounds of the window, each in its class; and what a readable file of such a profile
\* holds is hit, unless its source was not asked for.  That does not go for downloads
\* where no profile was selected, though the answer names them as searched
\* (cli.rs 3965-4000, 4278-4316).
HitsAreWhatIsHeld ==
    answer.outcome = "done" =>
        /\ \A h \in answer.hits : h.provenance.state # "Carved" =>
              \E what \in {"visit", "row", "bookmark", "download", "cookie", "domain"} :
                 /\ ProvenanceFor(what) = h.provenance
                 /\ \E e \in Holds(what) : e[1].path = h.from /\ e[2][3] = h.match
        /\ \A what \in Rows \cup {"download"} :
              /\ query.sources = {} \/ ProvenanceFor(what).source \in query.sources
              /\ what = "download" => query.selector # "none"
              => \A e \in Holds(what) : Hit(what, e[2][3], e[1]) \in answer.hits

=============================================================================
