------------------------------ MODULE Timeline ------------------------------
(***************************************************************************)
(* The timeline verb (cli.rs, run_timeline): which events of which         *)
(* profiles each view shows.                                               *)
(*                                                                         *)
(* A site is a place where a profile is looked for.  Its history store is  *)
(* missing, unreadable, readable by URL only, or readable visit by visit.  *)
(* An event is known by its site, its kind and, for history, whether it    *)
(* stands for a URL or for a visit.  Every profile that can be parsed has  *)
(* one artifact besides its history, and a Chromium history a download.    *)
(***************************************************************************)
EXTENDS Reconstruct, SequencesExt

CONSTANTS Sites,
          FamilyOf,     \* Chromium, Firefox, Safari or WebCache
          NameOf,       \* the name of its directory
          UserOf,       \* the user whose home holds it
          VisitsOf      \* the visits of a store that is readable visit by visit

\* A store that has no visits is one that is readable by URL only.
ASSUME SiteAssumption ==
    /\ FamilyOf \in [Sites -> {"Chromium", "Firefox", "Safari", "WebCache"}]
    /\ VisitsOf \in [Sites -> Seq([id: Nat, from: Nat, redirect: BOOLEAN, time: Int,
                                   session: Nat])]
    /\ \A s \in Sites : FamilyOf[s] \in {"Chromium", "Firefox"} => VisitsOf[s] # <<>>

VARIABLES evidence,     \* what the path holds: its shape and the history stores
          request,      \* the view and the selectors
          timeline      \* the outcome and the events shown

timelineVars == <<evidence, request, timeline>>

Anyone == "any"
Linked == {"Chromium", "Firefox"}      \* families whose visits have a from_visit

StoresOf(s) == {"none", "broken", "urls"} \cup IF FamilyOf[s] \in Linked THEN {"visits"} ELSE {}

\* A home has a profile wherever there is a store; a profile directory holds one
\* store, and a WebCache directory is not taken for a profile; a file is a store.
Evidence ==
    {e \in [shape: {"home", "profile", "file"},
            stores: [Sites -> {"none", "broken", "urls", "visits"}]] :
        /\ \A s \in Sites : e.stores[s] \in StoresOf(s)
        /\ e.shape # "home" => Cardinality({s \in Sites : e.stores[s] # "none"}) = 1}

Requests ==
    [view: {"default", "flat", "graph"},
     browser: {Anyone} \cup {FamilyOf[s] : s \in Sites},
     user: {Anyone} \cup {UserOf[s] : s \in Sites},
     profile: {Anyone} \cup {NameOf[s] : s \in Sites}]

-----------------------------------------------------------------------------
(* Profiles and selectors. *)

\* discover_profiles, and profile_family for a path that is a profile itself.
ProfilesOf(e) ==
    {s \in Sites : e.stores[s] # "none" /\ (e.shape = "profile" => FamilyOf[s] # "WebCache")}

IsActive(r) == {r.browser, r.user, r.profile} # {Anyone}

Chosen(e, r) ==
    {s \in ProfilesOf(e) :
        /\ r.browser \in {Anyone, FamilyOf[s]}
        /\ r.profile \in {Anyone, NameOf[s]}
        /\ r.user \in {Anyone, UserOf[s]}}

-----------------------------------------------------------------------------
(* Events. *)

Event(s, kind, per, n) ==
    [site |-> s, kind |-> kind, per |-> per, n |-> n, stamp |-> <<>>, referrer |-> Anyone]

\* Two profiles of a name under one user have one stamp.
StampOf(s) == <<FamilyOf[s], NameOf[s], UserOf[s]>>

Stamped(events) == {[v EXCEPT !.stamp = StampOf(v.site)] : v \in events}
History(events) == {v \in events : v.kind = "history"}

\* The store by URL: a failure is no event.
ParseHistory(e, s) ==
    IF e.stores[s] \in {"urls", "visits"} THEN {Event(s, "history", "url", 0)} ELSE {}

\* triage_profile absorbs the failure of each artifact; everything of a WebCache
\* is in the one store.
TriageProfile(e, s) ==
    ParseHistory(e, s) \cup
    IF FamilyOf[s] = "WebCache" /\ e.stores[s] = "broken" THEN {} ELSE {Event(s, "other", "row", 0)}

Downloads(e, s) ==
    IF FamilyOf[s] = "Chromium" /\ e.stores[s] \in {"urls", "visits"}
    THEN {Event(s, "download", "row", 0)} ELSE {}

VisitsIn(places) == [n \in DOMAIN places |-> VisitsOf[places[n][1]][places[n][2]]]

\* The visits of some profiles by time, each as its site and its number there.
MergedVisits(e, S) ==
    LET visited == SetToSeq({s \in S : e.stores[s] = "visits"})
        places == FlattenSeq([k \in DOMAIN visited |->
                      [n \in DOMAIN VisitsOf[visited[k]] |-> <<visited[k], n>>]])
    IN  SortedByKey(places, [n \in DOMAIN places |-> VisitsIn(places)[n].time])

VisitEvents(places) ==
    {Event(places[n][1], "history", "visit", n) : n \in DOMAIN places}

\* Linked through the ids in the list.
LinkedEvents(places) ==
    LET list == VisitsIn(places)
    IN  {[Event(places[n][1], "history", "visit", n) EXCEPT
            !.referrer = IF Referrer(list, n) = 0 THEN Anyone ELSE places[Referrer(list, n)][1]] :
            n \in DOMAIN places}

-----------------------------------------------------------------------------
(* Collecting. *)

\* Without a selector: triage of everything, the history of each family that has
\* visits replaced by them, and the downloads.
CollectEverything(e) ==
    LET all == ProfilesOf(e)
        families == {FamilyOf[s] : s \in {t \in all : e.stores[t] = "visits"}}
        parsed == UNION {TriageProfile(e, s) : s \in all}
    IN  {v \in parsed : v.kind # "history" \/ FamilyOf[v.site] \notin families}
        \cup VisitEvents(MergedVisits(e, all))
        \cup UNION {Downloads(e, s) : s \in all}

\* With one: triage and downloads of the selected profiles, and no visits.
CollectSelected(e, r) ==
    Stamped(UNION {TriageProfile(e, s) \cup Downloads(e, s) : s \in Chosen(e, r)})

CollectTimelineEvents(e, r) ==
    CASE e.shape = "file" -> UNION {ParseHistory(e, s) : s \in Sites}
      [] e.shape # "file" /\ IsActive(r) -> CollectSelected(e, r)
      [] OTHER -> CollectEverything(e)

\* Mistake: the selectors are not asked.
ReconstructAllChains(e, r) ==
    LET mine == {s \in ProfilesOf(e) : FamilyOf[s] # "WebCache"}
        chained == {s \in mine : e.stores[s] = "visits"}
    IN  IF chained = {} THEN {}
        ELSE Stamped((UNION {LinkedEvents(MergedVisits(e, {s})) : s \in chained})
                     \cup UNION {ParseHistory(e, s) : s \in mine \ chained})

\* Mistake: a profile without visits contributes nothing.
ReconstructLinkedOnly(e, r) ==
    LET mine == {s \in Chosen(e, r) : FamilyOf[s] # "WebCache"}
        chained == {s \in mine : e.stores[s] = "visits"}
    IN  Stamped(UNION {LinkedEvents(MergedVisits(e, {s})) : s \in chained})

\* Chains, profile by profile; a profile without visits contributes its URLs,
\* a WebCache nothing.  No chains at all when no profile has visits.
ReconstructProfileChains(e, r) ==
    LET mine == {s \in Chosen(e, r) : FamilyOf[s] # "WebCache"}
        chained == {s \in mine : e.stores[s] = "visits"}
    IN  IF chained = {} THEN {}
        ELSE Stamped((UNION {LinkedEvents(MergedVisits(e, {s})) : s \in chained})
                     \cup UNION {ParseHistory(e, s) : s \in mine \ chained})

ReconstructTimelineChains(e, r) ==
    IF e.shape = "file"
    THEN UNION {LinkedEvents(MergedVisits(e, {s})) : s \in Sites}
    ELSE ReconstructProfileChains(e, r)

\* Mistake: the history stays beside the chains.
ViewWithBoth(e, r) == CollectTimelineEvents(e, r) \cup ReconstructTimelineChains(e, r)

\* The default view swaps the history for the chains, if there are any.
EnrichedView(e, r) ==
    LET events == CollectTimelineEvents(e, r)
        chains == ReconstructTimelineChains(e, r)
    IN  IF chains = {} THEN events ELSE (events \ History(events)) \cup chains

\* The graph links the visits of all profiles through one table of ids.
GraphView(e, r) ==
    LET events == CollectTimelineEvents(e, r)
    IN  IF \E v \in events : v.per = "visit"
        THEN {v \in events : v.per # "visit"}
             \cup LinkedEvents(MergedVisits(e, ProfilesOf(e)))
        ELSE events

View(e, r) ==
    CASE r.view = "default" -> EnrichedView(e, r)
      [] r.view = "flat" -> CollectTimelineEvents(e, r)
      [] r.view = "graph" -> GraphView(e, r)

\* A selector that selects nothing is refused, and so is a lone file that
\* cannot be read by URL; a WebCache file is taken for Chromium's.
CannotShow(e, r) ==
    \/ e.shape # "file" /\ IsActive(r) /\ Chosen(e, r) = {}
    \/ e.shape = "file" /\ \E s \in Sites :
         e.stores[s] = "broken" \/ (e.stores[s] # "none" /\ FamilyOf[s] = "WebCache")

-----------------------------------------------------------------------------

NoTimeline == [status |-> "none", events |-> {}]

TimelineInit ==
    /\ evidence = [shape |-> "none"]
    /\ request = [view |-> "none"]
    /\ timeline = NoTimeline

RunTimeline ==
    /\ timeline.status = "none"
    /\ evidence' \in Evidence
    /\ request' \in Requests
    /\ timeline' = IF CannotShow(evidence', request')
                   THEN [status |-> "refused", events |-> {}]
                   ELSE [status |-> "shown", events |-> View(evidence', request')]

TimelineSpec == TimelineInit /\ [][RunTimeline]_timelineVars

-----------------------------------------------------------------------------

Readable(s) == evidence.stores[s] \in {"urls", "visits"}
ShownHistory(s) == {v \in History(timeline.events) : v.site = s}
DefaultHome == timeline.status = "shown" /\ request.view = "default" /\ evidence.shape # "file"

\* What a view has to show of a profile's history: each visit, where the default view
\* links them, else the history by URL.  The default view drops a WebCache's beside chains.
ReadableHistoryOf(s) ==
    IF request.view # "default" THEN {0}
    ELSE IF FamilyOf[s] = "WebCache" THEN {}
    ELSE IF evidence.stores[s] = "visits" THEN DOMAIN VisitsOf[s] ELSE {0}

\* Under a selector every view shows events of the selected profiles only, each
\* with the stamp of the profile it came from, and all the readable history of each
\* of them (cli.rs 2386-2430, 3860-3900, 4010-4014).
ScopedTimelineIsScoped ==
    (timeline.status = "shown" /\ IsActive(request) /\ evidence.shape # "file") =>
        /\ \A v \in timeline.events :
              v.site \in Chosen(evidence, request) /\ v.stamp = StampOf(v.site)
        /\ \A s \in Chosen(evidence, request) :
              Readable(s) => ReadableHistoryOf(s) \subseteq {v.n : v \in ShownHistory(s)}

\* The default view has the history of every selected Chromium, Firefox or Safari
\* profile that can be read, and has it once: by visit where there are visits,
\* else by URL; and no chain of it crosses a profile, though profiles use the same
\* visit ids (cli.rs 2386-2436, 2619-2640).
NavigableHistoryAppearsOnce ==
    DefaultHome =>
        /\ \A s \in Chosen(evidence, request) :
              (Readable(s) /\ FamilyOf[s] # "WebCache") =>
                  {v.per : v \in ShownHistory(s)} =
                      {IF evidence.stores[s] = "visits" THEN "visit" ELSE "url"}
        /\ \A v \in timeline.events : v.referrer \in {Anyone, v.site}

=============================================================================
