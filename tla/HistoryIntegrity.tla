-------------------------- MODULE HistoryIntegrity --------------------------
(***************************************************************************)
(* What the integrity checks say of a history database (browser-forensic-  *)
(* integrity, history.rs, cookies.rs, manual_edit.rs, database.rs) after a *)
(* life of visits, deletions and edits.                                    *)
(*                                                                         *)
(* The browser is external: what it does to rows, ids and counters is what *)
(* the checks take it to do.  The checks only read, so what they report is *)
(* a function of the database, and its properties are about every state.   *)
(***************************************************************************)
EXTENDS Integers, Sequences, FiniteSets

CONSTANTS Addresses,    \* URLs
          MaxRows,      \* bound: visits ever recorded
          MaxClock      \* bound: the system clock

ASSUME IntegrityAssumption == MaxRows \in Nat /\ MaxClock \in Nat

VARIABLES
    kind,         \* the browser's family and the journal mode of its database
    urlRows,      \* url rows: id |-> [url, count, last]
    visitRows,    \* visit rows: id |-> [row, time, counts], row the id of the url
    seqs,         \* the AUTOINCREMENT marks of the two tables, Chromium's only
    tombs,        \* URLs with a tombstone, Safari's only
    cookie,       \* a cookie: [created, accessed]
    now,          \* the system clock
    mtime,        \* when the database file itself was last written
    life          \* history: [visits, honest, wiped, cut, fresh, expired], see below

\* How many visits there were; whether only an honest browser and clock were at
\* work; whether the last step left no history; url rows that lost a visit that
\* counts to another writer; visits that the database file was not written since;
\* URLs whose last visit grew too old.

integrityVars == <<kind, urlRows, visitRows, seqs, tombs, cookie, now, mtime, life>>

NoRows == [i \in {} |-> 0]
Top(S) == IF S = {} THEN 0 ELSE CHOOSE i \in S : \A j \in S : j <= i
Without(rows, S) == [i \in DOMAIN rows \ S |-> rows[i]]
VisitsTo(r) == {i \in DOMAIN visitRows : visitRows[i].row = r}

-----------------------------------------------------------------------------
(* The browser. *)

\* A table with AUTOINCREMENT never gives an id again; others follow the
\* largest that is left.
NextUrl == 1 + IF kind.family = "Chromium" THEN seqs.urls ELSE Top(DOMAIN urlRows)
NextVisit == 1 + IF kind.family = "Chromium" THEN seqs.visits ELSE Top(DOMAIN visitRows)

\* With a rollback journal a commit writes the database file, with a log only a
\* checkpoint does.
WrittenAt(at) == mtime' = IF kind.wal THEN mtime ELSE at
StillInLog(S) == IF kind.wal THEN S ELSE {}

\* A visit has a row, and counts unless it is a redirect.
VisitPage(u, counts, at) ==
    LET known == {r \in DOMAIN urlRows : urlRows[r].url = u}
        row == IF known = {} THEN NextUrl ELSE CHOOSE r \in known : TRUE
        before == IF known = {} THEN 0 ELSE urlRows[row].count
    IN  /\ life.visits < MaxRows /\ at \in now..MaxClock
        /\ visitRows' = [i \in DOMAIN visitRows \cup {NextVisit} |->
              IF i = NextVisit THEN [row |-> row, time |-> at, counts |-> counts] ELSE visitRows[i]]
        /\ urlRows' = [r \in DOMAIN urlRows \cup {row} |->
              IF r = row THEN [url |-> u, count |-> before + (IF counts THEN 1 ELSE 0), last |-> at]
              ELSE urlRows[r]]
        /\ seqs' = [urls |-> Top({row, seqs.urls}), visits |-> Top({NextVisit, seqs.visits})]
        /\ life' = [life EXCEPT !.visits = @ + 1, !.wiped = FALSE,
                                !.fresh = StillInLog(@ \cup {NextVisit})]
        /\ now' = at /\ WrittenAt(at)
        /\ UNCHANGED <<kind, tombs, cookie>>

\* The url rows that lose their last visit.
Gone(S) == {r \in {visitRows[i].row : i \in S} : VisitsTo(r) \ S = {}}

\* When visits go, the browser brings the url rows up to date.
RemoveVisits(S) ==
    LET Kept(r) == VisitsTo(r) \ S
        Counted(r) == {i \in VisitsTo(r) \cap S : visitRows[i].counts}
        hit == {visitRows[i].row : i \in S}
    IN  /\ S # {}
        /\ visitRows' = Without(visitRows, S)
        /\ urlRows' = [r \in DOMAIN urlRows \ Gone(S) |->
              IF r \notin hit THEN urlRows[r]
              ELSE [urlRows[r] EXCEPT !.count = @ - Cardinality(Counted(r)),
                                      !.last = Top({visitRows[i].time : i \in Kept(r)})]]
        /\ WrittenAt(now)
        /\ UNCHANGED <<kind, seqs, cookie, now>>

\* Its user has it delete visits; Safari keeps a note of the URLs.
DeleteVisits(S) ==
    /\ RemoveVisits(S)
    /\ tombs' = tombs \cup IF kind.family = "Safari" THEN {urlRows[r].url : r \in Gone(S)} ELSE {}
    /\ life' = [life EXCEPT !.honest = FALSE, !.wiped = (DOMAIN urlRows = Gone(S)),
                            !.cut = @ \ Gone(S), !.fresh = StillInLog(@)]

\* The browser drops visits that are too old; whether Safari keeps a note is open.
ExpireVisits(before) ==
    LET S == {i \in DOMAIN visitRows : visitRows[i].time < before}
        urls == {urlRows[r].url : r \in Gone(S)}
    IN  /\ RemoveVisits(S)
        /\ tombs' \in {tombs, IF kind.family = "Safari" THEN tombs \cup urls ELSE tombs}
        /\ life' = [life EXCEPT !.wiped = (DOMAIN urlRows = Gone(S)), !.cut = @ \ Gone(S),
                                !.fresh = StillInLog(@), !.expired = @ \cup urls]

\* Another writer's takes the rows and leaves the rest.
CutVisits(S) ==
    /\ S # {}
    /\ visitRows' = Without(visitRows, S)
    /\ life' = [life EXCEPT !.honest = FALSE,
                            !.cut = @ \cup {visitRows[i].row : i \in {j \in S : visitRows[j].counts}},
                            !.fresh = StillInLog(@)]
    /\ WrittenAt(now)
    /\ UNCHANGED <<kind, urlRows, seqs, tombs, cookie, now>>

SetClockBack ==
    /\ now > 1
    /\ now' \in 1..(now - 1)
    /\ life' = [life EXCEPT !.honest = FALSE]
    /\ UNCHANGED <<kind, urlRows, visitRows, seqs, tombs, cookie, mtime>>

Checkpoint ==
    /\ kind.wal
    /\ mtime' = now
    /\ life' = [life EXCEPT !.fresh = {}]
    /\ UNCHANGED <<kind, urlRows, visitRows, seqs, tombs, cookie, now>>

UseCookie ==
    /\ cookie' \in {[created |-> now, accessed |-> now], [cookie EXCEPT !.accessed = now]}
    /\ UNCHANGED <<kind, urlRows, visitRows, seqs, tombs, now, mtime, life>>

IntegrityInit ==
    /\ kind \in [family : {"Chromium", "Firefox", "Safari"}, wal : BOOLEAN]
    /\ urlRows = NoRows /\ visitRows = NoRows
    /\ seqs = [urls |-> 0, visits |-> 0] /\ tombs = {}
    /\ cookie = [created |-> 1, accessed |-> 1]
    /\ now = 1 /\ mtime = 1
    /\ life = [visits |-> 0, honest |-> TRUE, wiped |-> FALSE, cut |-> {},
               fresh |-> {}, expired |-> {}]

IntegrityNext ==
    \/ \E u \in Addresses, counts \in BOOLEAN, at \in 1..MaxClock : VisitPage(u, counts, at)
    \/ \E S \in SUBSET DOMAIN visitRows : DeleteVisits(S) \/ CutVisits(S)
    \/ \E before \in 1..now : ExpireVisits(before)
    \/ SetClockBack \/ Checkpoint \/ UseCookie

IntegritySpec == IntegrityInit /\ [][IntegrityNext]_integrityVars

-----------------------------------------------------------------------------
(* The checks.  An indicator is its kind and the row it names, 0 for none.  *)

\* Pairs of neighbours when the visits are read by id.
Neighbours ==
    {p \in (DOMAIN visitRows) \X (DOMAIN visitRows) :
        p[1] < p[2] /\ \A k \in DOMAIN visitRows : k <= p[1] \/ p[2] <= k}

\* Only the first pair at fault is reported.
FirstFault(tag, pairs) ==
    {<<tag, p[2]>> : p \in {q \in pairs : \A o \in pairs : q[2] <= o[2]}}

VisitIdGaps == FirstFault("VisitIdGap", {p \in Neighbours : p[2] - p[1] > 1})
\* Mistake: visits of one moment count as out of order.
TimestampStrictness ==
    FirstFault("TimestampNonMonotonic",
               {p \in Neighbours : visitRows[p[2]].time <= visitRows[p[1]].time})

TimestampMonotonicity ==
    FirstFault("TimestampNonMonotonic",
               {p \in Neighbours : visitRows[p[2]].time < visitRows[p[1]].time})

\* Mistake: a visit of the moment the file was written counts as later.
FutureFromNow ==
    {<<"TimestampInFuture", i>> : i \in {j \in DOMAIN visitRows : visitRows[j].time >= mtime}}

\* Against the modification time of the database file.
FutureTimestamps ==
    {<<"TimestampInFuture", i>> : i \in {j \in DOMAIN visitRows : visitRows[j].time > mtime}}

Tombstones == {<<"HistoryTombstoneFound", u>> : u \in tombs}

\* Mistake: an empty table is taken for a new one.
AutoincGapOfRows ==
    IF urlRows # NoRows /\ seqs.urls > 5 * Top(DOMAIN urlRows) THEN {<<"AutoIncrementGap", 0>>} ELSE {}

AutoincGap ==
    IF urlRows = NoRows
    THEN IF seqs.urls > 0 THEN {<<"HistoryCleared", 0>>} ELSE {}
    ELSE IF seqs.urls > 5 * Top(DOMAIN urlRows) THEN {<<"AutoIncrementGap", 0>>} ELSE {}

VisitCountConsistency ==
    {<<"VisitCountMismatch", r>> :
        r \in {s \in DOMAIN urlRows : urlRows[s].count > Cardinality(VisitsTo(s))}}

\* The join leaves out a url without visits.
LastVisitConsistency ==
    {<<"LastVisitMismatch", r>> :
        r \in {s \in DOMAIN urlRows :
            /\ VisitsTo(s) # {}
            /\ urlRows[s].last # Top({visitRows[i].time : i \in VisitsTo(s)})}}

CheckHistory(family) ==
    CASE family = "Chromium" ->
            AutoincGap \cup VisitIdGaps \cup TimestampMonotonicity \cup VisitCountConsistency
            \cup FutureTimestamps \cup LastVisitConsistency
      [] family = "Firefox" -> VisitIdGaps \cup TimestampMonotonicity \cup FutureTimestamps
      [] family = "Safari" -> Tombstones \cup VisitIdGaps

CheckCookies(family) ==
    IF family # "Safari" /\ cookie.created > cookie.accessed
    THEN {<<"CookieTimestampAnomaly", 0>>} ELSE {}

\* For every table with a mark; an empty one counts as 0.
SqliteSequenceGaps ==
    IF kind.family = "Chromium"
       /\ (seqs.urls > Top(DOMAIN urlRows) \/ seqs.visits > Top(DOMAIN visitRows))
    THEN {<<"SqliteSequenceGap", 0>>} ELSE {}

\* br4n6 integrity: family Chromium, whatever the database.  A check that finds
\* no table of its own fails and is passed over.
RunIntegrity ==
    IF kind.family = "Chromium" THEN CheckHistory("Chromium") \cup CheckCookies("Chromium") ELSE {}

\* Recovery: by the family of the profile.
TamperIndicators ==
    SqliteSequenceGaps \cup CheckHistory(kind.family) \cup CheckCookies(kind.family)

-----------------------------------------------------------------------------

\* What an honest history may raise: a visit that the database file was not written
\* since, which only a log can hold, seems to come from the future, and what grew too
\* old seems to be cleared, to the counters or as a note of Safari's.
HonestExceptions ==
    {<<"TimestampInFuture", i>> : i \in IF kind.wal THEN life.fresh ELSE {}}
    \cup {<<"HistoryTombstoneFound", u>> : u \in life.expired}
    \cup (IF kind.family = "Chromium" /\ life.expired # {}
          THEN {"HistoryCleared", "AutoIncrementGap", "SqliteSequenceGap"} \X {0} ELSE {})

\* A browser and a clock that are left alone raise no other indicator, redirects,
\* repeated visits and the expiry of old ones included: none of a log that was
\* checkpointed, of an order or a count that expiry left behind, or of a cookie
\* (history.rs 18-412, cookies.rs, manual_edit.rs).
HonestHistoryIsClean == life.honest => TamperIndicators \subseteq HonestExceptions

\* In a Chromium history a wipe is noticed until the next visit, and a visit that
\* counts and was cut by another writer for as long as its url row is there and no
\* redirect to that url makes up for it (history.rs 290-370).
DeletionIsNoticed ==
    kind.family = "Chromium" =>
        /\ life.wiped => <<"HistoryCleared", 0>> \in RunIntegrity \cap TamperIndicators
        /\ \A r \in life.cut :
              (\A i \in VisitsTo(r) : visitRows[i].counts)
              => <<"VisitCountMismatch", r>> \in RunIntegrity \cap TamperIndicators

=============================================================================
