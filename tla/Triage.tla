------------------------------- MODULE Triage -------------------------------
(***************************************************************************)
(* Triage of one profile (browser-forensic-triage, lib.rs; cli.rs,         *)
(* collect_one_profile): which artifacts are read, and what each adds to   *)
(* the report.                                                             *)
(*                                                                         *)
(* A profile holds items <<file, what, datum>>: a visit, a cookie, a freed *)
(* row, a reason for an indicator.  A file that cannot be read as what it  *)
(* should be has an item <<file, "broken", "-">>; every reader of it fails,  *)
(* and a reader that fails adds nothing.  The order of the events of a     *)
(* report is left out: no finding depends on it.                           *)
(***************************************************************************)
EXTENDS Integers, Sequences, FiniteSets, SequencesExt

\* What the path of a run may be: its shape (directory, sqlite, disk, other), the
\* profiles discovered under it, itself read as a profile or a database, and the
\* fragments to carve from it as an image, if it can be read at all.
CONSTANT PathsGiven

\* What the readers of a profile find in a file, in some order.
Data(p, file, what) ==
    IF <<file, "broken", "-">> \in p.holds THEN <<>>
    ELSE SetToSeq({i[3] : i \in {j \in p.holds : j[1] = file /\ j[2] = what}})

(* Recovered domains: looked for in the profile and under Network.          *)

DomainFiles ==
    << [file |-> "Network Persistent State", artifact |-> "nps"],
       [file |-> "Network/Network Persistent State", artifact |-> "nps"],
       [file |-> "Reporting and NEL", artifact |-> "nel"],
       [file |-> "Network/Reporting and NEL", artifact |-> "nel"],
       [file |-> "TransportSecurity", artifact |-> "hsts"],
       [file |-> "Network/TransportSecurity", artifact |-> "hsts"],
       [file |-> "DIPS", artifact |-> "dips"],
       [file |-> "SiteSecurityServiceState.txt", artifact |-> "ff_hsts"] >>

CollectRecoveredDomains(p) ==
    FlattenSeq([k \in DOMAIN DomainFiles |->
        [n \in DOMAIN Data(p, DomainFiles[k].file, "domain") |->
            <<Data(p, DomainFiles[k].file, "domain")[n], DomainFiles[k].artifact>>]])

(* The artifacts of each family. *)

DomainNames == {DomainFiles[k].file : k \in DOMAIN DomainFiles}

ChromiumFiles ==
    {"History", "Cookies", "Extension Cookies", "Bookmarks", "Favicons", "Top Sites",
     "Shortcuts", "Network Action Predictor", "Media History", "Login Data", "Web Data",
     "Preferences", "Secure Preferences", "Web Storage"} \cup DomainNames
FirefoxFiles ==
    {"places.sqlite", "cookies.sqlite", "logins.json", "permissions.sqlite", "Web Storage",
     "bookmarkbackups"} \cup DomainNames

FilesOf == [Chromium |-> ChromiumFiles, Firefox |-> FirefoxFiles,
            Safari |-> {"History.db"}, WebCache |-> {"WebCacheV01.dat"}]
HistoryDb == [Chromium |-> "History", Firefox |-> "places.sqlite", Safari |-> "History.db",
              WebCache |-> "none"]
CookieDb == [Chromium |-> "Cookies", Firefox |-> "cookies.sqlite", Safari |-> "none",
             WebCache |-> "none"]

\* Items that are rows of the artifact itself.
Rows == {"visit", "cookie", "domain", "bookmark", "row"}

Named(tag, p, data) == [n \in DOMAIN data |-> [tag |-> tag, path |-> p.path, datum |-> data[n]]]

\* check_history_integrity: signs of clearing, and others.
CheckHistoryOf(p, file) ==
    Named("clearing", p, Data(p, file, "cleared")) \o Named("anomaly", p, Data(p, file, "gap"))
CheckDatabaseOf(p, file) == Named("malformed", p, Data(p, file, "malformed"))
CheckCookiesOf(p, file) == Named("cookie anomaly", p, Data(p, file, "late"))

\* A profile holds finitely much, its rows in files of its browser; of downloads only
\* those in the history of a Chromium are looked at.
ASSUME PathsAssumption ==
    \A path \in PathsGiven :
        /\ path.profiles \in Seq(ToSet(path.profiles))
        /\ path.fragments \in Seq(ToSet(path.fragments))
        /\ \A p \in ToSet(path.profiles) \cup {path.self} :
              /\ IsFiniteSet(p.holds)
              /\ \A i \in p.holds :
                    /\ i[2] \in Rows => i[1] \in FilesOf[p.family]
                    /\ i[2] = "download" => i[1] = "History" /\ p.family = "Chromium"

TriageOne(p, carve) ==
    [events |-> {i \in p.holds :
                    /\ i[1] \in FilesOf[p.family] /\ i[2] \in Rows
                    /\ <<i[1], "broken", "-">> \notin p.holds},
     integrity |-> CheckHistoryOf(p, HistoryDb[p.family]) \o CheckDatabaseOf(p, HistoryDb[p.family])
                   \o CheckCookiesOf(p, CookieDb[p.family]),
     carved |-> IF carve THEN Data(p, HistoryDb[p.family], "freed") ELSE <<>>]

\* profile_family: what else is discovered under a path, or is the path itself.
InvestigationProfiles(path) ==
    IF path.profiles # <<>> THEN path.profiles
    ELSE IF path.shape = "directory" THEN <<path.self>> ELSE <<>>

\* investigate adds what triage leaves out of a Chromium profile.
CollectOneProfile(p, tier) ==
    LET report == TriageOne(p, tier # "quick")
        added == {i \in p.holds : i \in {<<"History", "download", i[3]>>,
                                         <<"Extensions", "extension", i[3]>>}
                                  /\ <<i[1], "broken", "-">> \notin p.holds}
    IN  IF p.family = "Chromium" THEN [report EXCEPT !.events = @ \cup added] ELSE report

=============================================================================
