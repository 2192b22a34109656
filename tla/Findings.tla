------------------------------ MODULE Findings ------------------------------
(***************************************************************************)
(* The findings of investigate and recover (cli.rs, investigate.rs,        *)
(* recover.rs): how each tier and each recovery engine makes them from     *)
(* what the evidence holds, and how they are folded, ranked and shown.     *)
(*                                                                         *)
(* The steps of the loop over profiles, its checkpoint and its interrupt   *)
(* are modelled in Investigate; here a run is one step that stops after    *)
(* the profiles it got to.                                                 *)
(***************************************************************************)
EXTENDS Triage

VARIABLES run,      \* the verb, its path and options
          shown     \* the outcome and the findings, in the order shown

findingsVars == <<run, shown>>

-----------------------------------------------------------------------------
(* The generators. *)

Finding(rule, priority, source, state, datum) ==
    [rule |-> rule, priority |-> priority, source |-> source, state |-> state,
     datum |-> datum, stamp |-> "none"]

\* How the evidence of a rule is worded: texts of one wording may be the same.
Wording == [exec_download |-> "plain", deleted_bookmark |-> "plain", memory |-> "plain",
            deleted_record |-> "row", cache_carve |-> "cached", recovered_domain |-> "domain",
            imagecarve |-> "located"]

Each(data, rule, priority, source, state) ==
    [n \in DOMAIN data |-> Finding(rule, priority, source, state, <<Wording[rule], data[n]>>)]

\* The same for the indicators of both verbs, but for the rule.
IndicatorFindings(rule, indicators) ==
    [n \in DOMAIN indicators |->
        IF indicators[n].tag = "clearing"
        THEN Finding(rule, "High", "History", "Deleted", <<"indicator", indicators[n]>>)
        ELSE Finding(rule, "Medium", "History", "Inferred", <<"indicator", indicators[n]>>)]

ExecutableDownloadFindings(report) ==
    LET got == SetToSeq({i[3] : i \in {j \in report.events : j[2] = "download"}})
    IN  Each(got, "exec_download", "High", "Download", "Live")

\* Every Chromium cookie is taken for encrypted, whatever its file.
EncryptedCookieFindings(report) ==
    LET count == Cardinality({i \in report.events :
                    i[2] = "cookie" /\ i[1] \in {"Cookies", "Extension Cookies"}})
    IN  IF count = 0 THEN <<>>
        ELSE <<Finding("encrypted_cookies", "Info", "Cookie", "Live", <<"cookies", count>>)>>

ExtensionFindings(report) ==
    LET names == {i[3] : i \in {j \in report.events : j[2] = "extension"}}
    IN  IF names = {} THEN <<>>
        ELSE <<Finding("extension_present", "Info", "Extension", "Live", <<"extensions", names>>)>>

\* What was carved is in the report and in no finding.
FindingsFromReport(report) ==
    ExecutableDownloadFindings(report) \o IndicatorFindings("integrity", report.integrity)
    \o EncryptedCookieFindings(report) \o ExtensionFindings(report)

Stamp(p, findings) == [n \in DOMAIN findings |-> [findings[n] EXCEPT !.stamp = p.stamp]]

(* Recovery. *)

HistoryDbs == <<"History", "places.sqlite", "History.db">>
CacheDirs == <<"Cache/Cache_Data", "Cache", "Cache_Data">>

\* Free pages, then the log.
CarveDbRecords(p, file) ==
    Each(Data(p, file, "freed"), "deleted_record", "Medium", "Carved", "Carved")
    \o Each(Data(p, file, "logged"), "deleted_record", "Medium", "Carved", "Deleted")

\* Freed rows show on the freelist, and as recovered history.
GatherDbTamperIndicators(p, file) ==
    Named("freelist", p, Data(p, file, "freed")) \o CheckHistoryOf(p, file)
    \o CheckDatabaseOf(p, file) \o Named("recovered history", p, Data(p, file, "freed"))

\* Domains of the residue that no Chromium or Firefox history of the profile has;
\* a history that cannot be read has none.
IncognitoResidue(p) ==
    LET visited == UNION {{Data(p, f, "visit")[n] : n \in DOMAIN Data(p, f, "visit")} :
                          f \in {"History", "places.sqlite"}}
        left == SetToSeq({r \in {CollectRecoveredDomains(p)[n] :
                                 n \in DOMAIN CollectRecoveredDomains(p)} : r[1] \notin visited})
    IN  [n \in DOMAIN left |-> [tag |-> "incognito", datum |-> left[n]]]

GatherProfileTamperIndicators(p) ==
    FlattenSeq([k \in DOMAIN HistoryDbs |-> GatherDbTamperIndicators(p, HistoryDbs[k])])
    \o IncognitoResidue(p)

RecoverProfileFindings(p) ==
    FlattenSeq([k \in DOMAIN HistoryDbs |-> CarveDbRecords(p, HistoryDbs[k])])
    \o FlattenSeq([k \in DOMAIN CacheDirs |->
          Each(Data(p, CacheDirs[k], "evicted"), "cache_carve", "Info", "Cache", "Deleted")])
    \o Each(CollectRecoveredDomains(p), "recovered_domain", "Info", "Recovered", "Inferred")
    \o Each(Data(p, "bookmarkbackups", "bookmark"), "deleted_bookmark", "Medium", "History", "Deleted")
    \o IndicatorFindings("tamper", GatherProfileTamperIndicators(p))

RecoverDatabaseFindings(p) ==
    CarveDbRecords(p, HistoryDb[p.family])
    \o IndicatorFindings("tamper", GatherDbTamperIndicators(p, HistoryDb[p.family]))

\* --whole-image is for a file that is not a directory; a database goes before a
\* disk, and what is neither is memory.
RecoverScopeOf(path, whole) ==
    CASE path.shape = "directory" -> "Profile"
      [] path.shape # "directory" /\ (whole \/ path.shape = "disk") -> "WholeImage"
      [] path.shape = "sqlite" /\ ~whole -> "Database"
      [] OTHER -> "MemoryImage"

\* A directory in which nothing is discovered is a profile, without a stamp.
RecoverFindings(path, whole) ==
    CASE RecoverScopeOf(path, whole) = "Profile" ->
            IF path.profiles = <<>> THEN RecoverProfileFindings(path.self)
            ELSE FlattenSeq([n \in DOMAIN path.profiles |->
                    Stamp(path.profiles[n], RecoverProfileFindings(path.profiles[n]))])
      [] RecoverScopeOf(path, whole) = "Database" -> RecoverDatabaseFindings(path.self)
      [] RecoverScopeOf(path, whole) = "MemoryImage" ->
            Each(path.fragments, "memory", "Info", "Memory", "Carved")
      [] RecoverScopeOf(path, whole) = "WholeImage" ->
            Each(path.fragments, "imagecarve", "Info", "Carved", "Carved")

\* An image that cannot be read at all is an error; every other failure is absorbed.
RecoveryFails(path, whole) ==
    RecoverScopeOf(path, whole) \in {"MemoryImage", "WholeImage"} /\ path.unreadable

-----------------------------------------------------------------------------
(* Folding, ranking, showing. *)

\* By priority, and of one priority in the order they came.
RankFindings(findings) ==
    LET ranked[n \in 0..Len(findings)] ==
            IF n = 0 THEN [priority \in {"High", "Medium", "Info"} |-> <<>>]
            ELSE [ranked[n - 1] EXCEPT ![findings[n].priority] = Append(@, findings[n])]
        all == ranked[Len(findings)]
    IN  all["High"] \o all["Medium"] \o all["Info"]

DedupKey(f) == <<f.datum, f.source, f.state>>

\* Mistake: a finding stands for another of its datum in whatever state.
DedupByDatum(findings) ==
    LET first[n \in 0..Len(findings)] ==
            IF n = 0 THEN <<>>
            ELSE LET before == first[n - 1]
                 IN  IF \E m \in DOMAIN before : before[m].datum = findings[n].datum
                     THEN before ELSE Append(before, findings[n])
    IN  first[Len(findings)]

\* The first of each key stays.
DedupFindings(findings) ==
    LET first[n \in 0..Len(findings)] ==
            IF n = 0 THEN <<>>
            ELSE LET before == first[n - 1]
                 IN  IF \E m \in DOMAIN before : DedupKey(before[m]) = DedupKey(findings[n])
                     THEN before ELSE Append(before, findings[n])
    IN  first[Len(findings)]

\* The findings of the profiles that an investigation got to.
ProfileLoop(path, tier, done) ==
    FlattenSeq([n \in 1..done |->
        Stamp(path.profiles[n], FindingsFromReport(CollectOneProfile(path.profiles[n], tier)))])

CollectInvestigationFindings(r) ==
    LET standard == ProfileLoop(r.path, r.tier, r.done)
    IN  IF r.tier = "deep" /\ r.done = Len(r.path.profiles)
        THEN DedupFindings(standard \o RecoverFindings(r.path, r.whole))
        ELSE standard

NoRun == [verb |-> "none"]

FindingsInit == run = NoRun /\ shown = [outcome |-> "none", findings |-> <<>>]

RunInvestigate ==
    /\ run = NoRun
    /\ \E path \in PathsGiven, tier \in {"quick", "standard", "deep"}, whole \in BOOLEAN :
          \E done \in 0..Len(path.profiles) :
             LET r == [verb |-> "investigate", path |-> path, tier |-> tier, whole |-> whole,
                       done |-> done]
                 complete == done = Len(path.profiles)
             IN  /\ run' = r
                 /\ shown' = IF tier = "deep" /\ complete /\ RecoveryFails(path, whole)
                             THEN [outcome |-> "error", findings |-> <<>>]
                             ELSE [outcome |-> IF complete THEN "complete" ELSE "interrupted",
                                   findings |-> RankFindings(CollectInvestigationFindings(r))]

RunRecover ==
    /\ run = NoRun
    /\ \E path \in PathsGiven, whole \in BOOLEAN :
          /\ run' = [verb |-> "recover", path |-> path, whole |-> whole]
          /\ shown' = IF RecoveryFails(path, whole)
                      THEN [outcome |-> "error", findings |-> <<>>]
                      ELSE [outcome |-> "complete",
                            findings |-> RankFindings(RecoverFindings(path, whole))]

FindingsSpec == FindingsInit /\ [][RunInvestigate \/ RunRecover]_findingsVars

-----------------------------------------------------------------------------

\* The same to a reader: only the rule may differ, as those of the two generators of
\* indicators do, and whose it is.
Alike(f, g) ==
    /\ f.datum = g.datum /\ f.source = g.source /\ f.state = g.state /\ f.priority = g.priority
    /\ f.rule = g.rule \/ {f.rule, g.rule} = {"integrity", "tamper"}

\* What a deep run of the path finds that goes to the end.
FoundDeep ==
    CollectInvestigationFindings(
        [verb |-> "investigate", path |-> run.path, tier |-> "deep", whole |-> run.whole,
         done |-> Len(run.path.profiles)])

HasDeep == run # NoRun /\ shown.outcome # "error" /\ ~RecoveryFails(run.path, run.whole)

\* Whatever a run finds that is interrupted, or of a lesser tier, or a recovery, the
\* deep run to the end finds alike, of that profile or of one that found the same, and
\* by the rule that an investigation found it by; it lists nothing twice, and shows all
\* it found (investigate.rs 316-349, cli.rs 1183-1222).  Of what two profiles have alike
\* it keeps the first one's, whereas a standard run lists both.
DeepLosesNothing ==
    HasDeep =>
        LET deep == FoundDeep
        IN  /\ \A f \in ToSet(shown.findings) :
                  \E g \in ToSet(deep) :
                     Alike(f, g) /\ (run.verb = "investigate" => f.rule = g.rule)
            /\ \A m, n \in DOMAIN deep : Alike(deep[m], deep[n]) => m = n
            /\ (run.verb = "investigate" /\ run.tier = "deep" /\ shown.outcome = "complete")
                  => ToSet(deep) \subseteq ToSet(shown.findings)

=============================================================================
