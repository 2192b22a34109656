------------------------------- MODULE Discovery -------------------------------
(***************************************************************************)
(* Which profiles there are under a path: those at the places where the    *)
(* browsers keep them (browser-forensic-discovery, discover_profiles), and *)
(* those that a sweep of the whole tree takes for one (sweep_containers).  *)
(* From the first come the profiles that a run investigates, the files its *)
(* manifest hashes (browser-forensic-manifest) and what they were detected *)
(* to be (detect.rs).                                                      *)
(*                                                                         *)
(* A place, like AppData/Local/Google/Chrome/User Data, is one name here,  *)
(* of a directory at the root.                                             *)
(***************************************************************************)
EXTENDS Integers, Sequences, FiniteSets, EvidenceTree

CONSTANTS TreesGiven,         \* what may be under the path
          SWEEP_MAX_DEPTH

\* Every node is in another, which is numbered before it.
IsTree(t) ==
    /\ Len(t) \in Nat /\ DOMAIN t = 1..Len(t)
    /\ \A k \in DOMAIN t : t[k].in \in 0..(k - 1)

ASSUME DiscoveryAssumption ==
    SWEEP_MAX_DEPTH \in Nat /\ \A t \in TreesGiven : IsTree(t)

VARIABLES tree,        \* what is under the path
          pending,     \* directories the sweep has yet to enter, with their depths
          swept,       \* what it took for profiles
          custody      \* profiles investigated, files hashed, detections recorded

discoveryVars == <<tree, pending, swept, custody>>

NotYet == [made |-> FALSE]

-----------------------------------------------------------------------------
(* What makes a directory a profile. *)

FileMarker(name) == [dir |-> name, leaf |-> name, is |-> "file"]
ChromiumMarkers ==
    {FileMarker("History"), [dir |-> "Local Storage", leaf |-> "leveldb", is |-> "dir"]}
FirefoxMarkers == {FileMarker("places.sqlite")}
SUFFIXED == {"previous.jsonlz4"}
EMBEDDED_CONTAINER_SUBDIRS == {"Cache", "Local Storage", "IndexedDB"}
AppTokens == {"Slack", "Chrome"}

\* Of a marker in two parts the first must be a directory, and the second may be reached
\* through a link.
MarkerPresent(dir, m) ==
    IF m.dir = m.leaf
    THEN \E n \in Children(tree, dir) : tree[n].name = m.leaf /\ tree[n].is = m.is
    ELSE \E n \in Children(tree, dir) :
            /\ tree[n].name = m.dir /\ tree[n].is = "dir"
            /\ \E leaf \in Called(tree, n, m.leaf) : KindAt(tree, Followed(tree, leaf)) = m.is
HasChromiumSignature(dir) == \E m \in ChromiumMarkers : MarkerPresent(dir, m)
HasFirefoxSignature(dir) ==
    \/ \E m \in FirefoxMarkers : MarkerPresent(dir, m)
    \/ \E n \in Children(tree, dir) : tree[n].is = "file" /\ tree[n].name \in SUFFIXED
AttributionFor(dir) == \E up \in Above(tree, dir) \ {Root} : tree[up].name \in AppTokens
HasEmbeddedSubdir(dir) ==
    \E n \in Children(tree, dir) : tree[n].is = "dir" /\ tree[n].name \in EMBEDDED_CONTAINER_SUBDIRS

IsContainer(dir) ==
    HasChromiumSignature(dir) \/ HasFirefoxSignature(dir)
    \/ (AttributionFor(dir) /\ HasEmbeddedSubdir(dir))
FoundProfile(browser, at) == [browser |-> browser, at |-> at]
ClassifyDir(dir) ==
    FoundProfile(IF ~HasChromiumSignature(dir) /\ HasFirefoxSignature(dir)
            THEN "Firefox" ELSE "Chromium", dir)

-----------------------------------------------------------------------------
(* The sweep, directory by directory, in whatever order they are read. *)

InSomeOrder(S) ==
    {s \in [1..Cardinality(S) -> S] : \A j, k \in 1..Cardinality(S) : j # k => s[j] # s[k]}
PendingIn(dir, depth) ==
    {[k \in DOMAIN s |-> [dir |-> s[k], depth |-> depth + 1]] :
        s \in InSomeOrder({n \in Children(tree, dir) : tree[n].is = "dir"})}

\* Mistake: the sweep goes on below what it found.
DescendsIntoProfiles ==
    /\ pending # <<>>
    /\ LET here == Head(pending)
       IN  IF here.depth > SWEEP_MAX_DEPTH \/ ~Reads(tree, here.dir)
           THEN pending' = Tail(pending) /\ UNCHANGED swept
           ELSE /\ swept' = IF IsContainer(here.dir)
                            THEN Append(swept, ClassifyDir(here.dir)) ELSE swept
                /\ \E within \in PendingIn(here.dir, here.depth) :
                      pending' = within \o Tail(pending)
    /\ UNCHANGED <<tree, custody>>

SweepDir ==
    /\ pending # <<>>
    /\ LET here == Head(pending)
       IN  IF here.depth > SWEEP_MAX_DEPTH \/ ~Reads(tree, here.dir)
           THEN pending' = Tail(pending) /\ UNCHANGED swept
           ELSE IF IsContainer(here.dir)
           THEN swept' = Append(swept, ClassifyDir(here.dir)) /\ pending' = Tail(pending)
           ELSE /\ UNCHANGED swept
                /\ \E within \in PendingIn(here.dir, here.depth) :
                      pending' = within \o Tail(pending)
    /\ UNCHANGED <<tree, custody>>

-----------------------------------------------------------------------------
(* The known places. *)

CHROMIUM_BASES == {"Chrome", "Edge"}
FIREFOX_BASES == {"Firefox"}
SafariHome == "Safari"
WebCacheHome == "WebCache"

ProfilesIn(bases, browser, history) ==
    {FoundProfile(browser, n) :
        n \in {k \in DOMAIN tree :
                /\ \E base \in Children(tree, Root) :
                      tree[base].name \in bases /\ IsDir(tree, base)
                      /\ Reads(tree, Followed(tree, base)) /\ tree[k].in = Followed(tree, base)
                /\ IsDir(tree, k) /\ HasFile(tree, k, history)}}
ProfileAt(home, browser, history) ==
    {FoundProfile(browser, n) : n \in {k \in Called(tree, Root, home) : HasFile(tree, k, history)}}

HistoryOf(browser) ==
    CASE browser = "Chromium" -> "History" [] browser = "Firefox" -> "places.sqlite"
      [] browser = "Safari" -> "History.db" [] browser = "InternetExplorer" -> "WebCacheV01.dat"
DiscoverProfiles ==
    ProfilesIn(CHROMIUM_BASES, "Chromium", "History")
    \cup ProfilesIn(FIREFOX_BASES, "Firefox", "places.sqlite")
    \cup ProfileAt(SafariHome, "Safari", "History.db")
    \cup ProfileAt(WebCacheHome, "InternetExplorer", "WebCacheV01.dat")

Families == <<"Chromium", "Firefox", "Safari">>
\* A path where none is found may be a profile itself, of the first family that fits.
ProfileFamily(dir) ==
    LET fits == {n \in DOMAIN Families : HasFile(tree, dir, HistoryOf(Families[n]))}
    IN  IF fits = {} THEN {} ELSE {FoundProfile(Families[FirstOf(fits)], dir)}
ProfilesToInvestigate ==
    IF DiscoverProfiles # {} THEN DiscoverProfiles ELSE ProfileFamily(Root)

ArtifactNames(browser) ==
    {HistoryOf(browser)} \cup CASE browser = "Chromium" -> {"Cookies"}
                                [] browser = "Firefox" -> {"cookies.sqlite"} [] OTHER -> {}
\* Paths are made absolute, so that a file that two links lead to is one.
CollectArtifacts(dir, browser) ==
    {Followed(tree, n) :
        n \in {k \in UNION {Called(tree, dir, name) : name \in ArtifactNames(browser)} :
                 IsFile(tree, k)}}
EnumerateEvidence ==
    IF DiscoverProfiles = {}
    THEN UNION {CollectArtifacts(Root, Families[n]) : n \in DOMAIN Families}
    ELSE UNION {CollectArtifacts(p.at, p.browser) : p \in DiscoverProfiles}

-----------------------------------------------------------------------------
(* Detection: of a directory by the names in it, of a file by its header and, of a     *)
(* database, by its tables.                                                            *)

Detected(what, confidence) == [what |-> what, confidence |-> confidence]
DetectDir(dir) ==
    LET defaults == {n \in Called(tree, dir, "Default") : IsDir(tree, n)}
        fits == {n \in DOMAIN Families : HasFile(tree, dir, HistoryOf(Families[n]))}
    IN  IF \E d \in defaults : HasFile(tree, d, "History") THEN Detected("Chromium", "high")
        ELSE IF fits # {} THEN Detected(Families[FirstOf(fits)], "high")
        ELSE Detected("directory", "low")
DetectSqlite(tables) ==
    IF {"urls", "visits"} \subseteq tables THEN Detected("Chromium", "high")
    ELSE IF "cookies" \in tables THEN Detected("Chromium cookies", "high")
    ELSE IF "moz_places" \in tables THEN Detected("Firefox", "high")
    ELSE IF "moz_cookies" \in tables THEN Detected("Firefox cookies", "high")
    ELSE IF {"history_items", "history_visits"} \subseteq tables THEN Detected("Safari", "high")
    ELSE Detected("SQLite", "medium")
DetectFile(n) ==
    LET file == tree[Followed(tree, n)]
    IN  IF ~file.reads THEN Detected("unknown", "low")
        ELSE CASE file.holds.header = "SQLite" -> DetectSqlite(file.holds.tables)
               [] file.holds.header = "ESE" ->
                     Detected("ESE", IF file.name = "WebCacheV01.dat" THEN "high" ELSE "medium")
               [] file.holds.header \in {"mozLz4", "EWF"} -> Detected(file.holds.header, "high")
               [] OTHER -> Detected("unknown", "low")
Detect(n) == IF IsDir(tree, n) THEN DetectDir(n) ELSE DetectFile(n)

\* The path, and each history database in a profile.
HistoryNames == {HistoryOf(Families[n]) : n \in DOMAIN Families}
InvestigationDetections ==
    LET dbs == UNION {Called(tree, p.at, name) : p \in ProfilesToInvestigate, name \in HistoryNames}
    IN  {[at |-> n, as |-> Detect(n)] : n \in {Root} \cup {k \in dbs : IsFile(tree, k)}}

-----------------------------------------------------------------------------

DiscoveryInit ==
    /\ tree \in TreesGiven \cup {<<>>}
    /\ pending = <<[dir |-> Root, depth |-> 0]>> /\ swept = <<>> /\ custody = NotYet

TakeIntoCustody ==
    /\ custody = NotYet
    /\ custody' = [made |-> TRUE, profiles |-> ProfilesToInvestigate, inputs |-> EnumerateEvidence,
                   basis |-> InvestigationDetections]
    /\ UNCHANGED <<tree, pending, swept>>

DiscoveryNext == SweepDir \/ TakeIntoCustody
DiscoverySpec == DiscoveryInit /\ [][DiscoveryNext]_discoveryVars

-----------------------------------------------------------------------------

\* What a reader of the source would take for the containers under the path: directories
\* that look like one, are not in one, and can be walked to.
Containers ==
    {d \in Walked(tree, SWEEP_MAX_DEPTH) :
        IsContainer(d) /\ \A up \in Above(tree, d) \ {d} : ~IsContainer(up)}
\* A profile that a walk reaches, with a history that is no link.
Plain(p) ==
    /\ p.at \in Walked(tree, SWEEP_MAX_DEPTH)
    /\ \A n \in Called(tree, p.at, HistoryOf(p.browser)) : tree[n].is = "file"

\* The sweep finds each container once (lib.rs 69-79); two ways to find profiles, by place
\* and by structure, agree on the profiles of Chromium and Firefox, but for one behind a
\* link, which the sweep avoids, or in a container; and the history of each profile that is
\* investigated is among the files the manifest hashes, as is each that it says a detection
\* about, but for a history of another family than its profile's (manifest lib.rs 4-8,
\* cli.rs 1225-1231).
NoProfileIsLost ==
    /\ pending = <<>> =>
          /\ {swept[k].at : k \in DOMAIN swept} = Containers
          /\ Cardinality(Containers) = Len(swept)
    /\ pending = <<>> /\ custody.made =>
          \A p \in custody.profiles :
             p.browser \in {"Chromium", "Firefox"} /\ Plain(p) =>
                \E k \in DOMAIN swept : swept[k].at \in Above(tree, p.at)
    /\ custody.made =>
          /\ \A p \in custody.profiles :
                \E n \in Called(tree, p.at, HistoryOf(p.browser)) :
                   Followed(tree, n) \in custody.inputs
          /\ \A b \in custody.basis :
                \/ b.at = Root \/ Followed(tree, b.at) \in custody.inputs
                \/ \E p \in custody.profiles :
                      b.at \in Children(tree, Followed(tree, p.at))
                      /\ tree[b.at].name # HistoryOf(p.browser)

=============================================================================
