-------------------------------- MODULE Br4n6 --------------------------------
(***************************************************************************)
(* The program from its entry: a run of br4n6 is a run of one verb         *)
(* (cli.rs, run), and only the state of that verb moves.                   *)
(*                                                                         *)
(* The verbs whose components have modules of their own are composed here; *)
(* investigate with its resumption, the container reader and the whole-    *)
(* image carve are composed in Investigate and ImageCarve.  Opening a      *)
(* database is a part of most verbs, and is looked at by itself here.      *)
(***************************************************************************)
EXTENDS EvidenceDb, Viewer, HistoryChains, Timeline, HistoryIntegrity, Findings,
        CacheCarve, Find, Deliver, Artifacts, PageRebuild,
        Discovery, Secrets, CachedBodies, WebStorage

VARIABLE verb      \* the verb on the command line

Verbs == {"database", "artifact", "tui", "history", "timeline", "integrity", "findings", "cache",
          "find", "deliver", "reconstruct", "browsers", "secrets", "bodies", "storage"}

allVars == <<verb, vars, viewerVars, chainVars, timelineVars, integrityVars, findingsVars,
             cacheVars, findVars, deliverVars, artifactVars, pageVars, discoveryVars,
             secretVars, bodyVars, storageVars>>

\* What a verb does not look at is of one kind.
Br4n6Init ==
    /\ verb \in Verbs
    /\ Init /\ (verb # "database" => mode = "wal")
    /\ IntegrityInit /\ (verb # "integrity" => kind = [family |-> "Safari", wal |-> FALSE])
    /\ ViewerInit /\ ChainsInit /\ TimelineInit /\ FindingsInit
    /\ CacheInit /\ FindInit /\ DeliverInit
    /\ ArtifactsInit /\ (verb # "artifact" => NothingToRead)
    /\ PagesInit /\ (verb # "reconstruct" => asked = NothingAsked)
    /\ DiscoveryInit /\ (verb # "browsers" => tree = <<>>)
    /\ SecretsInit /\ (verb # "secrets" => wanted = NothingWanted)
    /\ BodiesInit /\ (verb # "bodies" => NothingCached)
    /\ StorageInit /\ (verb # "storage" => format = "local" /\ sources = NoSources)

\* The state of a verb rests in the run of another.
Rests(v, state) == IF verb = v THEN TRUE ELSE UNCHANGED state

Br4n6Next ==
    /\ UNCHANGED verb
    /\ Rests("database", vars) /\ Rests("tui", viewerVars) /\ Rests("history", chainVars)
    /\ Rests("timeline", timelineVars) /\ Rests("integrity", integrityVars)
    /\ Rests("findings", findingsVars) /\ Rests("cache", cacheVars)
    /\ Rests("find", findVars) /\ Rests("deliver", deliverVars)
    /\ Rests("artifact", artifactVars) /\ Rests("reconstruct", pageVars)
    /\ Rests("browsers", discoveryVars) /\ Rests("secrets", secretVars)
    /\ Rests("bodies", bodyVars) /\ Rests("storage", storageVars)
    /\ \/ verb = "database" /\ Next
       \/ verb = "artifact" /\ ArtifactsNext
       \/ verb = "tui" /\ ViewerNext
       \/ verb = "history" /\ ReconstructHistory
       \/ verb = "timeline" /\ RunTimeline
       \/ verb = "integrity" /\ IntegrityNext
       \/ verb = "findings" /\ (RunInvestigate \/ RunRecover)
       \/ verb = "cache" /\ CacheNext
       \/ verb = "find" /\ (RunFind \/ RunFindIocs)
       \/ verb = "deliver" /\ DeliverNext
       \/ verb = "reconstruct" /\ PagesNext
       \/ verb = "browsers" /\ DiscoveryNext
       \/ verb = "secrets" /\ SecretsNext
       \/ verb = "bodies" /\ BodiesNext
       \/ verb = "storage" /\ StorageNext

Br4n6Spec == Br4n6Init /\ [][Br4n6Next]_allVars

=============================================================================
