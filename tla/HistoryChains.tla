---------------------------- MODULE HistoryChains ----------------------------
(***************************************************************************)
(* artifact history --reconstruct (cli.rs, reconstruct_history): the       *)
(* visits of one history database, enriched by every operator of           *)
(* Reconstruct in the order of enrich_visits.                              *)
(***************************************************************************)
EXTENDS Reconstruct

CONSTANT VisitLists        \* the lists of visits that a database may hold

ASSUME VisitListsAssumption ==
    \A list \in VisitLists : list \in Seq({list[i] : i \in DOMAIN list})

VARIABLES visits,     \* the list read from a history database
          rebuilt     \* what was added to it, or nothing yet

chainVars == <<visits, rebuilt>>

NothingRebuilt == [referrer |-> <<>>, depth |-> <<>>, chains |-> <<>>, session |-> <<>>]

ChainsInit == visits = <<>> /\ rebuilt = NothingRebuilt

ReconstructHistory ==
    /\ visits = <<>>
    /\ visits' \in VisitLists
    /\ rebuilt' = EnrichVisits(visits')

ChainsSpec == ChainsInit /\ [][ReconstructHistory]_chainVars

-----------------------------------------------------------------------------

\* The ids that lead to a visit, as the least set closed under from_visit.
LeadTo(i) ==
    LET known == Ids(visits) \ {0}
        grown[n \in 0..Len(visits)] ==
            IF n = 0 THEN {visits[i].from} \cap known
            ELSE grown[n - 1] \cup ({ParentId(visits, id) : id \in grown[n - 1]} \cap known)
    IN  grown[Len(visits)]

\* A visit's depth is the number of visits that lead to it, each counted once,
\* whether the links end, dangle or run in circles (reconstruct.rs 110-147).
DepthCountsAncestors ==
    \A i \in DOMAIN rebuilt.depth :
        rebuilt.depth[i] = LET n == Cardinality(LeadTo(i))
                           IN  IF n < MaxChainDepth THEN n ELSE MaxChainDepth

\* Along a chain each hop is a redirect that came from the hop before it, only
\* its first may come from elsewhere, and no visit is on two chains as long as
\* the ids of the list are distinct (reconstruct.rs 197-271).
ChainsAreLinkedAndDisjoint ==
    \A c \in DOMAIN rebuilt.chains :
        LET chain == rebuilt.chains[c]
        IN  /\ \A n \in DOMAIN chain : visits[chain[n]].redirect
            /\ \A n \in 2..Len(chain) : visits[chain[n]].from = visits[chain[n - 1]].id
            /\ Origin(visits, chain) # 0 => ~visits[Origin(visits, chain)].redirect
            /\ Cardinality(Ids(visits)) = Len(visits) =>
                 \A d \in DOMAIN rebuilt.chains : \A m \in DOMAIN rebuilt.chains[d] :
                    \A n \in DOMAIN chain :
                        rebuilt.chains[d][m] = chain[n] => d = c /\ m = n

\* Depths and chains are those of the recorded links, and only of those
\* (reconstruct.rs 110-271).
ChainsFollowTheReferrers == DepthCountsAncestors /\ ChainsAreLinkedAndDisjoint

=============================================================================
