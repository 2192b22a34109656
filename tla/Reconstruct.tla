----------------------------- MODULE Reconstruct -----------------------------
(***************************************************************************)
(* What is rebuilt from a list of visits (browser-forensic-core,           *)
(* reconstruct.rs): who led to whom, redirect chains, inferred sessions.   *)
(*                                                                         *)
(* A visit is a record of its id, the id it came from (0 for none), whether*)
(* it was a redirect, its time and the session the browser recorded, 0 for *)
(* none.  Lists come from databases that may be corrupt: ids may dangle,   *)
(* repeat or run in circles.                                               *)
(***************************************************************************)
EXTENDS Integers, Sequences, FiniteSets, StableSort

CONSTANTS MaxChainDepth,   \* 4096 in the code
          IdleGap

ASSUME ChainAssumption == MaxChainDepth \in Nat \ {0} /\ IdleGap \in Nat

-----------------------------------------------------------------------------
(* Lookups.  The referrer maps are collected, so the last visit of an id    *)
(* wins; the redirect index is filled with or_insert, so the first does.    *)

Ids(visits) == {visits[i].id : i \in DOMAIN visits}
LastWithId(visits, id) ==
    CHOOSE i \in DOMAIN visits :
        /\ visits[i].id = id
        /\ \A j \in DOMAIN visits : visits[j].id = id => j <= i
FirstWithId(visits, id) ==
    CHOOSE i \in DOMAIN visits :
        /\ visits[i].id = id
        /\ \A j \in DOMAIN visits : visits[j].id = id => i <= j
ParentId(visits, id) ==
    IF id \in Ids(visits) THEN visits[LastWithId(visits, id)].from ELSE 0

(* Referrers. *)

\* The visit whose URL becomes the referrer_url of visit i, 0 for none.
Referrer(visits, i) ==
    IF visits[i].from \in Ids(visits) \ {0} THEN LastWithId(visits, visits[i].from) ELSE 0

\* The ids met on the way back from visit i.
WayBack(visits, i) ==
    LET way[n \in 1..MaxChainDepth] ==
            IF n = 1 THEN visits[i].from ELSE ParentId(visits, way[n - 1])
    IN  way

\* Mistake: a circle is followed until the depth is exhausted.
NavDepthInCircles(visits, i) ==
    LET way == WayBack(visits, i)
    IN  Cardinality({n \in 1..MaxChainDepth : \A m \in 1..n : way[m] \in Ids(visits) \ {0}})

\* How many of them are passed before the way ends, dangles, closes or is cut.
NavDepth(visits, i) ==
    LET way == WayBack(visits, i)
    IN  Cardinality({n \in 1..MaxChainDepth : \A m \in 1..n :
            /\ way[m] \in Ids(visits) \ {0}
            /\ \A k \in 1..(m - 1) : way[k] # way[m]})

(* Redirect chains. *)

RedirectParent(visits, i) ==
    IF visits[i].from \in Ids(visits) THEN FirstWithId(visits, visits[i].from) ELSE 0

RedirectChildren(visits, i) ==
    {k \in DOMAIN visits : visits[k].redirect /\ visits[k].from = visits[i].id}

First(S) == CHOOSE i \in S : \A j \in S : i <= j

\* From a head, always to the first redirect child not yet on the run.
RunFrom(visits, head) ==
    LET run[n \in 1..MaxChainDepth] ==
            IF n = 1 THEN <<head>>
            ELSE LET before == run[n - 1]
                     kids == RedirectChildren(visits, before[Len(before)])
                             \ {before[m] : m \in DOMAIN before}
                 IN  IF kids = {} THEN before ELSE Append(before, First(kids))
    IN  run[MaxChainDepth]

\* The chains in the order of their heads.  A redirect already on a chain, or
\* whose parent is a redirect, heads none.
RedirectChains(visits) ==
    LET Members(chains) == UNION {{c[m] : m \in DOMAIN c} : c \in {chains[n] : n \in DOMAIN chains}}
        Heads(i, chains) ==
            /\ visits[i].redirect
            /\ i \notin Members(chains)
            /\ \/ RedirectParent(visits, i) = 0
               \/ ~visits[RedirectParent(visits, i)].redirect
        chains[n \in 0..Len(visits)] ==
            IF n = 0 THEN <<>>
            ELSE IF Heads(n, chains[n - 1])
                 THEN Append(chains[n - 1], RunFrom(visits, n))
                 ELSE chains[n - 1]
    IN  chains[Len(visits)]

\* The visit that started the navigation, when it is known.
Origin(visits, chain) == RedirectParent(visits, chain[1])

(* Sessions. *)

\* Visits in time order, by their place in the list.
TimeOrder(visits) ==
    SortedByKey([i \in DOMAIN visits |-> i], [i \in DOMAIN visits |-> visits[i].time])

SessionBoundary(earlier, later) ==
    \/ later.time - earlier.time > IdleGap
    \/ 0 \notin {earlier.session, later.session} /\ earlier.session # later.session

\* The session of each visit, counted from 0 in time order.
Sessionize(visits) ==
    LET order == TimeOrder(visits)
        at[n \in 1..Len(visits)] ==
            IF n = 1 THEN 0
            ELSE IF SessionBoundary(visits[order[n - 1]], visits[order[n]])
                 THEN at[n - 1] + 1 ELSE at[n - 1]
    IN  [i \in DOMAIN visits |-> at[CHOOSE n \in DOMAIN order : order[n] = i]]

\* Everything enrich_visits adds to a list.
EnrichVisits(visits) ==
    [referrer |-> [i \in DOMAIN visits |-> Referrer(visits, i)],
     depth |-> [i \in DOMAIN visits |-> NavDepth(visits, i)],
     chains |-> RedirectChains(visits),
     session |-> Sessionize(visits)]

==============================================================================
