--------------------------- MODULE HistoryProofs ----------------------------
(***************************************************************************)
(* Histories: that the timeline is of the selected profiles and has every  *)
(* history that can be read once, for any evidence and visits; that depths *)
(* and redirect chains are those of the recorded links, for any list of    *)
(* visits; and that an honest history raises no indicator and a deletion   *)
(* does, for any addresses, any number of visits and any clock.            *)
(***************************************************************************)
EXTENDS Timeline, HistoryIntegrity, HistoryChains, OrderProofs

-----------------------------------------------------------------------------
(* Lists of one element. *)

\* A list of one element, and what it is a list of.
LEMMA SetToSeqOfOne ==
    ASSUME NEW s
    PROVE  SetToSeq({s}) = <<s>>
<1> DEFINE IsIt(f) == f \in [1..Cardinality({s}) -> {s}] /\ IsInjective(f)
<1>1. Cardinality({s}) = 1
  BY FS_Singleton
<1>2. <<s>> \in [1..1 -> {s}] /\ DOMAIN <<s>> = 1..1
  OBVIOUS
<1>3. IsInjective(<<s>>)
  BY <1>2 DEF IsInjective
<1>4. \A f \in [1..1 -> {s}] : f = <<s>>
  OBVIOUS
<1> QED  BY <1>1, <1>2, <1>3, <1>4 DEF SetToSeq

LEMMA SetToSeqOfNone == SetToSeq({}) = <<>>
<1>1. Cardinality({}) = 0
  BY FS_EmptySet
<1>2. <<>> \in [1..0 -> {}] /\ IsInjective(<<>>)
  BY DEF IsInjective
<1>3. \A f \in [1..0 -> {}] : f = <<>>
  OBVIOUS
<1> QED  BY <1>1, <1>2, <1>3 DEF SetToSeq

LEMMA FlattenOne ==
    ASSUME NEW t
    PROVE  FlattenSeq(<<t>>) = t
<1> DEFINE F(f) == [i \in 1..1 |-> IF i = 1 THEN <<t>>[i] ELSE f[i - 1] \o <<t>>[i]]
           g == CHOOSE f : f = F(f)
<1>1. F(<<t>>) = <<t>>
  OBVIOUS
<1>2. g = F(g)
  <2> HIDE DEF F
  <2> QED  BY <1>1
<1>3. g[1] = t
  <2> HIDE DEF g
  <2> QED  BY <1>2
<1>4. Len(<<t>>) = 1
  OBVIOUS
<1>5. FlattenSeq(<<t>>) = g[1]
  BY <1>4 DEF FlattenSeq
<1> QED  BY <1>3, <1>5

-----------------------------------------------------------------------------
(* The timeline. *)

\* The run has shown what the view shows of the evidence.
TimelineInv ==
    timeline.status = "shown" =>
        /\ evidence \in Evidence /\ request \in Requests
        /\ timeline.events = View(evidence, request)

IsEvent(v) ==
    v = [site |-> v.site, kind |-> v.kind, per |-> v.per, n |-> v.n, stamp |-> v.stamp,
         referrer |-> v.referrer]

LEMMA StampedEvents ==
    ASSUME NEW X, \A w \in X : IsEvent(w)
    PROVE  \A v \in Stamped(X) : \E w \in X :
              v = [site |-> w.site, kind |-> w.kind, per |-> w.per, n |-> w.n,
                   stamp |-> StampOf(w.site), referrer |-> w.referrer]
<1> SUFFICES ASSUME NEW v \in Stamped(X)
             PROVE  \E w \in X :
                v = [site |-> w.site, kind |-> w.kind, per |-> w.per, n |-> w.n,
                     stamp |-> StampOf(w.site), referrer |-> w.referrer]
  OBVIOUS
<1>1. PICK w \in X : v = [w EXCEPT !.stamp = StampOf(w.site)]
  BY DEF Stamped
<1>2. w = [site |-> w.site, kind |-> w.kind, per |-> w.per, n |-> w.n, stamp |-> w.stamp,
           referrer |-> w.referrer]
  BY DEF IsEvent
<1>3. v = [site |-> w.site, kind |-> w.kind, per |-> w.per, n |-> w.n,
           stamp |-> StampOf(w.site), referrer |-> w.referrer]
  BY <1>1, <1>2
<1> QED  BY <1>3

\* Every event is stamped.
LEMMA StampedKeeps ==
    ASSUME NEW X, \A w \in X : IsEvent(w), NEW w \in X
    PROVE  \E v \in Stamped(X) :
              v = [site |-> w.site, kind |-> w.kind, per |-> w.per, n |-> w.n,
                   stamp |-> StampOf(w.site), referrer |-> w.referrer]
<1>1. [w EXCEPT !.stamp = StampOf(w.site)] \in Stamped(X)
  BY DEF Stamped
<1>2. w = [site |-> w.site, kind |-> w.kind, per |-> w.per, n |-> w.n, stamp |-> w.stamp,
           referrer |-> w.referrer]
  BY DEF IsEvent
<1>3. [w EXCEPT !.stamp = StampOf(w.site)]
         = [site |-> w.site, kind |-> w.kind, per |-> w.per, n |-> w.n,
            stamp |-> StampOf(w.site), referrer |-> w.referrer]
  BY <1>2
<1> QED  BY <1>1, <1>3

\* The events of one profile.
LEMMA ProfileEvents ==
    ASSUME NEW e, NEW s
    PROVE  /\ \A v \in ParseHistory(e, s) : v = Event(s, "history", "url", 0)
           /\ \A v \in TriageProfile(e, s) :
                v \in ParseHistory(e, s) \/ v = Event(s, "other", "row", 0)
           /\ \A v \in Downloads(e, s) : v = Event(s, "download", "row", 0)
           /\ ParseHistory(e, s) \subseteq TriageProfile(e, s)
BY DEF ParseHistory, TriageProfile, Downloads

LEMMA EventFields ==
    ASSUME NEW s, NEW k, NEW p, NEW n
    PROVE  LET v == Event(s, k, p, n)
           IN  /\ IsEvent(v)
               /\ v.site = s /\ v.kind = k /\ v.per = p /\ v.n = n /\ v.referrer = Anyone
BY DEF Event, IsEvent

-----------------------------------------------------------------------------
(* The visits of one profile. *)

LEMMA MergedOfOne ==
    ASSUME NEW e \in Evidence, NEW s \in Sites, e.stores[s] = "visits"
    PROVE  LET m == MergedVisits(e, {s})
           IN  /\ m \in Seq({s} \X DOMAIN VisitsOf[s])
               /\ DOMAIN m = DOMAIN VisitsOf[s] /\ m # <<>>
<1> DEFINE D == DOMAIN VisitsOf[s]
           visited == SetToSeq({t \in {s} : e.stores[t] = "visits"})
           of(k) == [n \in DOMAIN VisitsOf[visited[k]] |-> <<visited[k], n>>]
           flat == FlattenSeq([k \in DOMAIN visited |-> of(k)])
           places == [n \in D |-> <<s, n>>]
           keys == [n \in DOMAIN places |-> VisitsIn(places)[n].time]
<1>1. MergedVisits(e, {s}) =
        SortedByKey(flat, [n \in DOMAIN flat |-> VisitsIn(flat)[n].time])
  BY DEF MergedVisits
<1>2. {t \in {s} : e.stores[t] = "visits"} = {s}
  OBVIOUS
<1>3. visited = <<s>>
  BY <1>2, SetToSeqOfOne
<1>4. flat = places
  <2> HIDE DEF visited
  <2>1. of(1) = places
    BY <1>3
  <2> HIDE DEF of
  <2>2. [k \in DOMAIN visited |-> of(k)] = <<of(1)>>
    BY <1>3
  <2> QED  BY <2>1, <2>2, FlattenOne
<1>5. /\ D = 1..Len(VisitsOf[s]) /\ Len(VisitsOf[s]) \in Nat
      /\ \A n \in D : VisitsOf[s][n].time \in Int
  <2> DEFINE V == VisitsOf[s]
             R == [id: Nat, from: Nat, redirect: BOOLEAN, time: Int, session: Nat]
  <2>1. V \in Seq(R) /\ \A v \in R : v.time \in Int
    BY SiteAssumption
  <2> HIDE DEF V, R
  <2>2. D = 1..Len(V) /\ Len(V) \in Nat /\ \A n \in D : V[n] \in R
    BY <2>1 DEF V
  <2> QED  BY <2>1, <2>2 DEF V
<1>6. places \in Seq({s} \X D) /\ DOMAIN places = D
  BY <1>5
<1>7. keys \in [DOMAIN places -> Int]
  <2>1. VisitsIn(places) = [n \in D |-> VisitsOf[s][n]]
    BY DEF VisitsIn
  <2> QED  BY <1>5, <2>1
<1>8. VisitsOf[s] # <<>>
  BY SiteAssumption DEF Evidence, StoresOf, Linked
<1>13. SortedByKey(flat, [n \in DOMAIN flat |-> VisitsIn(flat)[n].time]) =
         SortedByKey(places, keys)
  BY <1>4
<1> HIDE DEF places, keys
<1>9. SortedByKey(places, keys) \in Seq({s} \X D) /\ DOMAIN SortedByKey(places, keys) = D
  <2> DEFINE P == {s} \X D
  <2>1. places \in Seq(P)
    BY <1>6
  <2>2. SortedByKey(places, keys) \in Seq(P) /\ DOMAIN SortedByKey(places, keys) = D
    <3> HIDE DEF P
    <3> QED  BY <1>6, <1>7, <2>1, SortedElements
  <2> QED  BY <2>2
<1>12. D # {}
  BY <1>5, <1>8
<1>14. MergedVisits(e, {s}) = SortedByKey(places, keys)
  BY <1>1, <1>13
<1> HIDE DEF D
<1> QED  BY <1>9, <1>12, <1>14 DEF D

LEMMA LastWithIdIsThere ==
    ASSUME NEW list, NEW n \in Nat, DOMAIN list = 1..n, NEW id \in Ids(list)
    PROVE  LastWithId(list, id) \in DOMAIN list
<1> DEFINE T == {i \in DOMAIN list : list[i].id = id}
<1>1. T \in SUBSET Nat /\ T # {} /\ \A i \in T : i <= n
  BY DEF Ids
<1>2. PICK i \in T : \A j \in T : j <= i
  BY <1>1, GreatestNat
<1> QED  BY <1>2 DEF LastWithId

LEMMA LinkedOfOne ==
    ASSUME NEW e \in Evidence, NEW s \in Sites, e.stores[s] = "visits"
    PROVE  LET linked == LinkedEvents(MergedVisits(e, {s}))
           IN  /\ \A v \in linked : /\ IsEvent(v) /\ v.site = s /\ v.kind = "history"
                                    /\ v.per = "visit" /\ v.referrer \in {Anyone, s}
               /\ linked # {}
               /\ \A n \in DOMAIN VisitsOf[s] : \E v \in linked : v.n = n
<1> DEFINE m == MergedVisits(e, {s})
           list == VisitsIn(m)
           from(n) == IF Referrer(list, n) = 0 THEN Anyone ELSE m[Referrer(list, n)][1]
<1>1. m \in Seq({s} \X DOMAIN VisitsOf[s]) /\ m # <<>> /\ DOMAIN m = DOMAIN VisitsOf[s]
  BY MergedOfOne, Zenon
<1> HIDE DEF m
<1>2. DOMAIN m = 1..Len(m) /\ Len(m) \in Nat /\ DOMAIN m # {} /\ \A i \in DOMAIN m : m[i][1] = s
  <2> DEFINE P == {s} \X DOMAIN VisitsOf[s]
  <2>1. m \in Seq(P) /\ m # <<>> /\ \A q \in P : q[1] = s
    BY <1>1
  <2> HIDE DEF P
  <2>2. DOMAIN m = 1..Len(m) /\ Len(m) \in Nat /\ Len(m) # 0
    BY <2>1
  <2>3. \A i \in DOMAIN m : m[i] \in P
    BY <2>1
  <2>4. 1 \in DOMAIN m
    BY <2>2
  <2>5. \A i \in DOMAIN m : m[i][1] = s
    BY <2>1, <2>3
  <2> QED  BY <2>2, <2>4, <2>5
<1>3. DOMAIN list = 1..Len(m)
  BY <1>2 DEF VisitsIn
<1> HIDE DEF list
<1>4. \A n \in DOMAIN m : from(n) \in {Anyone, s}
  <2> TAKE n \in DOMAIN m
  <2>1. Referrer(list, n) = 0 \/ Referrer(list, n) \in DOMAIN m
    BY <1>2, <1>3, LastWithIdIsThere DEF Referrer
  <2> QED  BY <1>2, <2>1
<1>5. \A n \in DOMAIN m :
        [Event(m[n][1], "history", "visit", n) EXCEPT !.referrer = from(n)] =
        [site |-> s, kind |-> "history", per |-> "visit", n |-> n, stamp |-> <<>>,
         referrer |-> from(n)]
  <2> TAKE n \in DOMAIN m
  <2>1. m[n][1] = s
    BY <1>2
  <2> HIDE DEF from
  <2> QED  BY <2>1 DEF Event
<1>6. LinkedEvents(m) =
        {[Event(m[n][1], "history", "visit", n) EXCEPT !.referrer = from(n)] : n \in DOMAIN m}
  BY DEF LinkedEvents, list
<1> HIDE DEF from
<1>7. \A v \in LinkedEvents(m) : \E n \in DOMAIN m :
        v = [site |-> s, kind |-> "history", per |-> "visit", n |-> n, stamp |-> <<>>,
             referrer |-> from(n)]
  BY <1>5, <1>6
<1>8. \A v \in LinkedEvents(m) : /\ IsEvent(v) /\ v.site = s /\ v.kind = "history"
                                 /\ v.per = "visit" /\ v.referrer \in {Anyone, s}
  BY <1>4, <1>7 DEF IsEvent
<1>9. LinkedEvents(m) # {}
  BY <1>2, <1>6
<1>10. ASSUME NEW n \in DOMAIN VisitsOf[s] PROVE \E v \in LinkedEvents(m) : v.n = n
  <2>1. n \in DOMAIN m
    BY <1>1
  <2>2. [Event(m[n][1], "history", "visit", n) EXCEPT !.referrer = from(n)] \in LinkedEvents(m)
    BY <1>6, <2>1
  <2>3. [Event(m[n][1], "history", "visit", n) EXCEPT !.referrer = from(n)].n = n
    BY <1>5, <2>1
  <2> QED BY <2>2, <2>3
<1> QED  BY <1>8, <1>9, <1>10 DEF m

-----------------------------------------------------------------------------
(* The views. *)

\* The numbers of the events by which a chain has all the history of a site.
PlacesOf(e, s) == IF e.stores[s] = "visits" THEN DOMAIN VisitsOf[s] ELSE {0}

\* Chains of a site: linked visits or URLs, every one stamped.
LEMMA ChainEvents ==
    ASSUME NEW e \in Evidence, NEW r
    PROVE  LET mine == {s \in Chosen(e, r) : FamilyOf[s] # "WebCache"}
               chains == ReconstructProfileChains(e, r)
           IN  /\ \A v \in chains :
                    /\ v.site \in mine /\ v.stamp = StampOf(v.site) /\ v.kind = "history"
                    /\ v.per = IF e.stores[v.site] = "visits" THEN "visit" ELSE "url"
                    /\ v.referrer \in {Anyone, v.site}
               /\ chains # {} => \A s \in mine :
                    e.stores[s] \in {"urls", "visits"} => \E v \in chains : v.site = s
               /\ chains # {} => \A s \in mine :
                    e.stores[s] \in {"urls", "visits"} =>
                       \A n \in PlacesOf(e, s) : \E v \in chains : v.site = s /\ v.n = n
               /\ chains = {} => \A s \in mine : e.stores[s] # "visits"
<1> DEFINE mine == {s \in Chosen(e, r) : FamilyOf[s] # "WebCache"}
           chained == {s \in mine : e.stores[s] = "visits"}
           linked == UNION {LinkedEvents(MergedVisits(e, {s})) : s \in chained}
           parsed == UNION {ParseHistory(e, s) : s \in mine \ chained}
           X == linked \cup parsed
           chains == ReconstructProfileChains(e, r)
<1>1. mine \subseteq Sites
  BY DEF Chosen, ProfilesOf
<1>2. chains = IF chained = {} THEN {} ELSE Stamped(X)
  BY DEF ReconstructProfileChains
<1>0. /\ \A s \in chained : LinkedEvents(MergedVisits(e, {s})) \subseteq X
      /\ \A s \in mine \ chained : ParseHistory(e, s) \subseteq X
      /\ \A w \in X :
            \/ \E s \in chained : w \in LinkedEvents(MergedVisits(e, {s}))
            \/ \E s \in mine \ chained : w \in ParseHistory(e, s)
  <2>1. \A w : w \in linked <=> \E s \in chained : w \in LinkedEvents(MergedVisits(e, {s}))
    <3> HIDE DEF chained, mine
    <3> QED  OBVIOUS
  <2>2. \A w : w \in parsed <=> \E s \in mine \ chained : w \in ParseHistory(e, s)
    <3> HIDE DEF chained, mine
    <3> QED  OBVIOUS
  <2> HIDE DEF chained, mine, linked, parsed
  <2>3. \A s \in chained : LinkedEvents(MergedVisits(e, {s})) \subseteq linked
    BY <2>1
  <2>4. \A s \in mine \ chained : ParseHistory(e, s) \subseteq parsed
    BY <2>2
  <2>5. \A w \in X : w \in linked \/ w \in parsed
    OBVIOUS
  <2>6. linked \subseteq X /\ parsed \subseteq X
    OBVIOUS
  <2> HIDE DEF X
  <2> QED  BY <2>1, <2>2, <2>3, <2>4, <2>5, <2>6
<1>3. ASSUME NEW s \in chained, NEW w \in LinkedEvents(MergedVisits(e, {s}))
      PROVE  /\ IsEvent(w) /\ w.site = s /\ w.kind = "history" /\ w.per = "visit"
             /\ w.referrer \in {Anyone, s}
  BY <1>1, LinkedOfOne
<1>4. ASSUME NEW s \in mine \ chained, NEW w \in ParseHistory(e, s)
      PROVE  /\ IsEvent(w) /\ w.site = s /\ w.kind = "history" /\ w.per = "url"
             /\ w.referrer = Anyone
  BY ProfileEvents, EventFields
<1>5. ASSUME NEW w \in X
      PROVE  /\ IsEvent(w) /\ w.site \in mine /\ w.kind = "history"
             /\ w.per = IF e.stores[w.site] = "visits" THEN "visit" ELSE "url"
             /\ w.referrer \in {Anyone, w.site}
  <2>1. CASE \E s \in chained : w \in LinkedEvents(MergedVisits(e, {s}))
    <3>1. PICK s \in chained : w \in LinkedEvents(MergedVisits(e, {s}))
      BY <2>1
    <3>2. s \in mine /\ e.stores[s] = "visits"
      OBVIOUS
    <3> HIDE DEF chained, mine
    <3> QED  BY <1>3, <3>1, <3>2
  <2>2. CASE \E s \in mine \ chained : w \in ParseHistory(e, s)
    <3>1. PICK s \in mine \ chained : w \in ParseHistory(e, s)
      BY <2>2
    <3>2. s \in mine /\ e.stores[s] # "visits"
      OBVIOUS
    <3> HIDE DEF chained, mine
    <3> QED  BY <1>4, <3>1, <3>2
  <2> HIDE DEF chained, mine, X
  <2> QED  BY <1>0, <2>1, <2>2
<1>6. ASSUME NEW s \in mine, e.stores[s] \in {"urls", "visits"}
      PROVE  \E w \in X : w.site = s
  <2>1. CASE s \in chained
    <3>1. PICK w \in LinkedEvents(MergedVisits(e, {s})) : w.site = s
      <4>1. \E w \in LinkedEvents(MergedVisits(e, {s})) : TRUE
        BY <1>1, <2>1, LinkedOfOne
      <4> HIDE DEF chained, mine
      <4> QED  BY <1>3, <2>1, <4>1
    <3> HIDE DEF chained, mine, X
    <3> QED  BY <1>0, <2>1, <3>1
  <2>2. CASE s \notin chained
    <3>1. Event(s, "history", "url", 0) \in ParseHistory(e, s)
      BY <1>6 DEF ParseHistory
    <3>2. Event(s, "history", "url", 0).site = s
      BY EventFields
    <3> QED  BY <2>2, <3>1, <3>2
  <2> QED  BY <2>1, <2>2
<1>10. ASSUME NEW s \in mine, e.stores[s] \in {"urls", "visits"}, NEW n \in PlacesOf(e, s)
       PROVE  \E w \in X : w.site = s /\ w.n = n
  <2>1. CASE s \in chained
    <3>1. n \in DOMAIN VisitsOf[s]
      BY <2>1 DEF PlacesOf
    <3>2. PICK w \in LinkedEvents(MergedVisits(e, {s})) : w.n = n
      <4>1. \E w \in LinkedEvents(MergedVisits(e, {s})) : w.n = n
        BY <1>1, <2>1, <3>1, LinkedOfOne
      <4> QED  BY <4>1
    <3> HIDE DEF chained, mine, X
    <3> QED  BY <1>0, <1>3, <2>1, <3>2
  <2>2. CASE s \notin chained
    <3>1. Event(s, "history", "url", 0) \in ParseHistory(e, s)
      BY <1>10 DEF ParseHistory
    <3>2. Event(s, "history", "url", 0).site = s /\ Event(s, "history", "url", 0).n = 0
      BY EventFields
    <3>3. n = 0
      BY <2>2 DEF PlacesOf
    <3> QED  BY <2>2, <3>1, <3>2, <3>3
  <2> QED  BY <2>1, <2>2
<1> HIDE DEF X, chains
<1>7. ASSUME NEW v \in chains
      PROVE  /\ v.site \in mine /\ v.stamp = StampOf(v.site) /\ v.kind = "history"
             /\ v.per = IF e.stores[v.site] = "visits" THEN "visit" ELSE "url"
             /\ v.referrer \in {Anyone, v.site}
  <2>1. v \in Stamped(X)
    BY <1>2
  <2>2. PICK w \in X : v = [site |-> w.site, kind |-> w.kind, per |-> w.per, n |-> w.n,
                            stamp |-> StampOf(w.site), referrer |-> w.referrer]
    BY <1>5, <2>1, StampedEvents
  <2> QED  BY <1>5, <2>2
<1>8. ASSUME chains # {}, NEW s \in mine, e.stores[s] \in {"urls", "visits"}
      PROVE  \E v \in chains : v.site = s
  <2>1. PICK w \in X : w.site = s
    BY <1>6, <1>8
  <2>2. \E v \in Stamped(X) :
          v = [site |-> w.site, kind |-> w.kind, per |-> w.per, n |-> w.n,
               stamp |-> StampOf(w.site), referrer |-> w.referrer]
    BY <1>5, StampedKeeps
  <2> QED  BY <1>2, <1>8, <2>1, <2>2
<1>9. ASSUME chains = {}, NEW s \in mine, e.stores[s] = "visits" PROVE FALSE
  <2>1. PICK w \in X : w.site = s
    BY <1>6, <1>9
  <2>2. \E v \in Stamped(X) :
          v = [site |-> w.site, kind |-> w.kind, per |-> w.per, n |-> w.n,
               stamp |-> StampOf(w.site), referrer |-> w.referrer]
    BY <1>5, StampedKeeps
  <2> QED  BY <1>2, <1>9, <2>2
<1>11. ASSUME chains # {}, NEW s \in mine, e.stores[s] \in {"urls", "visits"},
              NEW n \in PlacesOf(e, s)
       PROVE  \E v \in chains : v.site = s /\ v.n = n
  <2>1. PICK w \in X : w.site = s /\ w.n = n
    BY <1>10, <1>11
  <2>2. \E v \in Stamped(X) :
          v = [site |-> w.site, kind |-> w.kind, per |-> w.per, n |-> w.n,
               stamp |-> StampOf(w.site), referrer |-> w.referrer]
    BY <1>5, StampedKeeps
  <2> QED  BY <1>2, <1>11, <2>1, <2>2
<1> QED  BY <1>7, <1>8, <1>9, <1>11 DEF chains

\* What is collected under a selector is by URL or row, of the selected profiles.
LEMMA SelectedEvents ==
    ASSUME NEW e, NEW r
    PROVE  \A v \in CollectSelected(e, r) :
              /\ v.site \in Chosen(e, r) /\ v.stamp = StampOf(v.site)
              /\ v.per # "visit" /\ v.referrer = Anyone
              /\ v.kind = "history" => v.per = "url"
<1> DEFINE X == UNION {TriageProfile(e, s) \cup Downloads(e, s) : s \in Chosen(e, r)}
<1>1. ASSUME NEW w \in X
      PROVE  /\ IsEvent(w) /\ w.site \in Chosen(e, r) /\ w.per # "visit" /\ w.referrer = Anyone
             /\ w.kind = "history" => w.per = "url"
  <2>1. PICK s \in Chosen(e, r) : w \in TriageProfile(e, s) \cup Downloads(e, s)
    OBVIOUS
  <2>2. w \in {Event(s, "history", "url", 0), Event(s, "other", "row", 0),
               Event(s, "download", "row", 0)}
    BY <2>1, ProfileEvents
  <2> QED  BY <2>2, EventFields
<1>2. CollectSelected(e, r) = Stamped(X)
  BY DEF CollectSelected
<1> HIDE DEF X
<1> SUFFICES ASSUME NEW v \in Stamped(X)
             PROVE  /\ v.site \in Chosen(e, r) /\ v.stamp = StampOf(v.site)
                    /\ v.per # "visit" /\ v.referrer = Anyone
                    /\ v.kind = "history" => v.per = "url"
  BY <1>2
<1>3. PICK w \in X : v = [site |-> w.site, kind |-> w.kind, per |-> w.per, n |-> w.n,
                          stamp |-> StampOf(w.site), referrer |-> w.referrer]
  BY <1>1, StampedEvents
<1> QED  BY <1>1, <1>3

\* A profile whose history can be read is collected by URL.
LEMMA SelectedHistory ==
    ASSUME NEW e, NEW r, NEW s \in Chosen(e, r), e.stores[s] \in {"urls", "visits"}
    PROVE  \E v \in CollectSelected(e, r) :
              v.site = s /\ v.kind = "history" /\ v.per = "url" /\ v.n = 0
<1> DEFINE X == UNION {TriageProfile(e, t) \cup Downloads(e, t) : t \in Chosen(e, r)}
           w == Event(s, "history", "url", 0)
<1>1. ASSUME NEW x \in X PROVE IsEvent(x)
  <2>1. PICK t \in Chosen(e, r) : x \in TriageProfile(e, t) \cup Downloads(e, t)
    OBVIOUS
  <2>2. x \in {Event(t, "history", "url", 0), Event(t, "other", "row", 0),
               Event(t, "download", "row", 0)}
    BY <2>1, ProfileEvents
  <2> QED  BY <2>2, EventFields
<1>2. /\ w \in ParseHistory(e, s) /\ w.site = s /\ w.kind = "history" /\ w.per = "url"
      /\ w.n = 0
  BY EventFields DEF ParseHistory
<1>3. w \in X
  BY <1>2 DEF TriageProfile
<1>4. CollectSelected(e, r) = Stamped(X)
  BY DEF CollectSelected
<1> HIDE DEF X, w
<1>5. \E v \in Stamped(X) :
        v = [site |-> w.site, kind |-> w.kind, per |-> w.per, n |-> w.n,
             stamp |-> StampOf(w.site), referrer |-> w.referrer]
  BY <1>1, <1>3, StampedKeeps
<1> QED  BY <1>2, <1>4, <1>5

LEMMA ScopedView ==
    ASSUME NEW e \in Evidence, NEW r \in Requests, IsActive(r), e.shape # "file"
    PROVE  \A v \in View(e, r) : v.site \in Chosen(e, r) /\ v.stamp = StampOf(v.site)
<1>1. CollectTimelineEvents(e, r) = CollectSelected(e, r)
  BY DEF CollectTimelineEvents
<1>2. ReconstructTimelineChains(e, r) = ReconstructProfileChains(e, r)
  BY DEF ReconstructTimelineChains
<1>3. \A v \in CollectSelected(e, r) :
        v.site \in Chosen(e, r) /\ v.stamp = StampOf(v.site) /\ v.per # "visit"
  BY SelectedEvents
<1>4. \A v \in ReconstructProfileChains(e, r) :
        v.site \in Chosen(e, r) /\ v.stamp = StampOf(v.site)
  BY ChainEvents
<1>5. View(e, r) \subseteq CollectSelected(e, r) \cup ReconstructProfileChains(e, r)
  <2>1. CASE r.view = "default"
    <3>1. View(e, r) = EnrichedView(e, r)
      BY <2>1 DEF View
    <3> QED  BY <1>1, <1>2, <3>1 DEF EnrichedView
  <2>2. CASE r.view = "flat"
    BY <1>1, <2>2 DEF View
  <2>3. CASE r.view = "graph"
    <3>1. View(e, r) = GraphView(e, r)
      BY <2>3 DEF View
    <3> QED  BY <1>1, <1>3, <3>1 DEF GraphView
  <2> QED  BY <2>1, <2>2, <2>3 DEF Requests
<1> QED  BY <1>3, <1>4, <1>5

\* What a view must show of the history of a selected profile is in it.
LEMMA ScopedHistory ==
    ASSUME NEW e \in Evidence, NEW r \in Requests, IsActive(r), e.shape # "file",
           NEW s \in Chosen(e, r), e.stores[s] \in {"urls", "visits"}
    PROVE  LET shown == {v \in History(View(e, r)) : v.site = s}
           IN  /\ r.view # "default" => 0 \in {v.n : v \in shown}
               /\ r.view = "default" /\ FamilyOf[s] # "WebCache" =>
                     PlacesOf(e, s) \subseteq {v.n : v \in shown}
<1> DEFINE selected == CollectSelected(e, r)
           chains == ReconstructProfileChains(e, r)
           shown == {v \in History(View(e, r)) : v.site = s}
<1>1. CollectTimelineEvents(e, r) = selected
  BY DEF CollectTimelineEvents
<1>2. ReconstructTimelineChains(e, r) = chains
  BY DEF ReconstructTimelineChains
<1>3. PICK u \in selected : u.site = s /\ u.kind = "history" /\ u.n = 0
  BY SelectedHistory
<1>4. \A v \in selected : v.per # "visit"
  BY SelectedEvents
<1> HIDE DEF selected, chains
<1>5. CASE r.view # "default"
  <2>1. View(e, r) = selected
    <3>1. CASE r.view = "flat"
      BY <1>1, <3>1 DEF View
    <3>2. CASE r.view = "graph"
      <4>1. View(e, r) = GraphView(e, r)
        BY <3>2 DEF View
      <4> QED BY <1>1, <1>4, <4>1 DEF GraphView
    <3> QED BY <1>5, <3>1, <3>2 DEF Requests
  <2>2. u \in shown
    BY <1>3, <2>1 DEF History
  <2> QED BY <1>3, <1>5, <2>2
<1>6. CASE r.view = "default" /\ FamilyOf[s] # "WebCache"
  <2> SUFFICES ASSUME NEW n \in PlacesOf(e, s) PROVE \E v \in shown : v.n = n
    BY <1>6
  <2>1. View(e, r) = IF chains = {} THEN selected ELSE (selected \ History(selected)) \cup chains
    BY <1>1, <1>2, <1>6 DEF View, EnrichedView
  <2>2. /\ \A v \in chains : v.kind = "history"
        /\ chains # {} => \E v \in chains : v.site = s /\ v.n = n
        /\ chains = {} => e.stores[s] # "visits"
    BY <1>6, ChainEvents DEF chains
  <2>3. CASE chains = {}
    <3>1. n = 0
      BY <2>2, <2>3 DEF PlacesOf
    <3> QED BY <1>3, <2>1, <2>3, <3>1 DEF History
  <2>4. CASE chains # {}
    BY <2>1, <2>2, <2>4 DEF History
  <2> QED BY <2>3, <2>4
<1> QED BY <1>5, <1>6

\* Without a visit anywhere, no visit is merged.
LEMMA MergedOfNone ==
    ASSUME NEW e, NEW S, \A s \in S : e.stores[s] # "visits"
    PROVE  VisitEvents(MergedVisits(e, S)) = {}
<1> DEFINE visited == SetToSeq({s \in S : e.stores[s] = "visits"})
           of(k) == [n \in DOMAIN VisitsOf[visited[k]] |-> <<visited[k], n>>]
           flat == FlattenSeq([k \in DOMAIN visited |-> of(k)])
<1>1. {s \in S : e.stores[s] = "visits"} = {}
  OBVIOUS
<1>2. visited = <<>>
  BY <1>1, SetToSeqOfNone
<1>3. MergedVisits(e, S) = SortedByKey(flat, [n \in DOMAIN flat |-> VisitsIn(flat)[n].time])
  BY DEF MergedVisits
<1> HIDE DEF visited, of
<1>4. [k \in DOMAIN visited |-> of(k)] = <<>>
  BY <1>2
<1>5. flat = <<>>
  BY <1>4 DEF FlattenSeq
<1> HIDE DEF flat
<1>6. DOMAIN MergedVisits(e, S) = {}
  BY <1>3, <1>5 DEF SortedByKey
<1> QED  BY <1>6 DEF VisitEvents

\* What is collected without a selector where there are no visits.
LEMMA EverythingByUrl ==
    ASSUME NEW e, \A s \in ProfilesOf(e) : e.stores[s] # "visits"
    PROVE  /\ \A v \in CollectEverything(e) : v.kind = "history" => v.per = "url"
           /\ \A s \in ProfilesOf(e) : e.stores[s] = "urls" =>
                \E v \in CollectEverything(e) : v.site = s /\ v.kind = "history" /\ v.per = "url"
<1> DEFINE all == ProfilesOf(e)
           families == {FamilyOf[s] : s \in {t \in all : e.stores[t] = "visits"}}
           parsed == UNION {TriageProfile(e, s) : s \in all}
           downloads == UNION {Downloads(e, s) : s \in all}
<1>1. families = {}
  OBVIOUS
<1>2. CollectEverything(e) = {v \in parsed : v.kind # "history" \/ FamilyOf[v.site] \notin families}
                             \cup VisitEvents(MergedVisits(e, all)) \cup downloads
  BY DEF CollectEverything
<1>3. CollectEverything(e) = parsed \cup downloads
  BY <1>1, <1>2, MergedOfNone
<1>4. ASSUME NEW v \in parsed \cup downloads PROVE v.kind = "history" => v.per = "url"
  <2>1. PICK s \in all : v \in TriageProfile(e, s) \cup Downloads(e, s)
    OBVIOUS
  <2>2. v \in {Event(s, "history", "url", 0), Event(s, "other", "row", 0),
               Event(s, "download", "row", 0)}
    BY <2>1, ProfileEvents
  <2> QED  BY <2>2, EventFields
<1>5. ASSUME NEW s \in all, e.stores[s] = "urls"
      PROVE  \E v \in parsed : v.site = s /\ v.kind = "history" /\ v.per = "url"
  <2> DEFINE w == Event(s, "history", "url", 0)
  <2>1. w \in ParseHistory(e, s) /\ w.site = s /\ w.kind = "history" /\ w.per = "url"
    BY <1>5, EventFields DEF ParseHistory
  <2>2. w \in parsed
    BY <2>1 DEF TriageProfile
  <2> QED  BY <2>1, <2>2
<1> HIDE DEF parsed, downloads
<1> QED  BY <1>3, <1>4, <1>5

LEMMA CollectedReferrers ==
    ASSUME NEW e, NEW r, e.shape # "file"
    PROVE  \A v \in CollectTimelineEvents(e, r) : v.referrer = Anyone
<1>1. \A v \in CollectSelected(e, r) : v.referrer = Anyone
  BY SelectedEvents
<1>2. \A v \in CollectEverything(e) : v.referrer = Anyone
  <2> DEFINE all == ProfilesOf(e)
             merged == MergedVisits(e, all)
  <2>1. \A v \in CollectEverything(e) :
           \/ \E s \in all : v \in TriageProfile(e, s) \cup Downloads(e, s)
           \/ v \in VisitEvents(merged)
    BY DEF CollectEverything
  <2>2. \A v \in VisitEvents(merged) : v.referrer = Anyone
    BY EventFields DEF VisitEvents
  <2>3. \A s \in all : \A v \in TriageProfile(e, s) \cup Downloads(e, s) : v.referrer = Anyone
    <3> SUFFICES ASSUME NEW s \in all, NEW v \in TriageProfile(e, s) \cup Downloads(e, s)
                 PROVE  v.referrer = Anyone
      OBVIOUS
    <3>1. v \in {Event(s, "history", "url", 0), Event(s, "other", "row", 0),
                 Event(s, "download", "row", 0)}
      BY ProfileEvents
    <3> QED  BY <3>1, EventFields
  <2> QED  BY <2>1, <2>2, <2>3
<1> QED  BY <1>1, <1>2 DEF CollectTimelineEvents

\* The default view, site by site.
LEMMA DefaultView ==
    ASSUME NEW e \in Evidence, NEW r \in Requests, e.shape # "file"
    PROVE  /\ \A s \in Chosen(e, r) :
                (e.stores[s] \in {"urls", "visits"} /\ FamilyOf[s] # "WebCache") =>
                   {v.per : v \in {w \in History(EnrichedView(e, r)) : w.site = s}} =
                      {IF e.stores[s] = "visits" THEN "visit" ELSE "url"}
           /\ \A v \in EnrichedView(e, r) : v.referrer \in {Anyone, v.site}
<1> DEFINE mine == {s \in Chosen(e, r) : FamilyOf[s] # "WebCache"}
           events == CollectTimelineEvents(e, r)
           chains == ReconstructProfileChains(e, r)
           view == EnrichedView(e, r)
<1>1. view = IF chains = {} THEN events ELSE (events \ History(events)) \cup chains
  BY DEF EnrichedView, ReconstructTimelineChains
<1>2. /\ \A v \in chains :
           /\ v.site \in mine /\ v.kind = "history" /\ v.referrer \in {Anyone, v.site}
           /\ v.per = IF e.stores[v.site] = "visits" THEN "visit" ELSE "url"
      /\ chains # {} => \A s \in mine :
           e.stores[s] \in {"urls", "visits"} => \E v \in chains : v.site = s
      /\ chains = {} => \A s \in mine : e.stores[s] # "visits"
  BY ChainEvents
<1>3. \A v \in events : v.referrer = Anyone
  BY CollectedReferrers
<1> HIDE DEF chains, events, view
<1>4. ASSUME NEW s \in mine, e.stores[s] \in {"urls", "visits"}, chains # {}
      PROVE  {v.per : v \in {w \in History(view) : w.site = s}} =
                {IF e.stores[s] = "visits" THEN "visit" ELSE "url"}
  <2>1. \A w : w \in History(view) <=> w \in chains
    BY <1>1, <1>2, <1>4 DEF History
  <2>2. PICK v \in chains : v.site = s
    BY <1>2, <1>4
  <2> QED  BY <1>2, <2>1, <2>2
<1>5. ASSUME chains = {}
      PROVE  /\ \A v \in History(events) : v.per = "url"
             /\ \A s \in mine : e.stores[s] = "urls" =>
                  \E v \in History(events) : v.site = s /\ v.per = "url"
  <2>1. CASE IsActive(r)
    <3>1. events = CollectSelected(e, r)
      BY <2>1 DEF CollectTimelineEvents, events
    <3> QED  BY <3>1, SelectedEvents, SelectedHistory DEF History
  <2>2. CASE ~IsActive(r)
    <3>1. events = CollectEverything(e)
      BY <2>2 DEF CollectTimelineEvents, events
    <3>2. Chosen(e, r) = ProfilesOf(e)
      BY <2>2 DEF Chosen, IsActive
    <3>3. \A s \in ProfilesOf(e) : e.stores[s] # "visits"
      <4> SUFFICES ASSUME NEW s \in ProfilesOf(e), e.stores[s] = "visits" PROVE FALSE
        OBVIOUS
      <4>1. FamilyOf[s] # "WebCache"
        BY DEF Evidence, StoresOf, Linked, ProfilesOf
      <4> QED  BY <1>2, <1>5, <3>2, <4>1
    <3> QED  BY <3>1, <3>2, <3>3, EverythingByUrl DEF History
  <2> QED  BY <2>1, <2>2
<1>6. ASSUME NEW s \in mine, e.stores[s] \in {"urls", "visits"}, chains = {}
      PROVE  {v.per : v \in {w \in History(view) : w.site = s}} =
                {IF e.stores[s] = "visits" THEN "visit" ELSE "url"}
  <2>1. e.stores[s] = "urls" /\ view = events
    BY <1>1, <1>2, <1>6
  <2>2. PICK v \in History(events) : v.site = s /\ v.per = "url"
    BY <1>5, <1>6, <2>1
  <2> QED  BY <1>5, <1>6, <2>1, <2>2
<1>7. \A v \in view : v.referrer \in {Anyone, v.site}
  BY <1>1, <1>2, <1>3
<1> QED  BY <1>4, <1>6, <1>7 DEF view

-----------------------------------------------------------------------------

LEMMA TimelineShown == TimelineSpec => []TimelineInv
<1>1. TimelineInit => TimelineInv
  BY DEF TimelineInit, NoTimeline, TimelineInv
<1>2. TimelineInv /\ [RunTimeline]_timelineVars => TimelineInv'
  <2>1. CASE RunTimeline
    BY <2>1 DEF RunTimeline, TimelineInv
  <2>2. CASE UNCHANGED timelineVars
    BY <2>2 DEF timelineVars, TimelineInv
  <2> QED  BY <2>1, <2>2
<1> QED  BY <1>1, <1>2, PTL DEF TimelineSpec

\* Under a selector every view shows events of the selected profiles only, each with
\* the stamp of the profile it came from, and all the readable history of each of them
\* (cli.rs 2386-2430, 3860-3900, 4010-4014).
THEOREM ScopeCorrect == TimelineSpec => []ScopedTimelineIsScoped
<1>1. TimelineInv => ScopedTimelineIsScoped
  <2> SUFFICES ASSUME TimelineInv, timeline.status = "shown", IsActive(request),
                      evidence.shape # "file"
               PROVE  ScopedTimelineIsScoped
    BY DEF ScopedTimelineIsScoped
  <2>1. /\ evidence \in Evidence /\ request \in Requests
        /\ timeline.events = View(evidence, request)
    BY DEF TimelineInv
  <2>2. ASSUME NEW s \in Chosen(evidence, request), Readable(s)
        PROVE  ReadableHistoryOf(s) \subseteq {v.n : v \in ShownHistory(s)}
    <3> DEFINE numbers == {v.n : v \in {w \in History(View(evidence, request)) : w.site = s}}
    <3>1. /\ request.view # "default" => 0 \in numbers
          /\ request.view = "default" /\ FamilyOf[s] # "WebCache" =>
                PlacesOf(evidence, s) \subseteq numbers
      BY <2>1, <2>2, ScopedHistory DEF Readable
    <3>2. {v.n : v \in ShownHistory(s)} = numbers
      BY <2>1 DEF ShownHistory
    <3> HIDE DEF numbers
    <3>3. CASE request.view = "default" /\ FamilyOf[s] = "WebCache"
      BY <3>3 DEF ReadableHistoryOf
    <3>4. CASE request.view = "default" /\ FamilyOf[s] # "WebCache"
      <4>1. ReadableHistoryOf(s) = PlacesOf(evidence, s)
        BY <3>4 DEF ReadableHistoryOf, PlacesOf
      <4> QED BY <3>1, <3>2, <3>4, <4>1
    <3>5. CASE request.view # "default"
      <4>1. ReadableHistoryOf(s) = {0}
        BY <3>5 DEF ReadableHistoryOf
      <4> QED BY <3>1, <3>2, <3>5, <4>1
    <3> QED BY <3>3, <3>4, <3>5
  <2> QED BY <2>1, <2>2, ScopedView DEF ScopedTimelineIsScoped
<1> QED  BY <1>1, TimelineShown, PTL

\* The default view has the history of every selected profile that can be read once, by
\* visit where there are visits, and no chain crosses a profile (cli.rs 2386-2436).
THEOREM NavigationCorrect == TimelineSpec => []NavigableHistoryAppearsOnce
<1>1. TimelineInv => NavigableHistoryAppearsOnce
  <2> SUFFICES ASSUME TimelineInv, DefaultHome PROVE NavigableHistoryAppearsOnce
    BY DEF NavigableHistoryAppearsOnce
  <2>1. /\ evidence \in Evidence /\ request \in Requests /\ evidence.shape # "file"
        /\ timeline.events = EnrichedView(evidence, request)
    BY DEF TimelineInv, DefaultHome, View
  <2> QED  BY <2>1, DefaultView DEF NavigableHistoryAppearsOnce, Readable, ShownHistory
<1> QED  BY <1>1, TimelineShown, PTL

-----------------------------------------------------------------------------
(* What the detectors of history integrity count. *)

IsChromium == kind.family = "Chromium"
Counting(r) == {i \in VisitsTo(r) : visitRows[i].counts}

\* The shape of what every family has.
IntegrityShapes ==
    /\ kind \in [family : {"Chromium", "Firefox", "Safari"}, wal : BOOLEAN]
    /\ now \in Nat /\ mtime \in Nat
    /\ life = [visits |-> life.visits, honest |-> life.honest, wiped |-> life.wiped,
               cut |-> life.cut, fresh |-> life.fresh, expired |-> life.expired]
    /\ life.visits \in Nat /\ life.honest \in BOOLEAN /\ life.wiped \in BOOLEAN

\* An honest history: ids without a gap up to the last, times in their order, and in
\* the database file unless the visit is fresh; counts and last visits right.
HonestVisits ==
    /\ \A i \in DOMAIN visitRows :
          /\ i \in Nat /\ visitRows[i].time \in Nat /\ visitRows[i].time <= now
          /\ visitRows[i].time <= mtime \/ (kind.wal /\ i \in life.fresh)
    /\ \A i, j \in DOMAIN visitRows : i <= j => visitRows[i].time <= visitRows[j].time
    /\ \A i, j \in DOMAIN visitRows : \A k \in Nat : i <= k /\ k <= j => k \in DOMAIN visitRows
    /\ DOMAIN visitRows # {} =>
          \E m \in DOMAIN visitRows : \A j \in DOMAIN visitRows : j <= m
HonestMarks ==
    /\ tombs \subseteq life.expired
    /\ cookie \in [created : Nat, accessed : Nat]
    /\ cookie.created <= cookie.accessed /\ cookie.accessed <= now
LastIsKnown(r) ==
    \E i \in VisitsTo(r) :
        /\ visitRows[i].time = urlRows[r].last
        /\ \A j \in VisitsTo(r) : visitRows[j].time <= urlRows[r].last
HonestUrls ==
    /\ DOMAIN visitRows # {} => seqs.visits \in DOMAIN visitRows
    /\ life.expired = {} =>
          DOMAIN urlRows = 1..seqs.urls /\ (DOMAIN visitRows = {} => seqs.visits = 0)
    /\ \A r \in DOMAIN urlRows : LastIsKnown(r) /\ urlRows[r].count = Cardinality(Counting(r))
HonestSound == HonestVisits /\ HonestMarks /\ (IsChromium => HonestUrls)

\* Chromium's marks are above its ids; a count is at least that of the visits
\* that count, and above it of a row that lost one to another writer.
ChromiumIds ==
    /\ seqs \in [urls : Nat, visits : Nat]
    /\ DOMAIN visitRows \subseteq 1..seqs.visits
    /\ DOMAIN urlRows \subseteq 1..seqs.urls
    /\ \A i \in DOMAIN visitRows :
          visitRows[i].row \in DOMAIN urlRows /\ visitRows[i].counts \in BOOLEAN
ChromiumCounts ==
    /\ life.cut \subseteq DOMAIN urlRows
    /\ \A r \in DOMAIN urlRows :
          /\ urlRows[r] = [url |-> urlRows[r].url, count |-> urlRows[r].count,
                           last |-> urlRows[r].last]
          /\ urlRows[r].count \in Int
          /\ urlRows[r].count >= Cardinality(Counting(r))
          /\ r \in life.cut => urlRows[r].count > Cardinality(Counting(r))
ChromiumSound ==
    /\ ChromiumIds /\ ChromiumCounts
    /\ life.wiped => urlRows = NoRows /\ seqs.urls > 0

IntegrityInv ==
    /\ IntegrityShapes
    /\ life.honest => HonestSound
    /\ IsChromium => ChromiumSound

-----------------------------------------------------------------------------
(* What the definitions compute. *)

LEMMA TopIs ==
    ASSUME NEW S, S \subseteq Int, NEW m \in S, \A j \in S : j <= m
    PROVE  Top(S) = m
<1> DEFINE P(i) == i \in S /\ \A j \in S : j <= i
<1>1. P(m)
  OBVIOUS
<1>3. ASSUME NEW i, P(i) PROVE i = m
  <2>1. i \in Int /\ m \in Int /\ i <= m /\ m <= i
    BY <1>3
  <2> QED  BY <2>1
<1>2. (CHOOSE i \in S : \A j \in S : j <= i) = m
  BY <1>1, <1>3
<1> QED  BY <1>2 DEF Top

LEMMA TopOfTwo ==
    ASSUME NEW a \in Nat, NEW b \in Nat
    PROVE  Top({a, b}) = IF a <= b THEN b ELSE a
<1>1. CASE a <= b
  <2>1. \A j \in {a, b} : j <= b
    BY <1>1
  <2>2. {a, b} \subseteq Int /\ b \in {a, b}
    OBVIOUS
  <2> QED  BY <1>1, <2>1, <2>2, TopIs
<1>2. CASE ~(a <= b)
  <2>1. \A j \in {a, b} : j <= a
    BY <1>2
  <2>2. {a, b} \subseteq Int /\ a \in {a, b}
    OBVIOUS
  <2> QED  BY <1>2, <2>1, <2>2, TopIs
<1> QED  BY <1>1, <1>2

LEMMA TopUpTo ==
    ASSUME NEW n \in Nat
    PROVE  Top(1..n) = n
<1>1. CASE n = 0
  BY <1>1 DEF Top
<1>2. CASE n # 0
  <2>1. 1..n \subseteq Int /\ n \in 1..n /\ \A j \in 1..n : j <= n
    BY <1>2
  <2> QED  BY <2>1, TopIs
<1> QED  BY <1>1, <1>2

\* The row that a visit belongs to.
RowOf(u) ==
    LET known == {r \in DOMAIN urlRows : urlRows[r].url = u}
    IN  IF known = {} THEN NextUrl ELSE CHOOSE r \in known : TRUE
CountOf(u) ==
    IF {r \in DOMAIN urlRows : urlRows[r].url = u} = {} THEN 0 ELSE urlRows[RowOf(u)].count

LEMMA VisitIs ==
    ASSUME NEW u, NEW counts \in BOOLEAN, NEW at, VisitPage(u, counts, at)
    PROVE  /\ at \in now..MaxClock /\ now' = at
           /\ mtime' = (IF kind.wal THEN mtime ELSE at)
           /\ UNCHANGED <<kind, tombs, cookie>>
BY Zenon DEF VisitPage, WrittenAt

LEMMA MarksOfVisit ==
    ASSUME NEW u, NEW counts \in BOOLEAN, NEW at, VisitPage(u, counts, at)
    PROVE  seqs' = [urls |-> Top({RowOf(u), seqs.urls}), visits |-> Top({NextVisit, seqs.visits})]
BY Zenon DEF VisitPage, RowOf

LEMMA RowOfVisit ==
    ASSUME NEW u, NEW counts \in BOOLEAN, NEW at, VisitPage(u, counts, at)
    PROVE  /\ DOMAIN visitRows' = DOMAIN visitRows \cup {NextVisit}
           /\ visitRows'[NextVisit] = [row |-> RowOf(u), time |-> at, counts |-> counts]
           /\ \A i \in DOMAIN visitRows : i # NextVisit => visitRows'[i] = visitRows[i]
<1>1. visitRows' = [i \in DOMAIN visitRows \cup {NextVisit} |->
         IF i = NextVisit THEN [row |-> RowOf(u), time |-> at, counts |-> counts]
         ELSE visitRows[i]]
  BY Zenon DEF VisitPage, RowOf
<1> QED  BY <1>1, Zenon

LEMMA UrlOfVisit ==
    ASSUME NEW u, NEW counts \in BOOLEAN, NEW at, VisitPage(u, counts, at)
    PROVE  /\ DOMAIN urlRows' = DOMAIN urlRows \cup {RowOf(u)}
           /\ urlRows'[RowOf(u)] =
                 [url |-> u, count |-> CountOf(u) + (IF counts THEN 1 ELSE 0), last |-> at]
           /\ \A r \in DOMAIN urlRows : r # RowOf(u) => urlRows'[r] = urlRows[r]
<1>1. urlRows' = [r \in DOMAIN urlRows \cup {RowOf(u)} |->
         IF r = RowOf(u)
         THEN [url |-> u, count |-> CountOf(u) + (IF counts THEN 1 ELSE 0), last |-> at]
         ELSE urlRows[r]]
  BY Zenon DEF VisitPage, RowOf, CountOf
<1> QED  BY <1>1, Zenon

LEMMA LifeAfterVisit ==
    ASSUME IntegrityShapes, NEW u, NEW counts, NEW at, VisitPage(u, counts, at)
    PROVE  life' = [visits |-> life.visits + 1, honest |-> life.honest, wiped |-> FALSE,
                    cut |-> life.cut, fresh |-> StillInLog(life.fresh \cup {NextVisit}),
                    expired |-> life.expired]
<1>1. life' = [life EXCEPT !.visits = @ + 1, !.wiped = FALSE,
                           !.fresh = StillInLog(@ \cup {NextVisit})]
  BY Zenon DEF VisitPage
<1>2. life' = [[[life EXCEPT !.visits = @ + 1] EXCEPT !.wiped = FALSE]
                  EXCEPT !.fresh = StillInLog(@ \cup {NextVisit})]
  BY <1>1
<1> QED  BY <1>2 DEF IntegrityShapes

\* Which row that is, in Chromium's database.
LEMMA ChromiumRow ==
    ASSUME IsChromium, ChromiumIds, NEW u
    PROVE  \/ RowOf(u) \in DOMAIN urlRows /\ CountOf(u) = urlRows[RowOf(u)].count
           \/ RowOf(u) = seqs.urls + 1 /\ RowOf(u) \notin DOMAIN urlRows /\ CountOf(u) = 0
<1> DEFINE known == {r \in DOMAIN urlRows : urlRows[r].url = u}
<1>1. CASE known = {}
  <2>1. RowOf(u) = 1 + seqs.urls /\ CountOf(u) = 0
    BY <1>1 DEF RowOf, CountOf, NextUrl, IsChromium
  <2>2. seqs.urls \in Nat /\ seqs.urls + 1 \notin 1..seqs.urls
    BY DEF ChromiumIds
  <2> QED  BY <2>1, <2>2 DEF ChromiumIds
<1>2. CASE known # {}
  <2>1. RowOf(u) \in known
    BY <1>2 DEF RowOf
  <2>2. CountOf(u) = urlRows[RowOf(u)].count
    BY <1>2 DEF CountOf
  <2> QED  BY <2>1, <2>2
<1> QED  BY <1>1, <1>2

LEMMA FiniteVisits ==
    ASSUME ChromiumIds, NEW r
    PROVE  /\ IsFiniteSet(VisitsTo(r)) /\ Cardinality(VisitsTo(r)) \in Nat
           /\ IsFiniteSet(Counting(r)) /\ Cardinality(Counting(r)) \in Nat
           /\ Cardinality(Counting(r)) <= Cardinality(VisitsTo(r))
           /\ (\A i \in VisitsTo(r) : visitRows[i].counts) => Counting(r) = VisitsTo(r)
<1>1. IsFiniteSet(1..seqs.visits)
  <2>1. seqs.visits \in Nat
    BY DEF ChromiumIds
  <2> QED  BY <2>1, FS_Interval
<1>2. VisitsTo(r) \subseteq 1..seqs.visits /\ Counting(r) \subseteq VisitsTo(r)
  BY DEF ChromiumIds, VisitsTo, Counting
<1>3. IsFiniteSet(VisitsTo(r))
  BY <1>1, <1>2, FS_Subset
<1>4. IsFiniteSet(Counting(r)) /\ Cardinality(Counting(r)) <= Cardinality(VisitsTo(r))
  BY <1>2, <1>3, FS_Subset
<1> QED  BY <1>3, <1>4, FS_CardinalityType DEF Counting

-----------------------------------------------------------------------------
(* A visit. *)

\* What a visit adds to the visits of a row.
LEMMA VisitAdds ==
    ASSUME NEW u, NEW counts \in BOOLEAN, NEW at, VisitPage(u, counts, at),
           NextVisit \notin DOMAIN visitRows, NEW r
    PROVE  /\ VisitsTo(r)' = IF r = RowOf(u) THEN VisitsTo(r) \cup {NextVisit} ELSE VisitsTo(r)
           /\ Counting(r)' = IF r = RowOf(u) /\ counts THEN Counting(r) \cup {NextVisit}
                             ELSE Counting(r)
           /\ \A i \in VisitsTo(r) : visitRows'[i] = visitRows[i]
<1> DEFINE id == NextVisit
           row == RowOf(u)
<1>1. DOMAIN visitRows' = DOMAIN visitRows \cup {id}
  BY RowOfVisit
<1>2. visitRows'[id] = [row |-> row, time |-> at, counts |-> counts]
  BY RowOfVisit
<1>3. \A i \in DOMAIN visitRows : visitRows'[i] = visitRows[i]
  BY RowOfVisit
<1> HIDE DEF id, row
<1>4. VisitsTo(r)' = {i \in DOMAIN visitRows \cup {id} : visitRows'[i].row = r}
  BY <1>1 DEF VisitsTo
<1>5. VisitsTo(r)' = IF r = row THEN VisitsTo(r) \cup {id} ELSE VisitsTo(r)
  BY <1>2, <1>3, <1>4 DEF VisitsTo
<1>6. visitRows'[id].counts = counts
  BY <1>2
<1>7. \A i \in VisitsTo(r) : i \in DOMAIN visitRows /\ i # id
  BY DEF VisitsTo, id
<1>8. Counting(r)' = {i \in VisitsTo(r)' : visitRows'[i].counts}
  BY DEF Counting
<1>9. Counting(r)' = IF r = row /\ counts THEN Counting(r) \cup {id} ELSE Counting(r)
  BY <1>3, <1>5, <1>6, <1>7, <1>8 DEF Counting
<1> QED  BY <1>3, <1>5, <1>7, <1>9 DEF id, row

\* The count of a row keeps pace with its visits.
LEMMA CountAfterVisit ==
    ASSUME IsChromium, ChromiumSound, NEW u, NEW counts \in BOOLEAN, NEW at,
           VisitPage(u, counts, at), NextVisit \notin DOMAIN visitRows, NEW r \in DOMAIN urlRows'
    PROVE  LET one == IF r = RowOf(u) /\ counts THEN 1 ELSE 0
               before == IF r \in DOMAIN urlRows THEN urlRows[r].count ELSE 0
           IN  /\ urlRows'[r].count = before + one
               /\ Cardinality(Counting(r)') = Cardinality(Counting(r)) + one
               /\ Cardinality(Counting(r)) \in Nat
               /\ r \notin DOMAIN urlRows => Cardinality(Counting(r)) = 0
<1> DEFINE id == NextVisit
           row == RowOf(u)
<1>1. \/ row \in DOMAIN urlRows /\ CountOf(u) = urlRows[row].count
      \/ row \notin DOMAIN urlRows /\ CountOf(u) = 0
  BY ChromiumRow DEF ChromiumSound
<1>2. /\ DOMAIN urlRows' = DOMAIN urlRows \cup {row}
      /\ \A k \in DOMAIN urlRows : k # row => urlRows'[k] = urlRows[k]
      /\ urlRows'[row] = [url |-> u, count |-> CountOf(u) + (IF counts THEN 1 ELSE 0), last |-> at]
  BY UrlOfVisit
<1>3. IsFiniteSet(Counting(r)) /\ Cardinality(Counting(r)) \in Nat
  BY FiniteVisits DEF ChromiumSound
<1>4. id \notin Counting(r)
  BY DEF Counting, VisitsTo
<1>5. Counting(r)' = IF r = row /\ counts THEN Counting(r) \cup {id} ELSE Counting(r)
  BY VisitAdds
<1>6. r \notin DOMAIN urlRows => Cardinality(Counting(r)) = 0
  <2>1. r \notin DOMAIN urlRows => Counting(r) = {}
    BY DEF VisitsTo, Counting, ChromiumSound, ChromiumIds
  <2> QED  BY <2>1, FS_EmptySet
<1> HIDE DEF id, row
<1>7. Cardinality(Counting(r) \cup {id}) = Cardinality(Counting(r)) + 1
  BY <1>3, <1>4, FS_AddElement
<1>8. Cardinality(Counting(r)') = Cardinality(Counting(r)) + (IF r = row /\ counts THEN 1 ELSE 0)
  BY <1>3, <1>5, <1>7
<1>9. \A k \in DOMAIN urlRows : urlRows[k].count \in Int
  BY DEF ChromiumSound, ChromiumCounts
<1>10. urlRows'[r].count = (IF r \in DOMAIN urlRows THEN urlRows[r].count ELSE 0)
                          + (IF r = row /\ counts THEN 1 ELSE 0)
  BY <1>1, <1>2, <1>9
<1> QED  BY <1>3, <1>6, <1>8, <1>10 DEF row

LEMMA ChromiumVisit ==
    ASSUME IsChromium, ChromiumSound, NEW u, NEW counts \in BOOLEAN, NEW at,
           VisitPage(u, counts, at), IntegrityShapes
    PROVE  /\ ChromiumSound'
           /\ seqs'.visits = seqs.visits + 1 /\ NextVisit = seqs.visits + 1
           /\ NextVisit \notin DOMAIN visitRows
           /\ DOMAIN urlRows' = DOMAIN urlRows \cup {RowOf(u)}
           /\ seqs'.urls = (IF RowOf(u) \in DOMAIN urlRows THEN seqs.urls ELSE seqs.urls + 1)
           /\ RowOf(u) \notin DOMAIN urlRows => RowOf(u) = seqs.urls + 1
<1> DEFINE id == NextVisit
           row == RowOf(u)
<1>0. seqs' = [urls |-> Top({row, seqs.urls}), visits |-> Top({id, seqs.visits})]
  BY MarksOfVisit
<1>1. seqs.urls \in Nat /\ seqs.visits \in Nat
  BY DEF ChromiumSound, ChromiumIds
<1>2. id = seqs.visits + 1 /\ id \notin DOMAIN visitRows
  BY <1>1 DEF NextVisit, IsChromium, ChromiumSound, ChromiumIds
<1>3. \/ row \in DOMAIN urlRows /\ CountOf(u) = urlRows[row].count
      \/ row = seqs.urls + 1 /\ row \notin DOMAIN urlRows /\ CountOf(u) = 0
  BY ChromiumRow DEF ChromiumSound
<1>4. seqs'.visits = seqs.visits + 1
  <2>1. seqs'.visits = Top({id, seqs.visits})
    BY <1>0
  <2> QED  BY <1>1, <1>2, <2>1, TopOfTwo
<1>5. seqs'.urls = (IF row \in DOMAIN urlRows THEN seqs.urls ELSE seqs.urls + 1)
  <2>1. seqs'.urls = Top({row, seqs.urls})
    BY <1>0
  <2>2. row \in DOMAIN urlRows => row \in Nat /\ row <= seqs.urls
    BY DEF ChromiumSound, ChromiumIds
  <2>3. row \in Nat
    BY <1>1, <1>3, <2>2
  <2> HIDE DEF row
  <2> QED  BY <1>1, <1>3, <2>1, <2>2, <2>3, TopOfTwo
<1>6. seqs' \in [urls : Nat, visits : Nat]
  <2>1. seqs' = [urls |-> seqs'.urls, visits |-> seqs'.visits]
    BY <1>0
  <2> QED  BY <1>1, <1>4, <1>5, <2>1
<1>7. /\ DOMAIN visitRows' = DOMAIN visitRows \cup {id} /\ DOMAIN urlRows' = DOMAIN urlRows \cup {row}
      /\ visitRows'[id] = [row |-> row, time |-> at, counts |-> counts]
      /\ \A i \in DOMAIN visitRows : i # id /\ visitRows'[i] = visitRows[i]
      /\ \A r \in DOMAIN urlRows : r # row => urlRows'[r] = urlRows[r]
      /\ urlRows'[row] = [url |-> u, count |-> CountOf(u) + (IF counts THEN 1 ELSE 0), last |-> at]
  <2>1. /\ DOMAIN visitRows' = DOMAIN visitRows \cup {id}
        /\ visitRows'[id] = [row |-> row, time |-> at, counts |-> counts]
        /\ \A i \in DOMAIN visitRows : i # id => visitRows'[i] = visitRows[i]
    BY RowOfVisit
  <2>2. /\ DOMAIN urlRows' = DOMAIN urlRows \cup {row}
        /\ \A r \in DOMAIN urlRows : r # row => urlRows'[r] = urlRows[r]
        /\ urlRows'[row] = [url |-> u, count |-> CountOf(u) + (IF counts THEN 1 ELSE 0), last |-> at]
    BY UrlOfVisit
  <2> QED  BY <1>2, <2>1, <2>2
<1>8. life'.cut = life.cut /\ life'.wiped = FALSE
  BY LifeAfterVisit
<1> HIDE DEF id, row
<1>9. ChromiumIds'
  <2>1. DOMAIN visitRows' \subseteq 1..seqs'.visits
    BY <1>1, <1>2, <1>4, <1>7 DEF ChromiumSound, ChromiumIds
  <2>2. DOMAIN urlRows' \subseteq 1..seqs'.urls
    BY <1>1, <1>3, <1>5, <1>7 DEF ChromiumSound, ChromiumIds
  <2>3. \A i \in DOMAIN visitRows' :
           visitRows'[i].row \in DOMAIN urlRows' /\ visitRows'[i].counts \in BOOLEAN
    BY <1>7 DEF ChromiumSound, ChromiumIds
  <2> QED  BY <1>6, <2>1, <2>2, <2>3 DEF ChromiumIds
<1>10. ASSUME NEW r \in DOMAIN urlRows'
       PROVE  /\ urlRows'[r] = [url |-> urlRows'[r].url, count |-> urlRows'[r].count,
                                last |-> urlRows'[r].last]
              /\ urlRows'[r].count \in Int
              /\ urlRows'[r].count >= Cardinality(Counting(r)')
              /\ r \in life'.cut => urlRows'[r].count > Cardinality(Counting(r)')
  <2> DEFINE one == IF r = row /\ counts THEN 1 ELSE 0
             before == IF r \in DOMAIN urlRows THEN urlRows[r].count ELSE 0
  <2>1. /\ urlRows'[r].count = before + one
        /\ Cardinality(Counting(r)') = Cardinality(Counting(r)) + one
        /\ Cardinality(Counting(r)) \in Nat
        /\ r \notin DOMAIN urlRows => Cardinality(Counting(r)) = 0
    BY <1>2, CountAfterVisit DEF id, row
  <2>2. r \in DOMAIN urlRows =>
           /\ before \in Int /\ before >= Cardinality(Counting(r))
           /\ r \in life'.cut => before > Cardinality(Counting(r))
    BY <1>8 DEF ChromiumSound, ChromiumCounts
  <2>3. r \notin DOMAIN urlRows => r \notin life'.cut /\ before = 0
    BY <1>8 DEF ChromiumSound, ChromiumCounts
  <2>4. one \in {0, 1}
    OBVIOUS
  <2> HIDE DEF one, before
  <2>5. /\ urlRows'[r].count \in Int /\ urlRows'[r].count >= Cardinality(Counting(r)')
        /\ r \in life'.cut => urlRows'[r].count > Cardinality(Counting(r)')
    BY <2>1, <2>2, <2>3, <2>4
  <2>6. urlRows'[r] = [url |-> urlRows'[r].url, count |-> urlRows'[r].count,
                       last |-> urlRows'[r].last]
    BY <1>7 DEF ChromiumSound, ChromiumCounts
  <2> QED  BY <2>5, <2>6
<1>11. life'.cut \subseteq DOMAIN urlRows'
  BY <1>7, <1>8 DEF ChromiumSound, ChromiumCounts
<1>12. ChromiumSound'
  BY <1>8, <1>9, <1>10, <1>11 DEF ChromiumSound, ChromiumCounts
<1> QED  BY <1>2, <1>3, <1>4, <1>5, <1>7, <1>12 DEF id, row

\* The id of the next visit follows the last.
LEMMA NextIsAbove ==
    ASSUME IntegrityInv, life.honest
    PROVE  /\ NextVisit \in Nat /\ \A j \in DOMAIN visitRows : j < NextVisit
           /\ DOMAIN visitRows # {} => NextVisit - 1 \in DOMAIN visitRows
<1>1. HonestVisits /\ (IsChromium => HonestUrls /\ ChromiumIds)
  BY DEF IntegrityInv, HonestSound, ChromiumSound
<1>2. CASE IsChromium
  <2>1. NextVisit = 1 + seqs.visits /\ seqs.visits \in Nat
    BY <1>1, <1>2 DEF NextVisit, IsChromium, ChromiumIds
  <2>2. DOMAIN visitRows \subseteq 1..seqs.visits
    BY <1>1, <1>2 DEF ChromiumIds
  <2>3. DOMAIN visitRows # {} => seqs.visits \in DOMAIN visitRows
    BY <1>1, <1>2 DEF HonestUrls
  <2> QED  BY <2>1, <2>2, <2>3
<1>3. CASE ~IsChromium
  <2>1. NextVisit = 1 + Top(DOMAIN visitRows)
    BY <1>3 DEF NextVisit, IsChromium
  <2>2. CASE DOMAIN visitRows = {}
    BY <2>1, <2>2 DEF Top
  <2>3. CASE DOMAIN visitRows # {}
    <3>1. PICK m \in DOMAIN visitRows : \A j \in DOMAIN visitRows : j <= m
      BY <1>1, <2>3 DEF HonestVisits
    <3>2. \A j \in DOMAIN visitRows : j \in Nat
      BY <1>1 DEF HonestVisits
    <3>3. DOMAIN visitRows \subseteq Int
      BY <3>2
    <3>4. Top(DOMAIN visitRows) = m
      BY <3>1, <3>3, TopIs
    <3> QED  BY <2>1, <3>1, <3>2, <3>4
  <2> QED  BY <2>2, <2>3
<1> QED  BY <1>2, <1>3

\* An honest visit.
LEMMA HonestVisit ==
    ASSUME IntegrityInv, life.honest, NEW u, NEW counts \in BOOLEAN, NEW at,
           VisitPage(u, counts, at)
    PROVE  HonestSound'
<1> DEFINE id == NextVisit
           row == RowOf(u)
<1>1. HonestVisits /\ HonestMarks /\ (IsChromium => HonestUrls /\ ChromiumSound)
  BY DEF IntegrityInv, HonestSound
<1>2. life.visits \in Nat /\ now \in Nat /\ at \in Int /\ at >= now /\ MaxClock \in Int
      /\ mtime \in Nat /\ kind.wal \in BOOLEAN
  BY VisitIs, IntegrityAssumption DEF IntegrityInv, IntegrityShapes
<1>3. /\ id \in Nat /\ \A j \in DOMAIN visitRows : j < id
      /\ DOMAIN visitRows # {} => id - 1 \in DOMAIN visitRows
  BY NextIsAbove
<1>4. /\ DOMAIN visitRows' = DOMAIN visitRows \cup {id}
      /\ visitRows'[id] = [row |-> row, time |-> at, counts |-> counts]
      /\ \A i \in DOMAIN visitRows : i # id /\ visitRows'[i] = visitRows[i]
      /\ id \notin DOMAIN visitRows
  <2>1. /\ DOMAIN visitRows' = DOMAIN visitRows \cup {id}
        /\ visitRows'[id] = [row |-> row, time |-> at, counts |-> counts]
        /\ \A i \in DOMAIN visitRows : i # id => visitRows'[i] = visitRows[i]
    BY RowOfVisit
  <2>2. \A i \in DOMAIN visitRows : i \in Nat
    BY <1>1 DEF HonestVisits
  <2> HIDE DEF id, row
  <2>3. id \notin DOMAIN visitRows
    BY <1>3, <2>2
  <2> QED  BY <2>1, <2>3
<1>5. /\ now' = at /\ mtime' = (IF kind.wal THEN mtime ELSE at)
      /\ UNCHANGED <<kind, tombs, cookie>>
  BY VisitIs
<1>6. life'.fresh = StillInLog(life.fresh \cup {id}) /\ life'.expired = life.expired
  BY LifeAfterVisit DEF IntegrityInv
<1>7. HonestVisits'
  <2>1. \A i \in DOMAIN visitRows' : i = id \/ i \in DOMAIN visitRows
    BY <1>4
  <2>2. \A i \in DOMAIN visitRows :
           /\ i \in Nat /\ visitRows[i].time \in Nat /\ visitRows[i].time <= now
           /\ visitRows[i].time <= mtime \/ (kind.wal /\ i \in life.fresh)
    BY <1>1 DEF HonestVisits
  <2>3. visitRows'[id].time = at
    BY <1>4
  <2> HIDE DEF id, row
  <2>4. \A i \in DOMAIN visitRows' :
           i \in Nat /\ visitRows'[i].time \in Nat /\ visitRows'[i].time <= at
    BY <1>2, <1>3, <1>4, <2>1, <2>2, <2>3
  <2>5. ASSUME NEW i \in DOMAIN visitRows', NEW j \in DOMAIN visitRows', i <= j
        PROVE  visitRows'[i].time <= visitRows'[j].time
    <3>1. CASE j = id
      BY <2>3, <2>4, <3>1
    <3>2. CASE j # id
      <4>1. j \in DOMAIN visitRows /\ i \in DOMAIN visitRows
        BY <1>3, <2>1, <2>2, <2>5, <3>2
      <4> QED  BY <1>1, <1>4, <2>5, <4>1 DEF HonestVisits
    <3> QED  BY <3>1, <3>2
  <2>6. ASSUME NEW i \in DOMAIN visitRows'
        PROVE  visitRows'[i].time <= mtime' \/ (kind'.wal /\ i \in life'.fresh)
    <3>1. CASE kind.wal
      <4>1. life'.fresh = life.fresh \cup {id} /\ mtime' = mtime
        BY <1>5, <1>6, <3>1 DEF StillInLog
      <4> QED  BY <1>4, <1>5, <2>1, <2>2, <3>1, <4>1
    <3>2. CASE ~kind.wal
      BY <1>5, <2>4, <3>2
    <3> QED  BY <3>1, <3>2
  <2>7. ASSUME NEW i \in DOMAIN visitRows', NEW j \in DOMAIN visitRows', NEW k \in Nat,
               i <= k, k <= j
        PROVE  k \in DOMAIN visitRows'
    <3>1. CASE k = id
      BY <1>4, <3>1
    <3>2. CASE k # id
      <4>1. i \in DOMAIN visitRows
        BY <1>3, <2>1, <2>2, <2>4, <2>7, <3>2
      <4>2. j \in DOMAIN visitRows => k \in DOMAIN visitRows
        BY <1>1, <2>7, <4>1 DEF HonestVisits
      <4>3. j = id => k <= id - 1 /\ id - 1 \in DOMAIN visitRows
        BY <1>3, <2>7, <3>2, <4>1
      <4>4. j = id => k \in DOMAIN visitRows
        BY <1>1, <2>7, <4>1, <4>3 DEF HonestVisits
      <4> QED  BY <1>4, <2>1, <4>2, <4>4
    <3> QED  BY <3>1, <3>2
  <2>8. \E m \in DOMAIN visitRows' : \A j \in DOMAIN visitRows' : j <= m
    BY <1>3, <1>4, <2>1, <2>2
  <2> QED  BY <1>5, <2>4, <2>5, <2>6, <2>7, <2>8 DEF HonestVisits
<1>8. HonestMarks'
  BY <1>1, <1>2, <1>5, <1>6 DEF HonestMarks
<1>10. /\ DOMAIN urlRows' = DOMAIN urlRows \cup {row}
       /\ \A r \in DOMAIN urlRows : r # row => urlRows'[r] = urlRows[r]
       /\ urlRows'[row] =
             [url |-> u, count |-> CountOf(u) + (IF counts THEN 1 ELSE 0), last |-> at]
  BY UrlOfVisit
<1>9. ASSUME IsChromium PROVE HonestUrls'
  <2>1. /\ seqs'.visits = seqs.visits + 1
        /\ DOMAIN urlRows' = DOMAIN urlRows \cup {row}
        /\ seqs'.urls = (IF row \in DOMAIN urlRows THEN seqs.urls ELSE seqs.urls + 1)
        /\ row \notin DOMAIN urlRows => row = seqs.urls + 1
    BY <1>1, <1>9, ChromiumVisit DEF IntegrityInv
  <2>2. seqs.urls \in Nat /\ (life.expired = {} => DOMAIN urlRows = 1..seqs.urls)
    BY <1>1, <1>9 DEF HonestUrls, ChromiumSound, ChromiumIds
  <2>3. life'.expired = {} => DOMAIN urlRows' = 1..seqs'.urls
    <3> HIDE DEF row
    <3> QED  BY <1>6, <2>1, <2>2
  <2>4. seqs'.visits \in DOMAIN visitRows'
    BY <1>1, <1>4, <1>9, <2>1 DEF NextVisit, IsChromium, ChromiumSound, ChromiumIds
  <2>5. ASSUME NEW r \in DOMAIN urlRows' PROVE LastIsKnown(r)'
    <3>1. VisitsTo(r)' = IF r = row THEN VisitsTo(r) \cup {id} ELSE VisitsTo(r)
      BY <1>4, VisitAdds
    <3>2. \A i \in VisitsTo(r) : i \in DOMAIN visitRows /\ visitRows'[i] = visitRows[i]
      BY <1>4 DEF VisitsTo
    <3>3. CASE r = row
      <4>1. urlRows'[row] =
               [url |-> u, count |-> CountOf(u) + (IF counts THEN 1 ELSE 0), last |-> at]
        BY UrlOfVisit
      <4>2. urlRows'[r].last = at
        BY <3>3, <4>1
      <4>3. \A j \in VisitsTo(r)' : visitRows'[j].time <= at
        BY <1>4, <1>5, <1>7 DEF HonestVisits, VisitsTo
      <4>4. id \in VisitsTo(r)' /\ visitRows'[id].time = at
        BY <1>4, <3>1, <3>3
      <4> HIDE DEF id, row
      <4> QED  BY <4>2, <4>3, <4>4 DEF LastIsKnown
    <3>4. CASE r # row
      <4>1. r \in DOMAIN urlRows /\ VisitsTo(r)' = VisitsTo(r)
        BY <2>1, <3>1, <3>4
      <4>2. urlRows'[r] = urlRows[r]
        BY <1>10, <3>4, <4>1
      <4>3. LastIsKnown(r)
        BY <1>1, <1>9, <4>1 DEF HonestUrls
      <4> HIDE DEF id, row
      <4> QED  BY <3>2, <4>1, <4>2, <4>3 DEF LastIsKnown
    <3> QED  BY <3>3, <3>4
  <2>6. ASSUME NEW r \in DOMAIN urlRows'
        PROVE  urlRows'[r].count = Cardinality(Counting(r)')
    <3> DEFINE one == IF r = row /\ counts THEN 1 ELSE 0
               before == IF r \in DOMAIN urlRows THEN urlRows[r].count ELSE 0
    <3>1. /\ urlRows'[r].count = before + one
          /\ Cardinality(Counting(r)') = Cardinality(Counting(r)) + one
          /\ r \notin DOMAIN urlRows => Cardinality(Counting(r)) = 0
      BY <1>1, <1>4, <1>9, CountAfterVisit
    <3>2. before = Cardinality(Counting(r))
      BY <1>1, <1>9, <3>1 DEF HonestUrls
    <3> QED  BY <3>1, <3>2
  <2> QED  BY <2>3, <2>4, <2>5, <2>6 DEF HonestUrls
<1> QED  BY <1>5, <1>7, <1>8, <1>9 DEF HonestSound, IsChromium

-----------------------------------------------------------------------------
(* Deletions. *)

\* What is left of the visits of a row.
LEMMA VisitsLeft ==
    ASSUME NEW S, visitRows' = Without(visitRows, S), NEW r
    PROVE  /\ VisitsTo(r)' = VisitsTo(r) \ S /\ Counting(r)' = Counting(r) \ S
           /\ DOMAIN visitRows' = DOMAIN visitRows \ S
           /\ \A i \in DOMAIN visitRows' : visitRows'[i] = visitRows[i]
<1>1. visitRows' = [i \in DOMAIN visitRows \ S |-> visitRows[i]]
  BY DEF Without
<1>2. DOMAIN visitRows' = DOMAIN visitRows \ S /\ \A i \in DOMAIN visitRows' : visitRows'[i] = visitRows[i]
  BY <1>1
<1>3. VisitsTo(r)' = VisitsTo(r) \ S
  BY <1>2 DEF VisitsTo
<1>4. \A i \in VisitsTo(r)' : visitRows'[i] = visitRows[i]
  BY <1>2 DEF VisitsTo
<1>5. Counting(r)' = Counting(r) \ S
  BY <1>3, <1>4 DEF Counting
<1> QED  BY <1>2, <1>3, <1>5

LEMMA LifeAfterDelete ==
    ASSUME IntegrityShapes, NEW S, DeleteVisits(S)
    PROVE  life' = [visits |-> life.visits, honest |-> FALSE,
                    wiped |-> (DOMAIN urlRows = Gone(S)), cut |-> life.cut \ Gone(S),
                    fresh |-> StillInLog(life.fresh), expired |-> life.expired]
<1>1. life' = [life EXCEPT !.honest = FALSE, !.wiped = (DOMAIN urlRows = Gone(S)),
                           !.cut = @ \ Gone(S), !.fresh = StillInLog(@)]
  BY Zenon DEF DeleteVisits
<1>2. life' = [[[[life EXCEPT !.honest = FALSE] EXCEPT !.wiped = (DOMAIN urlRows = Gone(S))]
                  EXCEPT !.cut = @ \ Gone(S)] EXCEPT !.fresh = StillInLog(@)]
  BY <1>1
<1> QED  BY <1>2 DEF IntegrityShapes

\* The visits that are too old, and the URLs of rows that lose their last.
TooOld(before) == {i \in DOMAIN visitRows : visitRows[i].time < before}
UrlsOf(rows) == {urlRows[r].url : r \in rows}

LEMMA ExpiryIs ==
    ASSUME NEW before, ExpireVisits(before)
    PROVE  /\ RemoveVisits(TooOld(before))
           /\ tombs' \subseteq tombs \cup UrlsOf(Gone(TooOld(before)))
           /\ life' = [life EXCEPT !.wiped = (DOMAIN urlRows = Gone(TooOld(before))),
                                   !.cut = @ \ Gone(TooOld(before)), !.fresh = StillInLog(@),
                                   !.expired = @ \cup UrlsOf(Gone(TooOld(before)))]
BY Zenon DEF ExpireVisits, TooOld, UrlsOf

LEMMA LifeAfterExpiry ==
    ASSUME IntegrityShapes, NEW before, ExpireVisits(before)
    PROVE  life' = [visits |-> life.visits, honest |-> life.honest,
                    wiped |-> (DOMAIN urlRows = Gone(TooOld(before))),
                    cut |-> life.cut \ Gone(TooOld(before)), fresh |-> StillInLog(life.fresh),
                    expired |-> life.expired \cup UrlsOf(Gone(TooOld(before)))]
<1> DEFINE gone == Gone(TooOld(before))
<1>1. life' = [life EXCEPT !.wiped = (DOMAIN urlRows = gone), !.cut = @ \ gone,
                           !.fresh = StillInLog(@), !.expired = @ \cup UrlsOf(gone)]
  BY ExpiryIs
<1> HIDE DEF gone
<1>2. life' = [[[[life EXCEPT !.wiped = (DOMAIN urlRows = gone)] EXCEPT !.cut = @ \ gone]
                  EXCEPT !.fresh = StillInLog(@)] EXCEPT !.expired = @ \cup UrlsOf(gone)]
  BY <1>1
<1> QED  BY <1>2 DEF IntegrityShapes, gone

LEMMA RemovalIs ==
    ASSUME NEW S, RemoveVisits(S)
    PROVE  /\ S # {} /\ visitRows' = Without(visitRows, S)
           /\ mtime' = (IF kind.wal THEN mtime ELSE now)
           /\ UNCHANGED <<kind, seqs, cookie, now>>
<1>1. /\ S # {} /\ visitRows' = Without(visitRows, S)
      /\ WrittenAt(now)
      /\ UNCHANGED <<kind, seqs, cookie, now>>
  BY Zenon DEF RemoveVisits
<1> QED  BY <1>1 DEF WrittenAt

LEMMA UrlsAfterDelete ==
    ASSUME ChromiumSound, NEW S, RemoveVisits(S)
    PROVE  /\ DOMAIN urlRows' = DOMAIN urlRows \ Gone(S)
           /\ urlRows' = [r \in DOMAIN urlRows' |-> urlRows'[r]]
           /\ \A r \in DOMAIN urlRows' :
                 /\ urlRows'[r] = [url |-> urlRows'[r].url, count |-> urlRows'[r].count,
                                   last |-> urlRows'[r].last]
                 /\ urlRows'[r].count = IF r \in {visitRows[i].row : i \in S}
                       THEN urlRows[r].count - Cardinality(Counting(r) \cap S)
                       ELSE urlRows[r].count
                 /\ urlRows'[r].last = IF r \in {visitRows[i].row : i \in S}
                       THEN Top({visitRows[i].time : i \in VisitsTo(r) \ S})
                       ELSE urlRows[r].last
<1> DEFINE Counted(r) == {i \in VisitsTo(r) \cap S : visitRows[i].counts}
           Late(r) == Top({visitRows[i].time : i \in VisitsTo(r) \ S})
           hit == {visitRows[i].row : i \in S}
<1>1. urlRows' = [r \in DOMAIN urlRows \ Gone(S) |->
         IF r \notin hit THEN urlRows[r]
         ELSE [urlRows[r] EXCEPT !.count = @ - Cardinality(Counted(r)), !.last = Late(r)]]
  BY Zenon DEF RemoveVisits
<1>2. DOMAIN urlRows' = DOMAIN urlRows \ Gone(S) /\ urlRows' = [r \in DOMAIN urlRows' |-> urlRows'[r]]
  BY <1>1, Zenon
<1>3. ASSUME NEW r \in DOMAIN urlRows'
      PROVE  /\ urlRows'[r] = [url |-> urlRows'[r].url, count |-> urlRows'[r].count,
                               last |-> urlRows'[r].last]
             /\ urlRows'[r].count = IF r \in hit
                   THEN urlRows[r].count - Cardinality(Counting(r) \cap S)
                   ELSE urlRows[r].count
             /\ urlRows'[r].last = IF r \in hit THEN Late(r) ELSE urlRows[r].last
  <2>1. urlRows[r] = [url |-> urlRows[r].url, count |-> urlRows[r].count, last |-> urlRows[r].last]
    BY <1>2 DEF ChromiumSound, ChromiumCounts
  <2>2. CASE r \notin hit
    <3>1. urlRows'[r] = urlRows[r]
      BY <1>1, <1>2, <2>2, Zenon
    <3> QED  BY <2>1, <2>2, <3>1
  <2>3. CASE r \in hit
    <3>1. urlRows'[r] = [urlRows[r] EXCEPT !.count = @ - Cardinality(Counted(r)), !.last = Late(r)]
      BY <1>1, <1>2, <2>3, Zenon
    <3>2. urlRows'[r] = [[urlRows[r] EXCEPT !.count = @ - Cardinality(Counted(r))]
                            EXCEPT !.last = Late(r)]
      BY <3>1
    <3>3. Counted(r) = Counting(r) \cap S
      BY DEF Counting
    <3> HIDE DEF Counted, Late
    <3>4. urlRows'[r] = [url |-> urlRows[r].url, count |-> urlRows[r].count - Cardinality(Counted(r)),
                         last |-> Late(r)]
      BY <2>1, <3>2
    <3> QED  BY <2>3, <3>3, <3>4
  <2> QED  BY <2>2, <2>3
<1> QED  BY <1>2, <1>3

\* The browser keeps the counts right, and when all goes the mark stays.
LEMMA ChromiumRemoval ==
    ASSUME IntegrityShapes, IsChromium, ChromiumSound, NEW S \in SUBSET DOMAIN visitRows,
           RemoveVisits(S), life'.wiped = (DOMAIN urlRows = Gone(S)),
           life'.cut = life.cut \ Gone(S)
    PROVE  ChromiumSound'
<1> DEFINE hit == {visitRows[i].row : i \in S}
<1>1. /\ S # {} /\ visitRows' = Without(visitRows, S)
      /\ UNCHANGED <<kind, seqs, cookie, now>>
  BY RemovalIs
<1>2. life'.wiped = (DOMAIN urlRows = Gone(S)) /\ life'.cut = life.cut \ Gone(S)
  OBVIOUS
<1>3. DOMAIN urlRows' = DOMAIN urlRows \ Gone(S)
  BY UrlsAfterDelete
<1>4. /\ DOMAIN visitRows' = DOMAIN visitRows \ S
      /\ \A i \in DOMAIN visitRows' : visitRows'[i] = visitRows[i]
  BY <1>1, VisitsLeft
<1>5. ChromiumIds'
  <2>1. \A i \in DOMAIN visitRows' : visitRows[i].row \in DOMAIN urlRows'
    <3> SUFFICES ASSUME NEW i \in DOMAIN visitRows' PROVE visitRows[i].row \notin Gone(S)
      BY <1>3, <1>4 DEF ChromiumSound, ChromiumIds
    <3> QED  BY <1>4 DEF Gone, VisitsTo
  <2> QED  BY <1>1, <1>3, <1>4, <2>1 DEF ChromiumSound, ChromiumIds
<1>6. ASSUME NEW r \in DOMAIN urlRows'
      PROVE  /\ urlRows'[r] = [url |-> urlRows'[r].url, count |-> urlRows'[r].count,
                               last |-> urlRows'[r].last]
             /\ urlRows'[r].count \in Int
             /\ urlRows'[r].count >= Cardinality(Counting(r)')
             /\ r \in life'.cut => urlRows'[r].count > Cardinality(Counting(r)')
  <2>1. /\ urlRows'[r] = [url |-> urlRows'[r].url, count |-> urlRows'[r].count,
                          last |-> urlRows'[r].last]
        /\ urlRows'[r].count = IF r \in hit
              THEN urlRows[r].count - Cardinality(Counting(r) \cap S) ELSE urlRows[r].count
    BY UrlsAfterDelete
  <2>2. IsFiniteSet(Counting(r)) /\ Cardinality(Counting(r)) \in Nat
    BY FiniteVisits DEF ChromiumSound
  <2>3. Counting(r)' = Counting(r) \ S
    BY <1>1, VisitsLeft
  <2>4. /\ Cardinality(Counting(r) \ S) = Cardinality(Counting(r)) - Cardinality(Counting(r) \cap S)
        /\ Cardinality(Counting(r) \cap S) \in Nat
    BY <2>2, FS_Difference, FS_Subset, FS_CardinalityType
  <2>5. r \notin hit => Counting(r) \cap S = {}
    BY DEF Counting, VisitsTo
  <2>6. r \notin hit => Cardinality(Counting(r) \cap S) = 0
    BY <2>5, FS_EmptySet
  <2>7. r \in DOMAIN urlRows /\ (r \in life'.cut => r \in life.cut)
    BY <1>2, <1>3
  <2>8. /\ urlRows[r].count \in Int /\ urlRows[r].count >= Cardinality(Counting(r))
        /\ r \in life.cut => urlRows[r].count > Cardinality(Counting(r))
    BY <2>7 DEF ChromiumSound, ChromiumCounts
  <2> HIDE DEF hit
  <2>9. urlRows'[r].count = urlRows[r].count - Cardinality(Counting(r) \cap S)
    BY <2>1, <2>6, <2>8
  <2> QED  BY <2>1, <2>2, <2>3, <2>4, <2>7, <2>8, <2>9
<1>7. life'.cut \subseteq DOMAIN urlRows'
  BY <1>2, <1>3 DEF ChromiumSound, ChromiumCounts
<1>8. life'.wiped => urlRows' = NoRows /\ seqs'.urls > 0
  <2> SUFFICES ASSUME life'.wiped PROVE urlRows' = NoRows /\ seqs'.urls > 0
    OBVIOUS
  <2>1. DOMAIN urlRows' = {}
    BY <1>2, <1>3
  <2>2. urlRows' = [r \in DOMAIN urlRows' |-> urlRows'[r]]
    BY UrlsAfterDelete
  <2>3. urlRows' = NoRows
    BY <2>1, <2>2 DEF NoRows
  <2>4. PICK i \in S : i \in DOMAIN visitRows
    BY <1>1
  <2>5. visitRows[i].row \in 1..seqs.urls
    BY <2>4 DEF ChromiumSound, ChromiumIds
  <2> QED  BY <1>1, <2>3, <2>5 DEF ChromiumSound, ChromiumIds
<1> QED  BY <1>5, <1>6, <1>7, <1>8 DEF ChromiumSound, ChromiumCounts

\* What an honest history keeps of its visits when the old ones go.
LEMMA ExpiryKeepsVisits ==
    ASSUME IntegrityInv, life.honest, NEW before \in Nat, ExpireVisits(before)
    PROVE  /\ HonestVisits'
           /\ \A i, j \in DOMAIN visitRows :
                 i \notin TooOld(before) /\ visitRows[i].time <= visitRows[j].time
                 => j \notin TooOld(before)
           /\ \A m \in DOMAIN visitRows :
                 (DOMAIN visitRows' # {} /\ \A j \in DOMAIN visitRows : j <= m)
                 => m \in DOMAIN visitRows'
<1> DEFINE S == TooOld(before)
<1>1. HonestVisits /\ mtime \in Nat /\ now \in Nat /\ kind.wal \in BOOLEAN
  BY DEF IntegrityInv, HonestSound, IntegrityShapes
<1>2. /\ visitRows' = Without(visitRows, S)
      /\ mtime' = (IF kind.wal THEN mtime ELSE now) /\ UNCHANGED <<kind, now>>
  BY ExpiryIs, RemovalIs
<1>3. DOMAIN visitRows' = DOMAIN visitRows \ S /\ \A i \in DOMAIN visitRows' : visitRows'[i] = visitRows[i]
  BY <1>2, VisitsLeft
<1>4. life'.fresh = StillInLog(life.fresh)
  BY LifeAfterExpiry DEF IntegrityInv
<1>5. \A i \in DOMAIN visitRows : i \in Nat /\ visitRows[i].time \in Nat
  BY <1>1 DEF HonestVisits
<1>6. ASSUME NEW i \in DOMAIN visitRows, NEW j \in DOMAIN visitRows,
             i \notin S, visitRows[i].time <= visitRows[j].time
      PROVE  j \notin S
  BY <1>5, <1>6 DEF TooOld
<1>7. ASSUME NEW i \in DOMAIN visitRows, NEW j \in DOMAIN visitRows, i \notin S, i <= j
      PROVE  j \notin S
  BY <1>1, <1>6, <1>7 DEF HonestVisits
<1> HIDE DEF S
<1>8. ASSUME NEW m \in DOMAIN visitRows, DOMAIN visitRows' # {}, \A j \in DOMAIN visitRows : j <= m
      PROVE  m \in DOMAIN visitRows'
  <2>1. PICK i \in DOMAIN visitRows : i \notin S
    BY <1>3, <1>8
  <2> QED  BY <1>3, <1>7, <1>8, <2>1
<1>9. ASSUME NEW i \in DOMAIN visitRows'
      PROVE  visitRows'[i].time <= mtime' \/ (kind'.wal /\ i \in life'.fresh)
  <2>1. /\ i \in DOMAIN visitRows /\ visitRows'[i] = visitRows[i]
        /\ visitRows[i].time <= now
        /\ visitRows[i].time <= mtime \/ (kind.wal /\ i \in life.fresh)
    BY <1>1, <1>3 DEF HonestVisits
  <2>2. CASE kind.wal
    BY <1>2, <1>4, <2>1, <2>2 DEF StillInLog
  <2>3. CASE ~kind.wal
    BY <1>2, <2>1, <2>3
  <2> QED  BY <2>2, <2>3
<1>10. ASSUME NEW i \in DOMAIN visitRows', NEW j \in DOMAIN visitRows', NEW k \in Nat, i <= k, k <= j
       PROVE  k \in DOMAIN visitRows'
  <2>1. k \in DOMAIN visitRows
    BY <1>1, <1>3, <1>10 DEF HonestVisits
  <2> QED  BY <1>3, <1>7, <1>10, <2>1
<1>11. DOMAIN visitRows' # {} => \E m \in DOMAIN visitRows' : \A j \in DOMAIN visitRows' : j <= m
  <2> SUFFICES ASSUME DOMAIN visitRows' # {}
               PROVE  \E m \in DOMAIN visitRows' : \A j \in DOMAIN visitRows' : j <= m
    OBVIOUS
  <2>1. PICK m \in DOMAIN visitRows : \A j \in DOMAIN visitRows : j <= m
    BY <1>1, <1>3 DEF HonestVisits
  <2> QED  BY <1>3, <1>8, <2>1
<1>12. \A i, j \in DOMAIN visitRows' : i <= j => visitRows'[i].time <= visitRows'[j].time
  BY <1>1, <1>3 DEF HonestVisits
<1>13. \A i \in DOMAIN visitRows' : i \in Nat /\ visitRows'[i].time \in Nat /\ visitRows'[i].time <= now'
  BY <1>1, <1>2, <1>3 DEF HonestVisits
<1>14. HonestVisits'
  BY <1>9, <1>10, <1>11, <1>12, <1>13 DEF HonestVisits
<1> QED  BY <1>6, <1>8, <1>14 DEF S

\* What it keeps of its url rows.
LEMMA ExpiryKeepsUrls ==
    ASSUME IntegrityInv, life.honest, IsChromium, NEW before \in Nat, ExpireVisits(before),
           NEW r \in DOMAIN urlRows'
    PROVE  LastIsKnown(r)' /\ urlRows'[r].count = Cardinality(Counting(r)')
<1> DEFINE S == TooOld(before)
           hit == {visitRows[i].row : i \in S}
<1>1. HonestVisits /\ HonestUrls /\ ChromiumSound
  BY DEF IntegrityInv, HonestSound
<1>2. RemoveVisits(S) /\ visitRows' = Without(visitRows, S)
  BY ExpiryIs, RemovalIs
<1>3. /\ r \in DOMAIN urlRows /\ r \notin Gone(S)
      /\ urlRows'[r].count = IF r \in hit
            THEN urlRows[r].count - Cardinality(Counting(r) \cap S) ELSE urlRows[r].count
      /\ urlRows'[r].last = IF r \in hit
            THEN Top({visitRows[i].time : i \in VisitsTo(r) \ S}) ELSE urlRows[r].last
  BY <1>1, <1>2, UrlsAfterDelete
<1>4. VisitsTo(r)' = VisitsTo(r) \ S /\ Counting(r)' = Counting(r) \ S
      /\ \A i \in VisitsTo(r)' : visitRows'[i] = visitRows[i]
  <2>1. /\ VisitsTo(r)' = VisitsTo(r) \ S /\ Counting(r)' = Counting(r) \ S
        /\ \A i \in DOMAIN visitRows' : visitRows'[i] = visitRows[i]
    BY <1>2, VisitsLeft
  <2> QED  BY <2>1 DEF VisitsTo
<1>5. LastIsKnown(r) /\ urlRows[r].count = Cardinality(Counting(r))
  BY <1>1, <1>3 DEF HonestUrls
<1>6. \A i \in VisitsTo(r) : i \in DOMAIN visitRows /\ visitRows[i].time \in Nat
  BY <1>1 DEF HonestVisits, VisitsTo
<1>7. \A i, j \in DOMAIN visitRows : i \notin S /\ visitRows[i].time <= visitRows[j].time => j \notin S
  BY ExpiryKeepsVisits
<1>8. r \notin hit => VisitsTo(r) \cap S = {} /\ Counting(r) \cap S = {}
  BY DEF Counting, VisitsTo
<1>9. r \in hit => VisitsTo(r) \ S # {}
  BY <1>3 DEF Gone
<1>10. IsFiniteSet(Counting(r)) /\ Cardinality(Counting(r)) \in Nat
  BY <1>1, FiniteVisits DEF ChromiumSound
<1> HIDE DEF S, hit
<1>11. urlRows'[r].count = Cardinality(Counting(r)')
  <2>1. Cardinality(Counting(r) \ S) = Cardinality(Counting(r)) - Cardinality(Counting(r) \cap S)
    BY <1>10, FS_Difference
  <2>2. r \notin hit => Counting(r) \ S = Counting(r)
    BY <1>8
  <2> QED  BY <1>3, <1>4, <1>5, <2>1, <2>2
<1>12. PICK i \in VisitsTo(r) :
          /\ visitRows[i].time = urlRows[r].last
          /\ \A j \in VisitsTo(r) : visitRows[j].time <= urlRows[r].last
  BY <1>5 DEF LastIsKnown
<1>13. i \in VisitsTo(r) \ S
  <2>1. r \in hit => \E j \in VisitsTo(r) : j \notin S
    BY <1>9
  <2> QED  BY <1>6, <1>7, <1>8, <1>12, <2>1
<1>14. urlRows'[r].last = visitRows[i].time
  <2> DEFINE T == {visitRows[j].time : j \in VisitsTo(r) \ S}
  <2>1. T \subseteq Int /\ visitRows[i].time \in T /\ \A t \in T : t <= visitRows[i].time
    BY <1>6, <1>12, <1>13
  <2>2. Top(T) = visitRows[i].time
    <3> HIDE DEF T
    <3> QED  BY <2>1, TopIs
  <2> QED  BY <1>3, <1>12, <2>2
<1>15. LastIsKnown(r)'
  <2>1. i \in VisitsTo(r)' /\ visitRows'[i].time = urlRows'[r].last
    BY <1>4, <1>13, <1>14
  <2>2. \A j \in VisitsTo(r)' : visitRows'[j].time <= urlRows'[r].last
    BY <1>4, <1>12, <1>14
  <2> QED  BY <2>1, <2>2 DEF LastIsKnown
<1> QED  BY <1>11, <1>15

\* An honest history stays so when its old visits go.
LEMMA HonestExpiry ==
    ASSUME IntegrityInv, life.honest, NEW before \in Nat, ExpireVisits(before)
    PROVE  HonestSound'
<1> DEFINE S == TooOld(before)
<1>1. HonestVisits /\ HonestMarks /\ (IsChromium => HonestUrls /\ ChromiumSound)
  BY DEF IntegrityInv, HonestSound
<1>2. /\ RemoveVisits(S) /\ S # {} /\ visitRows' = Without(visitRows, S)
      /\ UNCHANGED <<kind, seqs, cookie, now>>
  BY ExpiryIs, RemovalIs
<1>3. life'.expired = life.expired \cup UrlsOf(Gone(S))
  BY LifeAfterExpiry DEF IntegrityInv
<1>4. HonestMarks'
  <2>1. tombs' \subseteq tombs \cup UrlsOf(Gone(S))
    BY ExpiryIs
  <2> HIDE DEF S
  <2> QED  BY <1>1, <1>2, <1>3, <2>1 DEF HonestMarks
<1>5. DOMAIN visitRows' = DOMAIN visitRows \ S
  BY <1>2, VisitsLeft
<1>6. ASSUME IsChromium PROVE HonestUrls'
  <2>1. DOMAIN visitRows' # {} => seqs'.visits \in DOMAIN visitRows'
    <3> SUFFICES ASSUME DOMAIN visitRows' # {} PROVE seqs.visits \in DOMAIN visitRows'
      BY <1>2
    <3>1. seqs.visits \in DOMAIN visitRows
      BY <1>1, <1>5, <1>6 DEF HonestUrls
    <3>2. \A j \in DOMAIN visitRows : j <= seqs.visits
      BY <1>1, <1>6 DEF ChromiumSound, ChromiumIds
    <3> QED  BY <3>1, <3>2, ExpiryKeepsVisits
  <2>2. ASSUME life'.expired = {}
        PROVE  DOMAIN urlRows' = 1..seqs'.urls /\ (DOMAIN visitRows' = {} => seqs'.visits = 0)
    <3>1. life.expired = {} /\ UrlsOf(Gone(S)) = {}
      BY <1>3, <2>2
    <3>2. Gone(S) = {}
      BY <3>1 DEF UrlsOf
    <3>3. DOMAIN urlRows' = DOMAIN urlRows \ Gone(S)
      BY <1>1, <1>2, <1>6, UrlsAfterDelete
    <3>4. DOMAIN urlRows' = 1..seqs'.urls
      BY <1>1, <1>2, <1>6, <3>1, <3>2, <3>3 DEF HonestUrls
    <3>5. DOMAIN visitRows' # {}
      <4>1. PICK i : i \in S
        BY <1>2
      <4>2. visitRows[i].row \in {visitRows[j].row : j \in S}
        BY <4>1
      <4>3. VisitsTo(visitRows[i].row) \ S # {}
        BY <3>2, <4>2 DEF Gone
      <4> QED  BY <1>5, <4>3 DEF VisitsTo
    <3> QED  BY <3>4, <3>5
  <2>3. \A r \in DOMAIN urlRows' : LastIsKnown(r)' /\ urlRows'[r].count = Cardinality(Counting(r)')
    BY <1>6, ExpiryKeepsUrls
  <2> QED  BY <2>1, <2>2, <2>3 DEF HonestUrls
<1>7. HonestVisits'
  BY ExpiryKeepsVisits
<1> QED  BY <1>2, <1>4, <1>6, <1>7 DEF HonestSound, IsChromium

\* Another writer's deletion leaves a count that is too high.
LEMMA ChromiumCut ==
    ASSUME IntegrityShapes, IsChromium, ChromiumSound, NEW S \in SUBSET DOMAIN visitRows,
           CutVisits(S)
    PROVE  ChromiumSound'
<1> DEFINE lost == {visitRows[i].row : i \in {j \in S : visitRows[j].counts}}
<1>1. /\ visitRows' = Without(visitRows, S)
      /\ UNCHANGED <<kind, urlRows, seqs, tombs, cookie, now>>
  BY DEF CutVisits
<1>2. life' = [visits |-> life.visits, honest |-> FALSE, wiped |-> life.wiped,
               cut |-> life.cut \cup lost, fresh |-> StillInLog(life.fresh),
               expired |-> life.expired]
  <2>1. life' = [life EXCEPT !.honest = FALSE, !.cut = @ \cup lost, !.fresh = StillInLog(@)]
    BY Zenon DEF CutVisits
  <2>2. life' = [[[life EXCEPT !.honest = FALSE] EXCEPT !.cut = @ \cup lost]
                    EXCEPT !.fresh = StillInLog(@)]
    BY <2>1
  <2> HIDE DEF lost
  <2> QED  BY <2>2 DEF IntegrityShapes
<1>3. /\ DOMAIN visitRows' = DOMAIN visitRows \ S
      /\ \A i \in DOMAIN visitRows' : visitRows'[i] = visitRows[i]
  BY <1>1, VisitsLeft
<1>4. ChromiumIds'
  BY <1>1, <1>3 DEF ChromiumSound, ChromiumIds
<1>5. lost \subseteq DOMAIN urlRows
  BY DEF ChromiumSound, ChromiumIds
<1>6. ASSUME NEW r \in DOMAIN urlRows
      PROVE  /\ urlRows[r].count >= Cardinality(Counting(r)')
             /\ r \in life'.cut => urlRows[r].count > Cardinality(Counting(r)')
  <2>1. IsFiniteSet(Counting(r)) /\ Cardinality(Counting(r)) \in Nat
    BY FiniteVisits DEF ChromiumSound
  <2>2. Counting(r)' = Counting(r) \ S
    BY <1>1, VisitsLeft
  <2>3. /\ Cardinality(Counting(r) \ S) \in Nat
        /\ Cardinality(Counting(r) \ S) <= Cardinality(Counting(r))
        /\ Cardinality(Counting(r) \ S) = Cardinality(Counting(r)) => Counting(r) \ S = Counting(r)
    BY <2>1, FS_Subset, FS_CardinalityType
  <2>4. /\ urlRows[r].count \in Int /\ urlRows[r].count >= Cardinality(Counting(r))
        /\ r \in life.cut => urlRows[r].count > Cardinality(Counting(r))
    BY DEF ChromiumSound, ChromiumCounts
  <2>5. CASE r \in lost
    <3>1. PICK i \in S : visitRows[i].counts /\ visitRows[i].row = r
      BY <2>5
    <3>2. i \in Counting(r) /\ i \notin Counting(r) \ S
      BY <3>1 DEF Counting, VisitsTo
    <3> QED  BY <2>1, <2>2, <2>3, <2>4, <3>2
  <2>6. CASE r \notin lost
    <3>1. r \in life'.cut => r \in life.cut
      BY <1>2, <2>6
    <3> QED  BY <2>1, <2>2, <2>3, <2>4, <3>1
  <2> QED  BY <2>5, <2>6
<1>7. life'.cut \subseteq DOMAIN urlRows /\ life'.wiped = life.wiped
  BY <1>2, <1>5 DEF ChromiumSound, ChromiumCounts
<1> QED  BY <1>1, <1>4, <1>6, <1>7 DEF ChromiumSound, ChromiumCounts

-----------------------------------------------------------------------------
(* Every step. *)

LEMMA IntegrityInitSound == IntegrityInit => IntegrityInv
<1> SUFFICES ASSUME IntegrityInit PROVE IntegrityInv
  OBVIOUS
<1>1. DOMAIN visitRows = {} /\ DOMAIN urlRows = {}
  BY DEF IntegrityInit, NoRows
<1>2. IntegrityShapes
  BY DEF IntegrityInit, IntegrityShapes
<1>3. HonestSound
  BY <1>1 DEF IntegrityInit, HonestSound, HonestVisits, HonestMarks, HonestUrls
<1>4. ChromiumSound
  BY <1>1 DEF IntegrityInit, ChromiumSound, ChromiumIds, ChromiumCounts
<1> QED  BY <1>2, <1>3, <1>4 DEF IntegrityInv

\* What a step of the clock or of a cookie leaves alone stays sound.
LEMMA RowsRest ==
    ASSUME ChromiumSound, UNCHANGED <<urlRows, visitRows, seqs>>,
           life'.cut = life.cut, life'.wiped = life.wiped
    PROVE  ChromiumSound'
BY DEF ChromiumSound, ChromiumIds, ChromiumCounts, Counting, VisitsTo

LEMMA HonestRest ==
    ASSUME HonestSound, UNCHANGED <<kind, urlRows, visitRows, seqs, now>>,
           HonestMarks', life'.expired = life.expired,
           (mtime' = mtime /\ life'.fresh = life.fresh) \/ mtime' = now
    PROVE  HonestSound'
<1>1. HonestVisits'
  BY DEF HonestSound, HonestVisits
<1>2. ASSUME IsChromium PROVE HonestUrls'
  <2>1. HonestUrls
    BY <1>2 DEF HonestSound
  <2>2. \A r : VisitsTo(r)' = VisitsTo(r) /\ Counting(r)' = Counting(r)
    BY DEF Counting, VisitsTo
  <2>3. \A r \in DOMAIN urlRows :
           LastIsKnown(r)' /\ urlRows[r].count = Cardinality(Counting(r)')
    <3>1. \A r \in DOMAIN urlRows : LastIsKnown(r) /\ urlRows[r].count = Cardinality(Counting(r))
      BY <2>1 DEF HonestUrls
    <3> QED  BY <2>2, <3>1 DEF LastIsKnown
  <2> QED  BY <2>1, <2>3 DEF HonestUrls
<1> QED  BY <1>1, <1>2 DEF HonestSound, IsChromium

LEMMA IntegrityStepSound == IntegrityInv /\ [IntegrityNext]_integrityVars => IntegrityInv'
<1> SUFFICES ASSUME IntegrityInv, [IntegrityNext]_integrityVars PROVE IntegrityInv'
  OBVIOUS
<1>1. ASSUME NEW u \in Addresses, NEW counts \in BOOLEAN, NEW at \in 1..MaxClock,
             VisitPage(u, counts, at)
      PROVE  IntegrityInv'
  <2>1. life' = [visits |-> life.visits + 1, honest |-> life.honest, wiped |-> FALSE,
                 cut |-> life.cut, fresh |-> StillInLog(life.fresh \cup {NextVisit}),
                 expired |-> life.expired]
    BY <1>1, LifeAfterVisit DEF IntegrityInv
  <2>2. now' = at /\ kind' = kind /\ mtime' \in {mtime, at}
    BY <1>1, VisitIs
  <2>3. IntegrityShapes'
    BY <2>1, <2>2, IntegrityAssumption DEF IntegrityInv, IntegrityShapes
  <2>4. life'.honest => HonestSound'
    BY <1>1, <2>1, HonestVisit
  <2>5. IsChromium' => ChromiumSound'
    BY <1>1, <2>2, ChromiumVisit DEF IntegrityInv, IsChromium
  <2> QED  BY <2>3, <2>4, <2>5 DEF IntegrityInv
<1>2. ASSUME NEW S \in SUBSET DOMAIN visitRows, DeleteVisits(S)
      PROVE  IntegrityInv'
  <2>1. life' = [visits |-> life.visits, honest |-> FALSE,
                 wiped |-> (DOMAIN urlRows = Gone(S)), cut |-> life.cut \ Gone(S),
                 fresh |-> StillInLog(life.fresh), expired |-> life.expired]
    BY <1>2, LifeAfterDelete DEF IntegrityInv
  <2>2. RemoveVisits(S) /\ UNCHANGED <<kind, now>> /\ mtime' \in {mtime, now}
    BY <1>2, RemovalIs DEF DeleteVisits
  <2>3. IntegrityShapes' /\ ~life'.honest
    BY <2>1, <2>2 DEF IntegrityInv, IntegrityShapes
  <2>4. IsChromium' => ChromiumSound'
    BY <2>1, <2>2, ChromiumRemoval DEF IntegrityInv, IsChromium
  <2> QED  BY <2>3, <2>4 DEF IntegrityInv
<1>8. ASSUME NEW before \in 1..now, ExpireVisits(before)
      PROVE  IntegrityInv'
  <2> DEFINE S == TooOld(before)
  <2>1. life' = [visits |-> life.visits, honest |-> life.honest,
                 wiped |-> (DOMAIN urlRows = Gone(S)), cut |-> life.cut \ Gone(S),
                 fresh |-> StillInLog(life.fresh), expired |-> life.expired \cup UrlsOf(Gone(S))]
    BY <1>8, LifeAfterExpiry DEF IntegrityInv
  <2>2. RemoveVisits(S) /\ UNCHANGED <<kind, now>> /\ mtime' \in {mtime, now}
    BY <1>8, ExpiryIs, RemovalIs
  <2>3. S \in SUBSET DOMAIN visitRows /\ now \in Nat
    BY DEF TooOld, IntegrityInv, IntegrityShapes
  <2>4. before \in Nat
    BY <2>3
  <2> HIDE DEF S
  <2>5. IntegrityShapes' /\ life'.honest = life.honest
    BY <2>1, <2>2 DEF IntegrityInv, IntegrityShapes
  <2>6. life'.honest => HonestSound'
    BY <1>8, <2>4, <2>5, HonestExpiry
  <2>7. IsChromium' => ChromiumSound'
    BY <2>1, <2>2, <2>3, ChromiumRemoval DEF IntegrityInv, IsChromium
  <2> QED  BY <2>5, <2>6, <2>7 DEF IntegrityInv
<1>3. ASSUME NEW S \in SUBSET DOMAIN visitRows, CutVisits(S)
      PROVE  IntegrityInv'
  <2> DEFINE lost == {visitRows[i].row : i \in {j \in S : visitRows[j].counts}}
  <2>1. life' = [life EXCEPT !.honest = FALSE, !.cut = @ \cup lost, !.fresh = StillInLog(@)]
    BY <1>3, Zenon DEF CutVisits
  <2>2. life' = [[[life EXCEPT !.honest = FALSE] EXCEPT !.cut = @ \cup lost]
                    EXCEPT !.fresh = StillInLog(@)]
    BY <2>1
  <2> HIDE DEF lost
  <2>3. life' = [visits |-> life.visits, honest |-> FALSE, wiped |-> life.wiped,
                 cut |-> life.cut \cup lost, fresh |-> StillInLog(life.fresh),
                 expired |-> life.expired]
    BY <2>2 DEF IntegrityInv, IntegrityShapes
  <2>4. UNCHANGED <<kind, now>> /\ mtime' \in {mtime, now}
    BY <1>3 DEF CutVisits, WrittenAt
  <2>5. IntegrityShapes' /\ ~life'.honest
    BY <2>3, <2>4 DEF IntegrityInv, IntegrityShapes
  <2>6. IsChromium' => ChromiumSound'
    BY <1>3, <2>4, ChromiumCut DEF IntegrityInv, IsChromium
  <2> QED  BY <2>5, <2>6 DEF IntegrityInv
<1>4. CASE SetClockBack
  <2>1. life' = [visits |-> life.visits, honest |-> FALSE, wiped |-> life.wiped,
                 cut |-> life.cut, fresh |-> life.fresh, expired |-> life.expired]
    BY <1>4 DEF SetClockBack, IntegrityInv, IntegrityShapes
  <2>4. now \in Nat /\ now' \in 1..(now - 1) /\ UNCHANGED <<kind, mtime>>
    BY <1>4 DEF SetClockBack, IntegrityInv, IntegrityShapes
  <2>5. now' \in Nat
    BY <2>4
  <2>2. IntegrityShapes' /\ ~life'.honest
    BY <2>1, <2>4, <2>5 DEF IntegrityInv, IntegrityShapes
  <2>3. IsChromium' => ChromiumSound'
    BY <1>4, <2>1, RowsRest DEF SetClockBack, IntegrityInv, IsChromium
  <2> QED  BY <2>2, <2>3 DEF IntegrityInv
<1>5. CASE Checkpoint
  <2>1. /\ UNCHANGED <<kind, urlRows, visitRows, seqs, tombs, cookie, now>> /\ mtime' = now
        /\ life' = [visits |-> life.visits, honest |-> life.honest, wiped |-> life.wiped,
                    cut |-> life.cut, fresh |-> {}, expired |-> life.expired]
    BY <1>5 DEF Checkpoint, IntegrityInv, IntegrityShapes
  <2>2. life'.honest => HonestSound'
    BY <2>1, HonestRest DEF IntegrityInv, HonestSound, HonestMarks
  <2>3. IsChromium' => ChromiumSound'
    BY <2>1, RowsRest DEF IntegrityInv, IsChromium
  <2> QED  BY <2>1, <2>2, <2>3 DEF IntegrityInv, IntegrityShapes
<1>6. CASE UseCookie
  <2>1. UNCHANGED <<kind, urlRows, visitRows, seqs, tombs, now, mtime, life>>
    BY <1>6 DEF UseCookie
  <2>2. life.honest => HonestMarks'
    BY <1>6, <2>1 DEF UseCookie, IntegrityInv, IntegrityShapes, HonestSound, HonestMarks
  <2>3. life'.honest => HonestSound'
    BY <2>1, <2>2, HonestRest DEF IntegrityInv
  <2>4. IsChromium' => ChromiumSound'
    BY <2>1, RowsRest DEF IntegrityInv, IsChromium
  <2> QED  BY <2>1, <2>3, <2>4 DEF IntegrityInv, IntegrityShapes
<1>7. CASE UNCHANGED integrityVars
  <2>1. UNCHANGED <<kind, urlRows, visitRows, seqs, tombs, cookie, now, mtime, life>>
    BY <1>7 DEF integrityVars
  <2>2. life'.honest => HonestSound'
    BY <2>1, HonestRest DEF IntegrityInv, HonestSound, HonestMarks
  <2>3. IsChromium' => ChromiumSound'
    BY <2>1, RowsRest DEF IntegrityInv, IsChromium
  <2> QED  BY <2>1, <2>2, <2>3 DEF IntegrityInv, IntegrityShapes
<1> QED  BY <1>1, <1>2, <1>3, <1>4, <1>5, <1>6, <1>7, <1>8 DEF IntegrityNext

-----------------------------------------------------------------------------
(* What the checks report. *)

LEMMA NoFault == \A tag : FirstFault(tag, {}) = {}
BY DEF FirstFault

\* An honest history has its ids and times in order.
LEMMA HonestOrder ==
    ASSUME IntegrityInv, life.honest
    PROVE  VisitIdGaps = {} /\ TimestampMonotonicity = {} /\ CheckCookies(kind.family) = {}
           /\ Tombstones \subseteq {<<"HistoryTombstoneFound", u>> : u \in life.expired}
<1>1. HonestVisits /\ HonestMarks
  BY DEF IntegrityInv, HonestSound
<1>2. {p \in Neighbours : p[2] - p[1] > 1} = {}
  <2> SUFFICES ASSUME NEW p \in Neighbours, p[2] - p[1] > 1 PROVE FALSE
    OBVIOUS
  <2>1. /\ p[1] \in DOMAIN visitRows /\ p[2] \in DOMAIN visitRows
        /\ p[1] \in Nat /\ p[2] \in Nat
    BY <1>1 DEF Neighbours, HonestVisits
  <2>2. p[1] + 1 \in DOMAIN visitRows
    <3>1. p[1] + 1 \in Nat /\ p[1] <= p[1] + 1 /\ p[1] + 1 <= p[2]
      BY <2>1
    <3> QED  BY <1>1, <2>1, <3>1 DEF HonestVisits
  <2>3. p[1] + 1 <= p[1] \/ p[2] <= p[1] + 1
    BY <2>2 DEF Neighbours
  <2> QED  BY <2>1, <2>3
<1>3. {p \in Neighbours : visitRows[p[2]].time < visitRows[p[1]].time} = {}
  <2> SUFFICES ASSUME NEW p \in Neighbours, visitRows[p[2]].time < visitRows[p[1]].time
               PROVE  FALSE
    OBVIOUS
  <2>1. p[1] \in DOMAIN visitRows /\ p[2] \in DOMAIN visitRows /\ p[1] < p[2]
    BY DEF Neighbours
  <2>2. p[1] <= p[2]
    <3>1. p[1] \in Nat /\ p[2] \in Nat
      BY <1>1, <2>1 DEF HonestVisits
    <3> QED  BY <2>1, <3>1
  <2>3. /\ visitRows[p[1]].time <= visitRows[p[2]].time
        /\ visitRows[p[1]].time \in Nat /\ visitRows[p[2]].time \in Nat
    BY <1>1, <2>1, <2>2 DEF HonestVisits
  <2> QED  BY <2>3
<1>4. Tombstones \subseteq {<<"HistoryTombstoneFound", u>> : u \in life.expired}
  BY <1>1 DEF Tombstones, HonestMarks
<1>5. CheckCookies(kind.family) = {}
  BY <1>1 DEF CheckCookies, HonestMarks
<1> QED  BY <1>2, <1>3, <1>4, <1>5, NoFault DEF VisitIdGaps, TimestampMonotonicity

\* Only a fresh visit is younger than the file.
LEMMA HonestTimes ==
    ASSUME IntegrityInv, life.honest
    PROVE  FutureTimestamps \subseteq
               {<<"TimestampInFuture", i>> : i \in IF kind.wal THEN life.fresh ELSE {}}
<1>1. ASSUME NEW j \in DOMAIN visitRows, visitRows[j].time > mtime
      PROVE  j \in IF kind.wal THEN life.fresh ELSE {}
  <2>1. /\ visitRows[j].time \in Nat /\ mtime \in Nat
        /\ visitRows[j].time <= mtime \/ (kind.wal /\ j \in life.fresh)
    BY DEF IntegrityInv, IntegrityShapes, HonestSound, HonestVisits
  <2> QED  BY <1>1, <2>1
<1> QED  BY <1>1 DEF FutureTimestamps

\* Chromium's counters fit an honest history.
LEMMA HonestCounters ==
    ASSUME IntegrityInv, life.honest, IsChromium
    PROVE  /\ life.expired = {} => AutoincGap = {} /\ SqliteSequenceGaps = {}
           /\ VisitCountConsistency = {} /\ LastVisitConsistency = {}
<1>1. HonestVisits /\ HonestUrls /\ ChromiumSound /\ ChromiumIds
  BY DEF IntegrityInv, HonestSound, ChromiumSound
<1>2. seqs.urls \in Nat /\ seqs.visits \in Nat
  BY <1>1 DEF ChromiumIds
<1>5. ASSUME life.expired = {} PROVE AutoincGap = {} /\ SqliteSequenceGaps = {}
  <2>1. Top(DOMAIN urlRows) = seqs.urls
    BY <1>1, <1>2, <1>5, TopUpTo DEF HonestUrls
  <2>2. Top(DOMAIN visitRows) = seqs.visits
    <3>1. CASE DOMAIN visitRows = {}
      BY <1>1, <1>5, <3>1 DEF HonestUrls, Top
    <3>2. CASE DOMAIN visitRows # {}
      <4>1. seqs.visits \in DOMAIN visitRows /\ DOMAIN visitRows \subseteq 1..seqs.visits
        BY <1>1, <3>2 DEF HonestUrls, ChromiumIds
      <4>2. DOMAIN visitRows \subseteq Int /\ \A j \in DOMAIN visitRows : j <= seqs.visits
        BY <4>1
      <4> QED  BY <4>1, <4>2, TopIs
    <3> QED  BY <3>1, <3>2
  <2>3. urlRows = NoRows => seqs.urls = 0
    <3>1. DOMAIN NoRows = {}
      BY DEF NoRows
    <3> QED  BY <1>1, <1>2, <1>5, <3>1 DEF HonestUrls
  <2> QED  BY <1>2, <2>1, <2>2, <2>3 DEF AutoincGap, SqliteSequenceGaps
<1>6. \A r \in DOMAIN urlRows : ~(urlRows[r].count > Cardinality(VisitsTo(r)))
  <2> TAKE r \in DOMAIN urlRows
  <2>1. urlRows[r].count = Cardinality(Counting(r))
    BY <1>1 DEF HonestUrls
  <2> QED  BY <1>1, <2>1, FiniteVisits
<1>7. \A r \in DOMAIN urlRows : urlRows[r].last = Top({visitRows[i].time : i \in VisitsTo(r)})
  <2> TAKE r \in DOMAIN urlRows
  <2>1. PICK i \in VisitsTo(r) :
           /\ visitRows[i].time = urlRows[r].last
           /\ \A j \in VisitsTo(r) : visitRows[j].time <= urlRows[r].last
    BY <1>1 DEF HonestUrls, LastIsKnown
  <2> DEFINE T == {visitRows[j].time : j \in VisitsTo(r)}
  <2>2. T \subseteq Int
    BY <1>1 DEF HonestVisits, VisitsTo
  <2>3. urlRows[r].last \in T /\ \A t \in T : t <= urlRows[r].last
    BY <2>1
  <2> QED  BY <2>2, <2>3, TopIs
<1> QED  BY <1>5, <1>6, <1>7 DEF VisitCountConsistency, LastVisitConsistency

LEMMA ChecksOfFamilies ==
    /\ CheckHistory("Chromium") =
          AutoincGap \cup VisitIdGaps \cup TimestampMonotonicity \cup VisitCountConsistency
          \cup FutureTimestamps \cup LastVisitConsistency
    /\ CheckHistory("Firefox") = VisitIdGaps \cup TimestampMonotonicity \cup FutureTimestamps
    /\ CheckHistory("Safari") = Tombstones \cup VisitIdGaps
BY DEF CheckHistory

LEMMA HonestImplied == IntegrityInv => HonestHistoryIsClean
<1> SUFFICES ASSUME IntegrityInv, life.honest
             PROVE  TamperIndicators \subseteq HonestExceptions
  BY DEF HonestHistoryIsClean
<1>1. /\ VisitIdGaps = {} /\ TimestampMonotonicity = {} /\ CheckCookies(kind.family) = {}
      /\ Tombstones \subseteq {<<"HistoryTombstoneFound", u>> : u \in life.expired}
  BY HonestOrder
<1>2. FutureTimestamps \subseteq HonestExceptions
  BY HonestTimes DEF HonestExceptions
<1>3. CASE kind.family = "Chromium"
  <2>1. /\ life.expired = {} => AutoincGap = {} /\ SqliteSequenceGaps = {}
        /\ VisitCountConsistency = {} /\ LastVisitConsistency = {}
    BY <1>3, HonestCounters DEF IsChromium
  <2>2. AutoincGap \cup SqliteSequenceGaps \subseteq
           {<<"HistoryCleared", 0>>, <<"AutoIncrementGap", 0>>, <<"SqliteSequenceGap", 0>>}
    BY DEF AutoincGap, SqliteSequenceGaps
  <2>3. AutoincGap \cup SqliteSequenceGaps \subseteq HonestExceptions
    BY <1>3, <2>1, <2>2 DEF HonestExceptions
  <2>4. TamperIndicators = FutureTimestamps \cup (AutoincGap \cup SqliteSequenceGaps)
    BY <1>1, <1>3, <2>1, ChecksOfFamilies DEF TamperIndicators
  <2> QED  BY <1>2, <2>3, <2>4
<1>4. CASE kind.family = "Firefox"
  <2>1. TamperIndicators = FutureTimestamps
    BY <1>1, <1>4, ChecksOfFamilies DEF TamperIndicators, SqliteSequenceGaps
  <2> QED  BY <1>2, <2>1
<1>5. CASE kind.family = "Safari"
  <2>1. TamperIndicators = Tombstones
    BY <1>1, <1>5, ChecksOfFamilies DEF TamperIndicators, SqliteSequenceGaps
  <2> QED  BY <1>1, <2>1 DEF HonestExceptions
<1> QED  BY <1>3, <1>4, <1>5 DEF IntegrityInv, IntegrityShapes

LEMMA NoticeImplied == IntegrityInv => DeletionIsNoticed
<1> SUFFICES ASSUME IntegrityInv, IsChromium PROVE DeletionIsNoticed
  BY DEF DeletionIsNoticed, IsChromium
<1>1. ChromiumSound /\ ChromiumIds /\ ChromiumCounts
  BY DEF IntegrityInv, ChromiumSound
<1>2. CheckHistory("Chromium") \subseteq RunIntegrity \cap TamperIndicators
  BY DEF RunIntegrity, TamperIndicators, IsChromium
<1>3. life.wiped => <<"HistoryCleared", 0>> \in AutoincGap
  BY <1>1 DEF ChromiumSound, AutoincGap
<1>4. ASSUME NEW r \in life.cut, \A i \in VisitsTo(r) : visitRows[i].counts
      PROVE  <<"VisitCountMismatch", r>> \in VisitCountConsistency
  <2>1. r \in DOMAIN urlRows /\ urlRows[r].count > Cardinality(Counting(r))
    BY <1>1 DEF ChromiumCounts
  <2>2. Counting(r) = VisitsTo(r)
    BY <1>1, <1>4, FiniteVisits
  <2> QED  BY <2>1, <2>2 DEF VisitCountConsistency
<1> QED  BY <1>2, <1>3, <1>4, ChecksOfFamilies DEF DeletionIsNoticed

-----------------------------------------------------------------------------

\* The invariant holds in every state.
THEOREM IntegrityInvariant == IntegritySpec => []IntegrityInv
<1> QED  BY IntegrityInitSound, IntegrityStepSound, PTL DEF IntegritySpec

\* A browser and a clock that are left alone raise no indicator, but for visits that the
\* database file was not written since and, when visits grew too old, the counters and
\* the notes of Safari (history.rs 18-412, manual_edit.rs).
THEOREM HonestHistoryCorrect == IntegritySpec => []HonestHistoryIsClean
<1> QED  BY IntegrityInvariant, HonestImplied, PTL

\* A wipe of a Chromium history is noticed until the next visit, a visit that was cut
\* for as long as its url row is there and no redirect makes up for it (history.rs
\* 290-370).
THEOREM DeletionCorrect == IntegritySpec => []DeletionIsNoticed
<1> QED  BY IntegrityInvariant, NoticeImplied, PTL

-----------------------------------------------------------------------------
(* Depths: the way back from a visit, and the ids on it. *)

\* What the way back of a visit would be, were it never cut.
IsWay(w, i, N) ==
    w[0] = visits[i].from /\ \A n \in 1..N : w[n] = ParentId(visits, w[n - 1])

LEMMA WayExists ==
    ASSUME NEW i, NEW N \in Nat
    PROVE  \E w : IsWay(w, i, N)
<1> DEFINE b == visits[i].from
           V == {b} \cup {ParentId(visits, id) : id \in Ids(visits)} \cup {0}
           G == [n \in 1..N |-> [x \in V |-> ParentId(visits, x)]]
<1>1. b \in V /\ \A x \in V : ParentId(visits, x) \in V
  BY DEF ParentId
<1> HIDE DEF V, b
<1>2. AreSteps(G, N, V)
  BY <1>1 DEF AreSteps
<1>3. PICK w : w \in [0..N -> V] /\ w[0] = b /\ \A n \in 1..N : w[n] = G[n][w[n - 1]]
  <2> HIDE DEF G
  <2>1. \E f : IsBuilt(f, b, G, N, V)
    BY <1>1, <1>2, BuiltUp
  <2> QED  BY <2>1 DEF IsBuilt
<1>4. ASSUME NEW n \in 1..N PROVE w[n] = ParentId(visits, w[n - 1])
  <2>1. n - 1 \in 0..N
    OBVIOUS
  <2>2. w[n - 1] \in V
    BY <1>3, <2>1
  <2> QED  BY <1>3, <2>2
<1> QED  BY <1>3, <1>4 DEF IsWay, b

\* The way of the model is its beginning.
LEMMA WayIs ==
    ASSUME NEW i, NEW N \in Nat, NEW w, IsWay(w, i, N), MaxChainDepth <= N
    PROVE  \A n \in 1..MaxChainDepth : WayBack(visits, i)[n] = w[n - 1]
<1> DEFINE M == MaxChainDepth
           D(f) == [n \in 1..M |-> IF n = 1 THEN visits[i].from ELSE ParentId(visits, f[n - 1])]
           g == CHOOSE f : f = D(f)
           h == [n \in 1..M |-> w[n - 1]]
<1>0. M \in Nat \ {0}
  BY ChainAssumption
<1> HIDE DEF M
<1>1. h = D(h)
  <2>1. ASSUME NEW n \in 1..M
        PROVE  h[n] = IF n = 1 THEN visits[i].from ELSE ParentId(visits, h[n - 1])
    <3>1. CASE n = 1
      BY <3>1 DEF IsWay
    <3>2. CASE n # 1
      <4>1. n - 1 \in 1..N /\ n - 1 \in 1..M
        BY <1>0, <3>2 DEF M
      <4> QED  BY <3>2, <4>1 DEF IsWay
    <3> QED  BY <3>1, <3>2
  <2> HIDE DEF h
  <2>2. D(h) = [n \in 1..M |-> h[n]]
    BY <2>1
  <2>3. h = [n \in 1..M |-> h[n]]
    BY DEF h
  <2> QED  BY <2>2, <2>3
<1>2. g = D(g)
  <2> HIDE DEF D, h
  <2> QED  BY <1>1
<1>3. \A n \in 1..M : g[n] = IF n = 1 THEN visits[i].from ELSE ParentId(visits, g[n - 1])
  <2> SUFFICES ASSUME NEW n \in 1..M
               PROVE  g[n] = IF n = 1 THEN visits[i].from ELSE ParentId(visits, g[n - 1])
    OBVIOUS
  <2> HIDE DEF g
  <2>1. g[n] = D(g)[n]
    BY <1>2
  <2> QED  BY <2>1
<1>4. WayBack(visits, i) = g
  BY DEF WayBack, M
<1> HIDE DEF g
<1> DEFINE Good == {n \in 0..M : n = 0 \/ g[n] = w[n - 1]}
<1>5. \A n \in 1..M : n - 1 \in Good => n \in Good
  <2> SUFFICES ASSUME NEW n \in 1..M, n - 1 \in Good PROVE g[n] = w[n - 1]
    OBVIOUS
  <2>1. CASE n = 1
    BY <1>3, <2>1 DEF IsWay
  <2>2. CASE n # 1
    <3>1. g[n - 1] = w[(n - 1) - 1] /\ n - 1 \in 1..N
      BY <1>0, <2>2 DEF M
    <3>2. w[n - 1] = ParentId(visits, w[(n - 1) - 1])
      BY <3>1 DEF IsWay
    <3> QED  BY <1>3, <2>2, <3>1, <3>2
  <2> QED  BY <2>1, <2>2
<1>6. \A n \in 0..M : n \in Good
  <2>1. 0 \in Good
    BY <1>0
  <2> HIDE DEF Good
  <2> QED  BY <1>0, <1>5, <2>1, CountingUp
<1> QED  BY <1>4, <1>6 DEF M

\* The ids that lead to a visit, step by step.
LEMMA GrownIs ==
    ASSUME IsList(visits), NEW i
    PROVE  \E g : /\ g[0] = {visits[i].from} \cap (Ids(visits) \ {0})
                  /\ \A n \in 1..Len(visits) :
                        g[n] = g[n - 1] \cup ({ParentId(visits, id) : id \in g[n - 1]}
                                                  \cap (Ids(visits) \ {0}))
                  /\ LeadTo(i) = g[Len(visits)]
<1> DEFINE N == Len(visits)
           known == Ids(visits) \ {0}
           b == {visits[i].from} \cap known
           Step(x) == x \cup ({ParentId(visits, id) : id \in x} \cap known)
           V == SUBSET known
           G == [n \in 1..N |-> [x \in V |-> Step(x)]]
           D(f) == [n \in 0..N |-> IF n = 0 THEN b ELSE Step(f[n - 1])]
           g == CHOOSE f : f = D(f)
<1>1. N \in Nat
  BY ListIs
<1>2. b \in V /\ \A x \in V : Step(x) \in V
  OBVIOUS
<1> HIDE DEF V, b, Step, N
<1>3. AreSteps(G, N, V)
  BY <1>2 DEF AreSteps
<1>4. PICK f : f \in [0..N -> V] /\ f[0] = b /\ \A n \in 1..N : f[n] = G[n][f[n - 1]]
  <2> HIDE DEF G
  <2>1. \E f : IsBuilt(f, b, G, N, V)
    BY <1>1, <1>2, <1>3, BuiltUp
  <2> QED  BY <2>1 DEF IsBuilt
<1>5. f = D(f)
  <2>1. ASSUME NEW n \in 0..N PROVE f[n] = IF n = 0 THEN b ELSE Step(f[n - 1])
    <3>1. CASE n = 0
      BY <1>4, <3>1
    <3>2. CASE n # 0
      <4>1. n \in 1..N /\ n - 1 \in 0..N
        BY <1>1, <3>2
      <4>2. f[n - 1] \in V /\ f[n] = G[n][f[n - 1]]
        BY <1>4, <4>1
      <4> QED  BY <3>2, <4>1, <4>2
    <3> QED  BY <3>1, <3>2
  <2>2. f = [n \in 0..N |-> f[n]]
    BY <1>4
  <2>3. D(f) = [n \in 0..N |-> f[n]]
    BY <2>1
  <2> QED  BY <2>2, <2>3
<1>6. g = D(g)
  <2> HIDE DEF D
  <2> QED  BY <1>5
<1>7. \A n \in 0..N : g[n] = IF n = 0 THEN b ELSE Step(g[n - 1])
  <2> SUFFICES ASSUME NEW n \in 0..N PROVE g[n] = IF n = 0 THEN b ELSE Step(g[n - 1])
    OBVIOUS
  <2> HIDE DEF g
  <2>1. g[n] = D(g)[n]
    BY <1>6
  <2> QED  BY <2>1
<1>8. LeadTo(i) = g[N]
  BY DEF LeadTo, N, b, Step
<1> HIDE DEF g
<1>9. g[0] = b /\ \A n \in 1..N : g[n] = Step(g[n - 1])
  BY <1>1, <1>7
<1>10. g[0] = {visits[i].from} \cap known
  BY <1>9 DEF b
<1>11. \A n \in 1..N : g[n] = g[n - 1] \cup ({ParentId(visits, id) : id \in g[n - 1]} \cap known)
  BY <1>9 DEF Step
<1> QED  BY <1>8, <1>10, <1>11 DEF N

\* The ids are no more than the visits.
LEMMA IdsBounded ==
    ASSUME IsList(visits)
    PROVE  IsFiniteSet(Ids(visits) \ {0}) /\ Cardinality(Ids(visits) \ {0}) <= Len(visits)
<1>1. PICK L \in Nat : L = Len(visits) /\ DOMAIN visits = 1..L
  BY ListIs
<1> DEFINE f == [k \in 1..L |-> visits[k].id]
<1>2. f \in Surjection(1..L, Ids(visits))
  BY <1>1 DEF Surjection, Ids
<1>3. IsFiniteSet(1..L) /\ Cardinality(1..L) = L
  BY FS_Interval
<1>4. IsFiniteSet(Ids(visits)) /\ Cardinality(Ids(visits)) <= L
  <2> HIDE DEF f
  <2> QED  BY <1>2, <1>3, FS_Surjection
<1>5. Ids(visits) \ {0} \in SUBSET Ids(visits)
  OBVIOUS
<1>6. /\ IsFiniteSet(Ids(visits) \ {0})
      /\ Cardinality(Ids(visits) \ {0}) <= Cardinality(Ids(visits))
  BY <1>4, <1>5, FS_Subset
<1>7. Cardinality(Ids(visits)) \in Nat /\ Cardinality(Ids(visits) \ {0}) \in Nat
  BY <1>4, <1>6, FS_CardinalityType
<1> QED  BY <1>1, <1>4, <1>6, <1>7

\* A finite set of numbers that is a beginning is counted by its end.
LEMMA CountedTo ==
    ASSUME NEW d \in Nat, NEW M \in Nat
    PROVE  Cardinality({n \in 1..M : n - 1 < d}) = IF d < M THEN d ELSE M
<1>1. CASE d < M
  <2>1. {n \in 1..M : n - 1 < d} = 1..d
    BY <1>1
  <2>2. Cardinality(1..d) = d
    BY FS_Interval
  <2> QED  BY <1>1, <2>1, <2>2
<1>2. CASE ~(d < M)
  <2>1. {n \in 1..M : n - 1 < d} = 1..M
    BY <1>2
  <2>2. Cardinality(1..M) = M
    BY FS_Interval
  <2> QED  BY <1>2, <2>1, <2>2
<1> QED  BY <1>1, <1>2

\* Where a way leaves the ids or closes, there is nothing left to be met.
IsFresh(w, n) == w[n] \in Ids(visits) \ {0} /\ \A k \in 0..(n - 1) : w[k] # w[n]
IsEnd(w, d) == ~IsFresh(w, d) /\ \A n \in 0..(d - 1) : IsFresh(w, n)

LEMMA WayEnds ==
    ASSUME IsList(visits), NEW w
    PROVE  \E d \in 0..Len(visits) :
              /\ IsEnd(w, d)
              /\ Cardinality({w[n] : n \in 0..(d - 1)}) = d
<1>1. PICK L \in Nat : L = Len(visits)
  BY ListIs
<1> DEFINE K == Ids(visits) \ {0}
<1>2. IsFiniteSet(K) /\ Cardinality(K) <= L /\ Cardinality(K) \in Nat
  BY <1>1, IdsBounded, FS_CardinalityType
<1>3. \E n \in 0..L : ~IsFresh(w, n)
  <2> SUFFICES ASSUME \A n \in 0..L : IsFresh(w, n) PROVE FALSE
    OBVIOUS
  <2> DEFINE f == [n \in 0..L |-> w[n]]
  <2>1. f \in [0..L -> K] /\ \A m, n \in 0..L : m # n => f[m] # f[n]
    <3>1. \A n \in 0..L : w[n] \in K
      BY DEF IsFresh
    <3>2. \A m, n \in 0..L : m < n => w[m] # w[n]
      BY DEF IsFresh
    <3>3. \A m, n \in 0..L : m # n => m < n \/ n < m
      OBVIOUS
    <3> HIDE DEF K
    <3> QED  BY <3>1, <3>2, <3>3
  <2>2. IsFiniteSet(0..L) /\ Cardinality(0..L) = L + 1
    BY FS_Interval
  <2>3. Cardinality(K) < Cardinality(0..L)
    BY <1>2, <2>2
  <2> HIDE DEF f, K
  <2> QED  BY <1>2, <2>1, <2>2, <2>3, FS_PigeonHole
<1> DEFINE T == {n \in 0..L : ~IsFresh(w, n)}
<1>4. T \in SUBSET Nat /\ T # {}
  BY <1>3
<1>5. PICK d \in T : \A n \in T : d <= n
  <2> HIDE DEF T
  <2> QED  BY <1>4, LeastNat
<1>6. d \in 0..L /\ IsEnd(w, d)
  <2>1. \A n \in 0..(d - 1) : n \in 0..L /\ ~(d <= n)
    BY <1>5
  <2> QED  BY <1>5, <2>1 DEF IsEnd
<1>7. Cardinality({w[n] : n \in 0..(d - 1)}) = d
  <2> DEFINE S == {w[n] : n \in 0..(d - 1)}
             f == [n \in 0..(d - 1) |-> w[n]]
  <2>1. \A n \in 0..(d - 1) : \A k \in 0..(n - 1) : w[k] # w[n]
    BY <1>6 DEF IsEnd, IsFresh
  <2>2. \A m, n \in 0..(d - 1) : w[m] = w[n] => m = n
    <3>1. \A m, n \in 0..(d - 1) : m # n => m \in 0..(n - 1) \/ n \in 0..(m - 1)
      BY <1>6
    <3> QED  BY <2>1, <3>1
  <2>3. f \in Bijection(0..(d - 1), S)
    <3>1. f \in Injection(0..(d - 1), S)
      BY <2>2 DEF Injection, IsInjective
    <3>2. f \in Surjection(0..(d - 1), S)
      BY DEF Surjection
    <3> QED  BY <3>1, <3>2 DEF Bijection
  <2>4. IsFiniteSet(0..(d - 1)) /\ Cardinality(0..(d - 1)) = d
    <3>1. d \in Nat /\ d - 1 \in Int
      BY <1>6
    <3> QED  BY <3>1, FS_Interval
  <2> HIDE DEF f, S
  <2>5. Cardinality(S) = d
    BY <2>3, <2>4, FS_Bijection DEF ExistsBijection
  <2> QED  BY <2>5 DEF S
<1> QED  BY <1>1, <1>6, <1>7

\* What the walk passes, cut at the depth.
LEMMA DepthIs ==
    ASSUME NEW i, NEW N \in Nat, NEW w, IsWay(w, i, N), MaxChainDepth <= N,
           NEW d \in Nat, IsEnd(w, d)
    PROVE  NavDepth(visits, i) = IF d < MaxChainDepth THEN d ELSE MaxChainDepth
<1> DEFINE M == MaxChainDepth
           way == WayBack(visits, i)
           Passed(m) == /\ way[m] \in Ids(visits) \ {0}
                        /\ \A k \in 1..(m - 1) : way[k] # way[m]
           S == {n \in 1..M : \A m \in 1..n : Passed(m)}
<1>0. M \in Nat
  BY ChainAssumption
<1>1. \A n \in 1..M : way[n] = w[n - 1]
  BY WayIs
<1>2. NavDepth(visits, i) = Cardinality(S)
  BY DEF NavDepth
<1> HIDE DEF way, M
<1>3. ASSUME NEW m \in 1..M PROVE Passed(m) <=> IsFresh(w, m - 1)
  <2>1. way[m] = w[m - 1]
    BY <1>1
  <2>2. \A k \in 1..(m - 1) : way[k] = w[k - 1] /\ k - 1 \in 0..(m - 1 - 1)
    BY <1>0, <1>1
  <2>3. \A k \in 0..(m - 1 - 1) : k + 1 \in 1..(m - 1) /\ (k + 1) - 1 = k
    BY <1>0
  <2> QED  BY <2>1, <2>2, <2>3 DEF IsFresh
<1>4. ASSUME NEW n \in 1..M PROVE (\A m \in 1..n : Passed(m)) <=> n - 1 < d
  <2> HIDE DEF Passed
  <2>1. ASSUME n - 1 < d PROVE \A m \in 1..n : Passed(m)
    <3>1. \A m \in 1..n : m \in 1..M /\ m - 1 \in 0..(d - 1)
      BY <1>0, <2>1
    <3> QED  BY <1>3, <3>1 DEF IsEnd
  <2>2. ASSUME \A m \in 1..n : Passed(m), ~(n - 1 < d) PROVE FALSE
    <3>1. d + 1 \in 1..n /\ d + 1 \in 1..M /\ (d + 1) - 1 = d
      BY <1>0, <2>2
    <3> QED  BY <1>3, <2>2, <3>1 DEF IsEnd
  <2> QED  BY <2>1, <2>2
<1> HIDE DEF Passed
<1>5. S = {n \in 1..M : n - 1 < d}
  BY <1>4
<1> QED  BY <1>0, <1>2, <1>5, CountedTo DEF M

\* What leads to a visit is what its way meets before it ends.
LEMMA LeadToIs ==
    ASSUME IsList(visits), NEW i, NEW w, NEW N \in Nat, IsWay(w, i, N), Len(visits) <= N,
           NEW d \in 0..Len(visits), IsEnd(w, d)
    PROVE  LeadTo(i) = {w[n] : n \in 0..(d - 1)}
<1>1. PICK L \in Nat : L = Len(visits)
  BY ListIs
<1> DEFINE K == Ids(visits) \ {0}
           Met(n) == {w[m] : m \in {k \in 0..(d - 1) : k <= n}}
<1>2. PICK g : /\ g[0] = {visits[i].from} \cap K
               /\ \A n \in 1..L : g[n] = g[n - 1] \cup ({ParentId(visits, id) : id \in g[n - 1]} \cap K)
               /\ LeadTo(i) = g[L]
  BY <1>1, GrownIs
<1>3. /\ w[0] = visits[i].from
      /\ \A n \in 1..N : w[n] = ParentId(visits, w[n - 1])
      /\ \A n \in 0..(d - 1) : w[n] \in K
      /\ w[d] \in K => \E k \in 0..(d - 1) : w[k] = w[d]
  BY DEF IsWay, IsEnd, IsFresh
<1> HIDE DEF K
<1> DEFINE Good == {n \in 0..L : g[n] = Met(n)}
<1>4. 0 \in Good
  <2>1. CASE d = 0
    <3>1. w[0] \notin K /\ 0..(d - 1) = {}
      BY <1>3, <2>1
    <3> QED  BY <1>1, <1>2, <1>3, <3>1
  <2>2. CASE d # 0
    <3>1. 0 \in 0..(d - 1) /\ \A k \in 0..(d - 1) : k <= 0 <=> k = 0
      BY <1>1, <2>2
    <3>2. Met(0) = {w[0]} /\ w[0] \in K
      BY <1>3, <3>1
    <3>3. g[0] = Met(0)
      <4> HIDE DEF Met
      <4> QED  BY <1>2, <1>3, <3>2
    <3> QED  BY <1>1, <3>3
  <2> QED  BY <2>1, <2>2
<1>5. ASSUME NEW n \in 1..L, g[n - 1] = Met(n - 1) PROVE g[n] = Met(n)
  <2>1. ASSUME NEW x \in g[n] PROVE x \in Met(n)
    <3>1. CASE x \in Met(n - 1)
      BY <1>1, <3>1
    <3>2. CASE x \notin Met(n - 1)
      <4>1. PICK m \in 0..(d - 1) : m <= n - 1 /\ x = ParentId(visits, w[m]) /\ x \in K
        <5>1. x \in K /\ \E id \in Met(n - 1) : x = ParentId(visits, id)
          <6> HIDE DEF Met
          <6> QED  BY <1>2, <1>5, <2>1, <3>2
        <5> QED  BY <5>1
      <4>2. m + 1 \in 1..N /\ (m + 1) - 1 = m
        BY <1>1, <4>1
      <4>3. x = w[m + 1]
        BY <1>3, <4>1, <4>2
      <4>4. CASE m + 1 \in 0..(d - 1)
        BY <1>1, <4>1, <4>3, <4>4
      <4>5. CASE m + 1 \notin 0..(d - 1)
        <5>1. m + 1 = d
          BY <1>1, <4>1, <4>5
        <5>2. PICK k \in 0..(d - 1) : w[k] = x
          BY <1>3, <4>1, <4>3, <5>1
        <5>3. k <= n
          BY <1>1, <4>1, <5>1
        <5> QED  BY <5>2, <5>3
      <4> QED  BY <4>4, <4>5
    <3> QED  BY <3>1, <3>2
  <2>2. ASSUME NEW x \in Met(n) PROVE x \in g[n]
    <3>1. PICK m \in 0..(d - 1) : m <= n /\ x = w[m]
      OBVIOUS
    <3>2. CASE m <= n - 1
      <4>1. x \in g[n - 1]
        BY <1>5, <3>1, <3>2
      <4> HIDE DEF Met
      <4> QED  BY <1>2, <4>1
    <3>3. CASE ~(m <= n - 1)
      <4>1. m = n /\ n \in 1..N /\ n - 1 \in 0..(d - 1) /\ n - 1 <= n - 1
        BY <1>1, <3>1, <3>3
      <4>2. w[n - 1] \in g[n - 1] /\ x = ParentId(visits, w[n - 1]) /\ x \in K
        BY <1>3, <1>5, <3>1, <4>1
      <4> HIDE DEF Met
      <4> QED  BY <1>2, <4>2
    <3> QED  BY <3>2, <3>3
  <2> HIDE DEF Met
  <2> QED  BY <2>1, <2>2
<1>6. L \in Good
  <2>1. \A n \in 1..L : n - 1 \in Good => n \in Good
    <3> SUFFICES ASSUME NEW n \in 1..L, n - 1 \in Good PROVE n \in Good
      OBVIOUS
    <3>1. g[n - 1] = Met(n - 1)
      OBVIOUS
    <3>2. g[n] = Met(n)
      BY <1>5, <3>1
    <3> QED  BY <1>1, <3>2
  <2> HIDE DEF Good
  <2>2. \A n \in 0..L : n \in Good
    BY <1>1, <1>4, <2>1, CountingUp
  <2> QED  BY <1>1, <2>2
<1>7. Met(L) = {w[n] : n \in 0..(d - 1)}
  BY <1>1
<1> QED  BY <1>2, <1>6, <1>7

LEMMA DepthsAre ==
    ASSUME IsList(visits), NEW i
    PROVE  NavDepth(visits, i) = LET n == Cardinality(LeadTo(i))
                                 IN  IF n < MaxChainDepth THEN n ELSE MaxChainDepth
<1>1. PICK N \in Nat : MaxChainDepth <= N /\ Len(visits) <= N
  <2>1. MaxChainDepth \in Nat /\ Len(visits) \in Nat
    BY ListIs, ChainAssumption
  <2> QED  BY <2>1
<1>2. PICK w : IsWay(w, i, N)
  BY WayExists
<1>3. PICK d \in 0..Len(visits) : IsEnd(w, d) /\ Cardinality({w[n] : n \in 0..(d - 1)}) = d
  BY WayEnds
<1>4. d \in Nat
  OBVIOUS
<1>5. NavDepth(visits, i) = IF d < MaxChainDepth THEN d ELSE MaxChainDepth
  BY <1>1, <1>2, <1>3, <1>4, DepthIs
<1>6. LeadTo(i) = {w[n] : n \in 0..(d - 1)}
  BY <1>1, <1>2, <1>3, LeadToIs
<1>7. Cardinality(LeadTo(i)) = d
  BY <1>3, <1>6
<1> QED  BY <1>5, <1>7

-----------------------------------------------------------------------------
(* Redirect chains. *)

\* A run of redirects, each from the one before, none twice.
IsRunOf(c) ==
    /\ c \in Seq(DOMAIN visits) /\ Len(c) >= 1
    /\ \A n \in DOMAIN c : visits[c[n]].redirect
    /\ \A n \in 2..Len(c) : visits[c[n]].from = visits[c[n - 1]].id
    /\ \A m, n \in DOMAIN c : c[m] = c[n] => m = n

LEMMA FirstIs ==
    ASSUME IsList(visits), NEW S \in SUBSET DOMAIN visits, S # {}
    PROVE  First(S) \in S
<1>1. S \in SUBSET Nat
  BY ListIs
<1>2. \E i \in S : \A j \in S : i <= j
  BY <1>1, LeastNat
<1> QED  BY <1>2 DEF First

\* A run goes on with a redirect from its last visit that is not yet on it.
LEMMA RunGoesOn ==
    ASSUME IsList(visits), NEW c, IsRunOf(c), NEW kids,
           kids = RedirectChildren(visits, c[Len(c)]) \ {c[m] : m \in DOMAIN c}, kids # {}
    PROVE  IsRunOf(Append(c, First(kids))) /\ Append(c, First(kids))[1] = c[1]
<1> DEFINE x == First(kids)
           e == Append(c, x)
<1>1. kids \in SUBSET DOMAIN visits
  BY DEF RedirectChildren
<1>2. x \in kids
  BY <1>1, FirstIs
<1> HIDE DEF x
<1>3. /\ x \in DOMAIN visits /\ visits[x].redirect /\ visits[x].from = visits[c[Len(c)]].id
      /\ \A m \in DOMAIN c : c[m] # x
  BY <1>2 DEF RedirectChildren
<1>4. PICK L \in Nat : L = Len(c) /\ L >= 1 /\ DOMAIN c = 1..L
  BY DEF IsRunOf
<1>5. /\ e \in Seq(DOMAIN visits) /\ Len(e) = L + 1 /\ DOMAIN e = 1..(L + 1)
      /\ \A m \in 1..L : e[m] = c[m]
      /\ e[L + 1] = x
  <2>1. c \in Seq(DOMAIN visits)
    BY DEF IsRunOf
  <2> QED  BY <1>3, <1>4, <2>1
<1> HIDE DEF e
<1>6. \A n \in 1..(L + 1) : n \in 1..L \/ n = L + 1
  BY <1>4
<1>7. \A n \in DOMAIN e : visits[e[n]].redirect
  BY <1>3, <1>4, <1>5, <1>6 DEF IsRunOf
<1>8. ASSUME NEW n \in 2..Len(e) PROVE visits[e[n]].from = visits[e[n - 1]].id
  <2>1. CASE n = L + 1
    <3>1. n - 1 = L /\ L \in 1..L
      BY <1>4, <2>1
    <3> QED  BY <1>3, <1>4, <1>5, <2>1, <3>1
  <2>2. CASE n # L + 1
    <3>1. n \in 2..L /\ n \in 1..L /\ n - 1 \in 1..L
      BY <1>4, <1>5, <2>2
    <3> QED  BY <1>4, <1>5, <3>1 DEF IsRunOf
  <2> QED  BY <2>1, <2>2
<1>9. \A m, n \in DOMAIN e : e[m] = e[n] => m = n
  BY <1>3, <1>4, <1>5, <1>6 DEF IsRunOf
<1>10. Len(e) >= 1 /\ e[1] = c[1]
  BY <1>4, <1>5
<1> QED  BY <1>5, <1>7, <1>8, <1>9, <1>10 DEF IsRunOf, e, x

\* What the walk from a head gives is such a run, of that head.
LEMMA RunFromIs ==
    ASSUME IsList(visits), NEW head \in DOMAIN visits, visits[head].redirect
    PROVE  IsRunOf(RunFrom(visits, head)) /\ RunFrom(visits, head)[1] = head
<1> DEFINE M == MaxChainDepth
           b == <<head>>
           V == {c \in Seq(DOMAIN visits) : IsRunOf(c) /\ c[1] = head}
           Kids(c) == RedirectChildren(visits, c[Len(c)]) \ {c[m] : m \in DOMAIN c}
           Step(c) == IF Kids(c) = {} THEN c ELSE Append(c, First(Kids(c)))
           G == [n \in 1..M |-> [x \in V |-> IF n = 1 THEN b ELSE Step(x)]]
           D(f) == [n \in 1..M |-> IF n = 1 THEN b ELSE Step(f[n - 1])]
           g == CHOOSE f : f = D(f)
<1>0. M \in Nat \ {0}
  BY ChainAssumption
<1>1. b \in V
  <2>1. b \in Seq(DOMAIN visits) /\ Len(b) = 1 /\ DOMAIN b = 1..1 /\ b[1] = head
    OBVIOUS
  <2>2. \A n \in 2..Len(b) : FALSE
    BY <2>1
  <2>3. \A n \in DOMAIN b : n = 1
    BY <2>1
  <2> HIDE DEF b
  <2>4. IsRunOf(b)
    BY <2>1, <2>2, <2>3 DEF IsRunOf
  <2> QED  BY <2>1, <2>4
<1>2. \A c \in V : Step(c) \in V
  <2> SUFFICES ASSUME NEW c \in V PROVE Step(c) \in V
    OBVIOUS
  <2>1. CASE Kids(c) = {}
    BY <2>1
  <2>2. CASE Kids(c) # {}
    <3>1. IsRunOf(Append(c, First(Kids(c)))) /\ Append(c, First(Kids(c)))[1] = c[1]
      BY <2>2, RunGoesOn
    <3>2. Append(c, First(Kids(c))) \in Seq(DOMAIN visits)
      BY <3>1 DEF IsRunOf
    <3> HIDE DEF Kids
    <3> QED  BY <2>2, <3>1, <3>2
  <2> QED  BY <2>1, <2>2
<1> HIDE DEF M, b, V, Step
<1>3. PICK f : f \in [0..M -> V] /\ f[0] = b /\ \A n \in 1..M : f[n] = G[n][f[n - 1]]
  <2>1. AreSteps(G, M, V)
    BY <1>1, <1>2 DEF AreSteps
  <2> HIDE DEF G
  <2>2. \E f : IsBuilt(f, b, G, M, V)
    BY <1>0, <1>1, <2>1, BuiltUp
  <2> QED  BY <2>2 DEF IsBuilt
<1> DEFINE h == [n \in 1..M |-> f[n]]
<1>4. h = D(h)
  <2>1. ASSUME NEW n \in 1..M PROVE h[n] = IF n = 1 THEN b ELSE Step(h[n - 1])
    <3>1. n - 1 \in 0..M
      BY <1>0
    <3>2. f[n - 1] \in V
      BY <1>3, <3>1
    <3>3. f[n] = IF n = 1 THEN b ELSE Step(f[n - 1])
      BY <1>3, <3>2
    <3>4. n # 1 => h[n - 1] = f[n - 1]
      BY <1>0
    <3> QED  BY <3>3, <3>4
  <2> HIDE DEF h
  <2>2. D(h) = [n \in 1..M |-> h[n]]
    BY <2>1
  <2>3. h = [n \in 1..M |-> h[n]]
    BY DEF h
  <2> QED  BY <2>2, <2>3
<1>5. g = D(g)
  <2> HIDE DEF D, h
  <2> QED  BY <1>4
<1>6. \A n \in 1..M : g[n] = IF n = 1 THEN b ELSE Step(g[n - 1])
  <2> SUFFICES ASSUME NEW n \in 1..M PROVE g[n] = IF n = 1 THEN b ELSE Step(g[n - 1])
    OBVIOUS
  <2> HIDE DEF g
  <2>1. g[n] = D(g)[n]
    BY <1>5
  <2> QED  BY <2>1
<1>7. RunFrom(visits, head) = g[M]
  BY DEF RunFrom, M, b, Step
<1> HIDE DEF g
<1> DEFINE Good == {n \in 0..M : n = 0 \/ g[n] \in V}
<1>8. M \in Good
  <2>1. 0 \in Good
    BY <1>0
  <2>2. \A n \in 1..M : n - 1 \in Good => n \in Good
    <3> SUFFICES ASSUME NEW n \in 1..M, n - 1 \in Good PROVE g[n] \in V
      BY <1>0
    <3>1. CASE n = 1
      BY <1>1, <1>6, <3>1
    <3>2. CASE n # 1
      BY <1>0, <1>2, <1>6, <3>2
    <3> QED  BY <3>1, <3>2
  <2> HIDE DEF Good
  <2>3. \A n \in 0..M : n \in Good
    BY <1>0, <2>1, <2>2, CountingUp
  <2> QED  BY <1>0, <2>3
<1> QED  BY <1>0, <1>7, <1>8 DEF V

\* Chains, of heads that are no redirect's and on no chain before.
AreChains(chains) ==
    /\ chains \in Seq(Seq(DOMAIN visits))
    /\ \A a \in DOMAIN chains :
          /\ IsRunOf(chains[a])
          /\ \/ RedirectParent(visits, chains[a][1]) = 0
             \/ ~visits[RedirectParent(visits, chains[a][1])].redirect
    /\ \A a, b \in DOMAIN chains : a < b => \A m \in DOMAIN chains[a] : chains[a][m] # chains[b][1]

LEMMA OneMoreChain ==
    ASSUME NEW chains, AreChains(chains), NEW c, IsRunOf(c),
           \/ RedirectParent(visits, c[1]) = 0
           \/ ~visits[RedirectParent(visits, c[1])].redirect,
           \A a \in DOMAIN chains : \A m \in DOMAIN chains[a] : chains[a][m] # c[1]
    PROVE  AreChains(Append(chains, c))
<1> DEFINE e == Append(chains, c)
<1>1. chains \in Seq(Seq(DOMAIN visits)) /\ c \in Seq(DOMAIN visits)
  BY DEF AreChains, IsRunOf
<1>2. PICK L \in Nat : L = Len(chains) /\ DOMAIN chains = 1..L
  BY <1>1
<1>3. /\ e \in Seq(Seq(DOMAIN visits)) /\ DOMAIN e = 1..(L + 1)
      /\ \A a \in 1..L : e[a] = chains[a]
      /\ e[L + 1] = c
  <2> DEFINE T == Seq(DOMAIN visits)
  <2> HIDE DEF T
  <2>1. chains \in Seq(T) /\ c \in T
    BY <1>1 DEF T
  <2>2. e \in Seq(T) /\ DOMAIN e = 1..(L + 1) /\ (\A a \in 1..L : e[a] = chains[a]) /\ e[L + 1] = c
    BY <1>2, <2>1
  <2> QED  BY <2>2 DEF T
<1> HIDE DEF e
<1>4. \A a \in 1..(L + 1) : a \in 1..L \/ a = L + 1
  BY <1>2
<1>5. ASSUME NEW a \in DOMAIN e
      PROVE  /\ IsRunOf(e[a])
             /\ \/ RedirectParent(visits, e[a][1]) = 0
                \/ ~visits[RedirectParent(visits, e[a][1])].redirect
  BY <1>2, <1>3, <1>4 DEF AreChains
<1>6. ASSUME NEW a \in DOMAIN e, NEW b \in DOMAIN e, a < b, NEW m \in DOMAIN e[a]
      PROVE  e[a][m] # e[b][1]
  <2>1. a \in 1..L /\ e[a] = chains[a]
    BY <1>2, <1>3, <1>6
  <2>2. CASE b = L + 1
    BY <1>2, <1>3, <1>6, <2>1, <2>2
  <2>3. CASE b # L + 1
    <3>1. b \in 1..L /\ e[b] = chains[b]
      BY <1>3, <1>4, <2>3
    <3> QED  BY <1>2, <1>6, <2>1, <3>1 DEF AreChains
  <2> QED  BY <2>2, <2>3
<1>7. AreChains(e)
  BY <1>3, <1>5, <1>6 DEF AreChains
<1> QED  BY <1>7 DEF e

LEMMA ChainsAre ==
    ASSUME IsList(visits)
    PROVE  AreChains(RedirectChains(visits))
<1> DEFINE N == Len(visits)
           b == <<>>
           V == {x \in Seq(Seq(DOMAIN visits)) : AreChains(x)}
           Members(x) == UNION {{c[m] : m \in DOMAIN c} : c \in {x[n] : n \in DOMAIN x}}
           Heads(i, x) == /\ visits[i].redirect
                          /\ i \notin Members(x)
                          /\ \/ RedirectParent(visits, i) = 0
                             \/ ~visits[RedirectParent(visits, i)].redirect
           Step(n, x) == IF Heads(n, x) THEN Append(x, RunFrom(visits, n)) ELSE x
           G == [n \in 1..N |-> [x \in V |-> Step(n, x)]]
           D(f) == [n \in 0..N |-> IF n = 0 THEN b ELSE Step(n, f[n - 1])]
           g == CHOOSE f : f = D(f)
<1>1. N \in Nat /\ DOMAIN visits = 1..N
  BY ListIs
<1>2. b \in V
  <2>1. b \in Seq(Seq(DOMAIN visits)) /\ DOMAIN b = {}
    OBVIOUS
  <2> HIDE DEF b
  <2> QED  BY <2>1 DEF AreChains
<1>3. \A n \in 1..N : \A x \in V : Step(n, x) \in V
  <2> SUFFICES ASSUME NEW n \in 1..N, NEW x \in V PROVE Step(n, x) \in V
    OBVIOUS
  <2>1. CASE Heads(n, x)
    <3> DEFINE c == RunFrom(visits, n)
    <3>1. IsRunOf(c) /\ c[1] = n
      BY <1>1, <2>1, RunFromIs
    <3>2. ASSUME NEW a \in DOMAIN x, NEW m \in DOMAIN x[a] PROVE x[a][m] # n
      <4>1. x[a] \in {x[i] : i \in DOMAIN x}
        OBVIOUS
      <4>2. x[a][m] \in {x[a][i] : i \in DOMAIN x[a]}
        OBVIOUS
      <4>3. x[a][m] \in Members(x)
        BY <4>1, <4>2, Zenon
      <4> QED  BY <2>1, <4>3
    <3> HIDE DEF c
    <3>3. AreChains(Append(x, c))
      BY <2>1, <3>1, <3>2, OneMoreChain
    <3>4. Append(x, c) \in V
      BY <3>3 DEF AreChains
    <3> QED  BY <2>1, <3>4 DEF c
  <2>2. CASE ~Heads(n, x)
    <3> HIDE DEF Heads, V
    <3> QED  BY <2>2
  <2> QED  BY <2>1, <2>2
<1> HIDE DEF V, b, Step, N
<1>4. AreSteps(G, N, V)
  BY <1>3 DEF AreSteps
<1>5. PICK f : f \in [0..N -> V] /\ f[0] = b /\ \A n \in 1..N : f[n] = G[n][f[n - 1]]
  <2> HIDE DEF G
  <2>1. \E f : IsBuilt(f, b, G, N, V)
    BY <1>1, <1>2, <1>4, BuiltUp
  <2> QED  BY <2>1 DEF IsBuilt
<1>6. f = D(f)
  <2>1. ASSUME NEW n \in 0..N PROVE f[n] = IF n = 0 THEN b ELSE Step(n, f[n - 1])
    <3>1. CASE n = 0
      BY <1>5, <3>1
    <3>2. CASE n # 0
      <4>1. n \in 1..N /\ n - 1 \in 0..N
        BY <1>1, <3>2
      <4>2. f[n - 1] \in V /\ f[n] = G[n][f[n - 1]]
        BY <1>5, <4>1
      <4> QED  BY <3>2, <4>1, <4>2
    <3> QED  BY <3>1, <3>2
  <2>2. f = [n \in 0..N |-> f[n]]
    BY <1>5
  <2>3. D(f) = [n \in 0..N |-> f[n]]
    BY <2>1
  <2> QED  BY <2>2, <2>3
<1>7. g = D(g)
  <2> HIDE DEF D
  <2> QED  BY <1>6
<1>8. \A n \in 0..N : g[n] = IF n = 0 THEN b ELSE Step(n, g[n - 1])
  <2> SUFFICES ASSUME NEW n \in 0..N PROVE g[n] = IF n = 0 THEN b ELSE Step(n, g[n - 1])
    OBVIOUS
  <2> HIDE DEF g
  <2>1. g[n] = D(g)[n]
    BY <1>7
  <2> QED  BY <2>1
<1>9. RedirectChains(visits) = g[N]
  BY DEF RedirectChains, N, b, Step
<1> HIDE DEF g
<1> DEFINE Good == {n \in 0..N : g[n] \in V}
<1>10. 0 \in Good
  BY <1>1, <1>2, <1>8
<1>11. \A n \in 1..N : n - 1 \in Good => n \in Good
  <2> SUFFICES ASSUME NEW n \in 1..N, n - 1 \in Good PROVE n \in Good
    OBVIOUS
  <2>1. n \in 0..N /\ n # 0 /\ g[n - 1] \in V
    BY <1>1
  <2> QED  BY <1>3, <1>8, <2>1
<1>12. N \in Good
  <2> HIDE DEF Good
  <2>1. \A n \in 0..N : n \in Good
    BY <1>1, <1>10, <1>11, CountingUp
  <2> QED  BY <1>1, <2>1
<1> QED  BY <1>9, <1>12 DEF V

\* As many ids as visits: none twice.
LEMMA IdsDistinct ==
    ASSUME IsList(visits), Cardinality(Ids(visits)) = Len(visits)
    PROVE  \A i, j \in DOMAIN visits : visits[i].id = visits[j].id => i = j
<1>1. PICK L \in Nat : L = Len(visits) /\ DOMAIN visits = 1..L
  BY ListIs
<1> DEFINE f == [k \in 1..L |-> visits[k].id]
<1>2. f \in Surjection(1..L, Ids(visits))
  BY <1>1 DEF Surjection, Ids
<1>3. IsFiniteSet(1..L) /\ Cardinality(1..L) = L
  BY FS_Interval
<1>4. f \in Injection(1..L, Ids(visits))
  <2> HIDE DEF f
  <2> QED  BY <1>1, <1>2, <1>3, FS_Surjection
<1> QED  BY <1>1, <1>4 DEF Injection, IsInjective

\* What is on a run and not its head comes from a redirect; so no other run begins with it.
LEMMA NoOtherHead ==
    ASSUME IsList(visits), \A i, j \in DOMAIN visits : visits[i].id = visits[j].id => i = j,
           NEW c, IsRunOf(c), NEW n \in DOMAIN c, n # 1
    PROVE  /\ n - 1 \in DOMAIN c /\ n \in 2..Len(c)
           /\ RedirectParent(visits, c[n]) = c[n - 1]
           /\ c[n - 1] # 0 /\ visits[c[n - 1]].redirect
<1>1. PICK L \in Nat : L = Len(c) /\ DOMAIN c = 1..L
  BY DEF IsRunOf
<1>2. n - 1 \in DOMAIN c /\ n \in 2..Len(c)
  BY <1>1
<1>3. /\ c[n - 1] \in DOMAIN visits /\ visits[c[n]].from = visits[c[n - 1]].id
      /\ visits[c[n - 1]].redirect
  <2>1. c \in Seq(DOMAIN visits)
    BY DEF IsRunOf
  <2> QED  BY <1>2, <2>1 DEF IsRunOf
<1>4. PICK K \in Nat : DOMAIN visits = 1..K
  BY ListIs
<1>5. FirstWithId(visits, visits[c[n]].from) = c[n - 1]
  <2> DEFINE P(i) == /\ visits[i].id = visits[c[n]].from
                     /\ \A j \in DOMAIN visits : visits[j].id = visits[c[n]].from => i <= j
  <2>1. P(c[n - 1])
    BY <1>3, <1>4
  <2>2. \A i \in DOMAIN visits : P(i) => i = c[n - 1]
    BY <1>3
  <2> HIDE DEF P
  <2>3. (CHOOSE i \in DOMAIN visits : P(i)) = c[n - 1]
    BY <1>3, <2>1, <2>2
  <2> QED  BY <2>3 DEF FirstWithId, P
<1>6. visits[c[n]].from \in Ids(visits)
  BY <1>3 DEF Ids
<1> QED  BY <1>2, <1>3, <1>4, <1>5, <1>6 DEF RedirectParent

LEMMA RunsApart ==
    ASSUME IsList(visits), \A i, j \in DOMAIN visits : visits[i].id = visits[j].id => i = j,
           NEW chains, AreChains(chains), NEW c \in DOMAIN chains, NEW d \in DOMAIN chains
    PROVE  \A m \in DOMAIN chains[d] : \A n \in DOMAIN chains[c] :
              chains[d][m] = chains[c][n] => d = c /\ m = n
<1> DEFINE x == chains[c]
           y == chains[d]
<1>0. IsRunOf(x) /\ IsRunOf(y)
  BY DEF AreChains
<1>1. /\ RedirectParent(visits, x[1]) = 0 \/ ~visits[RedirectParent(visits, x[1])].redirect
      /\ RedirectParent(visits, y[1]) = 0 \/ ~visits[RedirectParent(visits, y[1])].redirect
  BY DEF AreChains
<1>2. PICK K \in Nat : K = Len(x) /\ DOMAIN x = 1..K /\ K >= 1
  BY <1>0 DEF IsRunOf
<1>3. PICK L \in Nat : L = Len(y) /\ DOMAIN y = 1..L /\ L >= 1
  BY <1>0 DEF IsRunOf
<1>4. c \in Nat /\ d \in Nat
  BY DEF AreChains
<1>5. y[1] = x[1] => d = c
  <2>1. d < c => \A m \in DOMAIN y : y[m] # x[1]
    BY DEF AreChains
  <2>2. c < d => \A m \in DOMAIN x : x[m] # y[1]
    BY DEF AreChains
  <2> QED  BY <1>2, <1>3, <1>4, <2>1, <2>2
<1>6. \A n \in 1..K : n # 1 => /\ n - 1 \in 1..K
                               /\ RedirectParent(visits, x[n]) = x[n - 1]
                               /\ x[n - 1] # 0 /\ visits[x[n - 1]].redirect
  BY <1>0, <1>2, NoOtherHead
<1>7. \A n \in 1..L : n # 1 => /\ n - 1 \in 1..L
                               /\ RedirectParent(visits, y[n]) = y[n - 1]
                               /\ y[n - 1] # 0 /\ visits[y[n - 1]].redirect
  BY <1>0, <1>3, NoOtherHead
<1> HIDE DEF x, y
<1> DEFINE Apart(m) == \A n \in 1..K : y[m] = x[n] => d = c /\ m = n
           Good == {m \in 0..L : m = 0 \/ Apart(m)}
<1>8. \A m \in 1..L : m - 1 \in Good => m \in Good
  <2> SUFFICES ASSUME NEW m \in 1..L, m - 1 \in Good, NEW n \in 1..K, y[m] = x[n]
               PROVE  d = c /\ m = n
    OBVIOUS
  <2>1. CASE m = 1 /\ n = 1
    BY <1>5, <2>1
  <2>2. CASE m = 1 /\ n # 1
    BY <1>1, <1>6, <2>2
  <2>3. CASE m # 1 /\ n = 1
    BY <1>1, <1>7, <2>3
  <2>4. CASE m # 1 /\ n # 1
    <3>1. y[m - 1] = x[n - 1] /\ n - 1 \in 1..K /\ m - 1 \in 1..L
      BY <1>6, <1>7, <2>4
    <3>2. Apart(m - 1)
      BY <3>1
    <3> QED  BY <3>1, <3>2
  <2> QED  BY <2>1, <2>2, <2>3, <2>4
<1>9. \A m \in 0..L : m \in Good
  <2>1. 0 \in Good
    OBVIOUS
  <2> HIDE DEF Good
  <2> QED  BY <1>8, <2>1, CountingUp
<1> QED  BY <1>2, <1>3, <1>9 DEF x, y

-----------------------------------------------------------------------------
(* A run of it. *)

ChainsInv ==
    \/ rebuilt = NothingRebuilt
    \/ IsList(visits) /\ rebuilt = EnrichVisits(visits)

LEMMA ChainsInitSound == ChainsInit => ChainsInv
BY DEF ChainsInit, ChainsInv

LEMMA ChainsStepSound == ChainsInv /\ [ReconstructHistory]_chainVars => ChainsInv'
<1> SUFFICES ASSUME ChainsInv, [ReconstructHistory]_chainVars PROVE ChainsInv'
  OBVIOUS
<1>1. CASE ReconstructHistory
  <2>1. visits' \in VisitLists /\ rebuilt' = EnrichVisits(visits')
    BY <1>1 DEF ReconstructHistory
  <2>2. IsList(visits')
    BY <2>1, VisitListsAssumption, SeqIsList
  <2> QED  BY <2>1, <2>2 DEF ChainsInv
<1>2. CASE UNCHANGED chainVars
  BY <1>2 DEF chainVars, ChainsInv
<1> QED  BY <1>1, <1>2

LEMMA ChainsInvImplies == ChainsInv => ChainsFollowTheReferrers
<1> SUFFICES ASSUME ChainsInv PROVE ChainsFollowTheReferrers
  OBVIOUS
<1>1. CASE rebuilt = NothingRebuilt
  <2>1. DOMAIN rebuilt.depth = {} /\ DOMAIN rebuilt.chains = {}
    BY <1>1 DEF NothingRebuilt
  <2> QED  BY <2>1 DEF ChainsFollowTheReferrers, DepthCountsAncestors, ChainsAreLinkedAndDisjoint
<1>2. CASE IsList(visits) /\ rebuilt = EnrichVisits(visits)
  <2>1. DepthCountsAncestors
    <3>1. \A i \in DOMAIN rebuilt.depth : rebuilt.depth[i] = NavDepth(visits, i)
      BY <1>2 DEF EnrichVisits
    <3> QED  BY <1>2, <3>1, DepthsAre DEF DepthCountsAncestors
  <2>2. rebuilt.chains = RedirectChains(visits)
    BY <1>2 DEF EnrichVisits
  <2> DEFINE chains == RedirectChains(visits)
  <2>3. AreChains(chains)
    BY <1>2, ChainsAre
  <2>4. Cardinality(Ids(visits)) = Len(visits) =>
           \A c, d \in DOMAIN chains : \A m \in DOMAIN chains[d] : \A n \in DOMAIN chains[c] :
              chains[d][m] = chains[c][n] => d = c /\ m = n
    <3> HIDE DEF chains
    <3> SUFFICES ASSUME Cardinality(Ids(visits)) = Len(visits), NEW c \in DOMAIN chains, NEW d \in DOMAIN chains
                 PROVE  \A m \in DOMAIN chains[d] : \A n \in DOMAIN chains[c] :
                           chains[d][m] = chains[c][n] => d = c /\ m = n
      OBVIOUS
    <3>1. \A i, j \in DOMAIN visits : visits[i].id = visits[j].id => i = j
      BY <1>2, IdsDistinct
    <3> QED  BY <1>2, <2>3, <3>1, RunsApart
  <2>5. ASSUME NEW c \in DOMAIN chains
        PROVE  /\ \A n \in DOMAIN chains[c] : visits[chains[c][n]].redirect
               /\ \A n \in 2..Len(chains[c]) : visits[chains[c][n]].from = visits[chains[c][n - 1]].id
               /\ Origin(visits, chains[c]) # 0 => ~visits[Origin(visits, chains[c])].redirect
    <3> HIDE DEF chains
    <3> QED  BY <2>3 DEF AreChains, IsRunOf, Origin
  <2> HIDE DEF chains
  <2>6. ChainsAreLinkedAndDisjoint
    <3>1. rebuilt.chains = chains
      BY <2>2 DEF chains
    <3> QED  BY <2>4, <2>5, <3>1 DEF ChainsAreLinkedAndDisjoint
  <2> QED  BY <2>1, <2>6 DEF ChainsFollowTheReferrers
<1> QED  BY <1>1, <1>2 DEF ChainsInv

\* For any list of visits, however corrupt its ids: a depth counts each visit that leads
\* there once, up to the cap, and a chain is of redirects each from the one before, from
\* a visit that is none, and on no other chain while ids are distinct (reconstruct.rs
\* 110-271).
THEOREM ChainsCorrect == ChainsSpec => []ChainsFollowTheReferrers
<1>1. ChainsSpec => []ChainsInv
  BY ChainsInitSound, ChainsStepSound, PTL DEF ChainsSpec
<1> QED  BY <1>1, ChainsInvImplies, PTL
=============================================================================
