---------------------------- MODULE StoreProofs -----------------------------
(***************************************************************************)
(* What is read of the stores that the browser rewrites while it runs: the *)
(* entries carved from a block file cache, the bodies that are decoded of  *)
(* cached responses, the items of local storage and IndexedDB, and the     *)
(* rows of the file that a parser is given, among them bookmarks that only *)
(* a backup holds.  Each theorem rests on an inductive invariant that ties *)
(* what is left to what was written: CacheInv, BodiesInv, StorageInv,      *)
(* FileInv.                                                                *)
(***************************************************************************)
EXTENDS CacheCarve, CachedBodies, WebStorage, Artifacts, OrderProofs, SequenceTheorems

-----------------------------------------------------------------------------
(* Chains. *)

\* The list c holds the chain that the hash table begins.
NextIn(c, i) == IF i \in DOMAIN c THEN c[i] ELSE NoAddr
IsChain(c) ==
    /\ c \in Seq(Blocks)
    /\ tableSlot = NextIn(c, 1)
    /\ \A i \in DOMAIN c : dataBlocks[c[i]].next = NextIn(c, i + 1)
    /\ \A i, j \in DOMAIN c : c[i] = c[j] => i = j

LEMMA ChainFits ==
    ASSUME NEW c, IsChain(c)
    PROVE  Len(c) \in Nat /\ Cardinality(Blocks) \in Nat /\ Len(c) <= Cardinality(Blocks)
<1> DEFINE n == Len(c)
<1>0. c \in Seq(Blocks)
  BY DEF IsChain
<1>1. n \in Nat /\ c \in [1..n -> Blocks]
  BY <1>0
<1>2. c \in Injection(1..n, Blocks)
  BY <1>1 DEF Injection, IsInjective, IsChain
<1>3. Cardinality(1..n) = n
  BY <1>1, FS_Interval
<1>4. Cardinality(Blocks) \in Nat
  BY BlocksAssumption, FS_CardinalityType
<1>5. Cardinality(1..n) <= Cardinality(Blocks)
  BY <1>2, BlocksAssumption, FS_Injection
<1> QED  BY <1>1, <1>3, <1>4, <1>5

\* What the reader follows is all of the chain, and no more.
LEMMA ChainIs ==
    ASSUME NEW c, IsChain(c)
    PROVE  Chain = {c[i] : i \in DOMAIN c}
<1> DEFINE N == Cardinality(Blocks)
           D(f) == [n \in 0..N |->
                      IF n = 0 THEN {tableSlot} \ {NoAddr}
                      ELSE f[n - 1] \cup ({dataBlocks[b].next : b \in f[n - 1]} \ {NoAddr})]
           h == [n \in 0..N |-> {c[i] : i \in {j \in DOMAIN c : j <= n + 1}}]
           g == CHOOSE f : f = D(f)
<1>1. /\ N \in Nat /\ Len(c) \in Nat /\ Len(c) <= N /\ DOMAIN c = 1..Len(c)
      /\ \A i \in DOMAIN c : c[i] # NoAddr
  <2>1. c \in Seq(Blocks)
    BY DEF IsChain
  <2>2. \A i \in DOMAIN c : c[i] \in Blocks
    BY <2>1
  <2>3. DOMAIN c = 1..Len(c)
    BY <2>1
  <2> QED  BY <2>2, <2>3, ChainFits, BlocksAssumption
<1> HIDE DEF N
<1>2. \A n \in 0..N : h[n] = D(h)[n]
  <2> SUFFICES ASSUME NEW n \in 0..N PROVE h[n] = D(h)[n]
    OBVIOUS
  <2>1. CASE n = 0
    <3>1. h[0] = {tableSlot} \ {NoAddr}
      BY <1>1, <2>1 DEF IsChain, NextIn
    <3> QED  BY <2>1, <3>1
  <2>2. CASE n # 0
    <3> DEFINE J == {j \in DOMAIN c : j <= n}
               K == {j \in DOMAIN c : j <= n + 1}
    <3>1. n - 1 \in 0..N /\ h[n - 1] = {c[i] : i \in J}
      BY <1>1, <2>2
    <3>2. {dataBlocks[b].next : b \in h[n - 1]} = {NextIn(c, i + 1) : i \in J}
      BY <3>1 DEF IsChain
    <3>3. {NextIn(c, i + 1) : i \in J} \ {NoAddr} = {c[i] : i \in {j \in K : j # 1}}
      <4>1. \A i \in J : NextIn(c, i + 1) # NoAddr => i + 1 \in K /\ NextIn(c, i + 1) = c[i + 1]
        BY <1>1 DEF NextIn
      <4>2. \A i \in K : i # 1 => i - 1 \in J /\ NextIn(c, (i - 1) + 1) = c[i] /\ c[i] # NoAddr
        BY <1>1 DEF NextIn
      <4>3. \A i \in J : i + 1 # 1
        BY <1>1
      <4> HIDE DEF J, K
      <4> QED  BY <4>1, <4>2, <4>3
    <3>4. {c[i] : i \in J} \cup {c[i] : i \in {j \in K : j # 1}} = {c[i] : i \in K}
      <4>1. J \subseteq K /\ \A i \in K : i = 1 => i \in J
        BY <1>1, <2>2
      <4> HIDE DEF J, K
      <4> QED  BY <4>1
    <3>5. h[n] = {c[i] : i \in K}
      OBVIOUS
    <3>6. D(h)[n] = h[n - 1] \cup ({dataBlocks[b].next : b \in h[n - 1]} \ {NoAddr})
      BY <2>2
    <3> HIDE DEF h, D, J, K
    <3> QED  BY <3>1, <3>2, <3>3, <3>4, <3>5, <3>6
  <2> QED  BY <2>1, <2>2
<1>3. h = D(h)
  <2>1. DOMAIN h = 0..N /\ DOMAIN D(h) = 0..N
    OBVIOUS
  <2>2. h = [n \in 0..N |-> h[n]] /\ D(h) = [n \in 0..N |-> D(h)[n]]
    OBVIOUS
  <2> HIDE DEF h, D
  <2> QED  BY <1>2, <2>2
<1>4. g = D(g)
  <2> HIDE DEF D, h
  <2> QED  BY <1>3
<1>5. \A n \in 0..N : g[n] = h[n]
  <2> DEFINE T == {n \in 0..N : g[n] # h[n]}
  <2> SUFFICES ASSUME T # {} PROVE FALSE
    OBVIOUS
  <2>5. T \in SUBSET Nat
    BY <1>1
  <2>1. PICK n \in T : \A m \in T : n <= m
    <3> HIDE DEF T
    <3> QED  BY <2>5, LeastNat
  <2> HIDE DEF g, h
  <2>2. g[n] = D(g)[n] /\ h[n] = D(h)[n]
    BY <1>2, <1>4
  <2>3. CASE n = 0
    <3>1. n \in 0..N
      OBVIOUS
    <3>2. D(g)[n] = {tableSlot} \ {NoAddr} /\ D(h)[n] = {tableSlot} \ {NoAddr}
      BY <2>3, <3>1
    <3> QED  BY <2>1, <2>2, <3>2
  <2>4. CASE n # 0
    <3>1. n - 1 \in 0..N /\ n - 1 \notin T
      BY <1>1, <2>1, <2>4
    <3>2. g[n - 1] = h[n - 1]
      BY <3>1
    <3> QED  BY <2>2, <2>4, <3>2
  <2> QED  BY <2>3, <2>4
<1>6. Chain = g[N]
  BY DEF Chain, N
<1>7. h[N] = {c[i] : i \in DOMAIN c}
  BY <1>1
<1> QED  BY <1>1, <1>5, <1>6, <1>7

-----------------------------------------------------------------------------
(* The cache while the browser is at work. *)

PartNames == {"header", "key", "stream 1", "eof", "stream 0"}

\* A hash is held in memory or evicted, and in memory only with its file begun.
SimpleSound ==
    /\ entryFile \in [Hashes -> Seq(PartNames)]
    /\ indexed \subseteq Hashes /\ evicted \subseteq Hashes /\ IsFiniteSet(indexed)
    /\ indexed \cap evicted = {} /\ sparseFiles \subseteq indexed \cup evicted
    /\ \A h \in Hashes : entryFile[h] # <<>> => h \in indexed \cup evicted
    /\ \A h \in indexed : entryFile[h] # <<>>

\* An index that is whole lists what is in memory, but what it came too early for.
IndexSound ==
    /\ realIndex \in [there : BOOLEAN, magic : BOOLEAN, count : Nat, hashes : Seq(Hashes)]
    /\ Len(realIndex.hashes) <= realIndex.count
    /\ realIndex.there /\ realIndex.count = Len(realIndex.hashes) =>
          indexed \ unlisted \subseteq ToSet(realIndex.hashes)

\* An entry whose streams are its own.
Whole(b) ==
    \E u \in Urls, head, body, next \in Blocks \cup {NoAddr}, coding \in Codings :
        /\ dataBlocks[b] = Entry(u, head, body, next)
        /\ head # NoAddr => dataBlocks[head] = Stream(u, "head", coding)
        /\ body # NoAddr => dataBlocks[body] = Stream(u, "body", coding)
Parts(b) == {b, dataBlocks[b].head, dataBlocks[b].body} \ {NoAddr}
Live == {b \in bitmap : dataBlocks[b].type = "entry"}

\* Allocated entries share nothing and the chain is of them; what is freed and
\* untouched is whole.
BlockSound ==
    /\ bitmap \subseteq Blocks /\ untouched \subseteq Blocks
    /\ \A b \in Live : Whole(b) /\ Parts(b) \subseteq bitmap
    /\ \A a, b \in Live : a # b => Parts(a) \cap Parts(b) = {}
    /\ \A b \in untouched : Whole(b) /\ Parts(b) \cap bitmap = {}
    /\ \E c : IsChain(c) /\ \A i \in DOMAIN c : c[i] \in Live

\* What the carver has of the files, and what has been so since: an entry of an index
\* that is whole is listed or newer than it, and what was whole all the time is
\* listed, carved or still to come.
FilesSound ==
    /\ evicted \subseteq since.gone
    /\ carved.known /\ ~carved.cut => indexed \subseteq carved.listed \cup since.stored
    /\ since.whole \subseteq Hashes /\ \A h \in since.whole : entryFile[h] = EntryParts
    /\ carved.cut \/ carved.orphans \subseteq since.gone \cup since.stored
    /\ carved.at \subseteq since.gone /\ carved.danglers \subseteq since.gone
    /\ carved.free = {} /\ since.freed = {}
    /\ carved.known =>
          \A h \in since.whole \ (carved.orphans \cup carved.listed) :
             /\ <<h, "_0">> \in carved.todo
             /\ carved.stage = "names" => <<h, "_0">> \in since.names

\* What it has of the blocks: no entry of the chain, and each that is untouched, as it is.
EntryAt(b) == [block |-> b, url |-> dataBlocks[b].url, streams |-> dataBlocks[b]]
StreamsSound ==
    /\ ~carved.known /\ carved.orphans = {} /\ carved.danglers = {}
    /\ \A e \in carved.entries : e.block \notin carved.live
    /\ since.freed \subseteq untouched /\ \A b \in since.freed : EntryAt(b) \in carved.entries

CarverSound ==
    /\ carved.stage \in {"idle", "files", "names", "streams", "done"}
    /\ carved.stage = "idle" => carved = NotCarved
    /\ carved.stage \in {"files", "names"} => FilesSound
    /\ carved.stage = "streams" => StreamsSound
    /\ CarvedIsWhatWasEvicted

CacheInv == SimpleSound /\ IndexSound /\ BlockSound /\ CarverSound

LEMMA PartsWritten ==
    /\ EntryParts \in Seq(PartNames) /\ Len(EntryParts) = 6
    /\ \A n \in 1..6 : SubSeq(EntryParts, 1, n) \in Seq(PartNames) /\ SubSeq(EntryParts, 1, n) # <<>>
<1>1. EntryParts \in Seq(PartNames) /\ Len(EntryParts) = 6
  <2>1. ASSUME NEW S, NEW a \in S, NEW b \in S, NEW c \in S, NEW d \in S, NEW e \in S
        PROVE  <<a, b, c, d, e, d>> \in Seq(S) /\ Len(<<a, b, c, d, e, d>>) = 6
    OBVIOUS
  <2> QED  BY <2>1 DEF EntryParts, PartNames
<1>2. ASSUME NEW n \in 1..6
      PROVE  SubSeq(EntryParts, 1, n) \in Seq(PartNames) /\ SubSeq(EntryParts, 1, n) # <<>>
  <2>1. Len(SubSeq(EntryParts, 1, n)) = n
    BY <1>1
  <2>2. SubSeq(EntryParts, 1, n) \in Seq(PartNames)
    <3>1. n \in 0..Len(EntryParts) /\ EntryParts \in Seq(PartNames)
      BY <1>1
    <3>2. \A S : \A s \in Seq(S) : \A k \in 0..Len(s) : SubSeq(s, 1, k) \in Seq(S)
      OBVIOUS
    <3> QED  BY <3>1, <3>2
  <2>3. Len(<<>>) = 0 /\ n # 0
    OBVIOUS
  <2> QED  BY <2>1, <2>2, <2>3
<1> QED  BY <1>1, <1>2

\* Each step of the simple cache's browser.
LEMMA SimpleStepSound ==
    ASSUME SimpleSound, IndexSound, NEW h \in Hashes,
           \/ StoreSimple(h) \/ WriteSimple(h) \/ StoreSparse(h)
           \/ EvictSimple(h) \/ RemoveFile(h)
    PROVE  SimpleSound' /\ IndexSound'
<1> USE DEF SimpleSound, IndexSound
<1>1. CASE StoreSimple(h)
  <2>1. /\ entryFile' = [entryFile EXCEPT ![h] = SubSeq(EntryParts, 1, 2)]
        /\ indexed' = indexed \cup {h} /\ evicted' = evicted \ {h}
        /\ unlisted' = unlisted \cup {h} /\ UNCHANGED <<sparseFiles, realIndex>>
        /\ h \notin sparseFiles
    BY <1>1 DEF StoreSimple
  <2>2. SubSeq(EntryParts, 1, 2) \in Seq(PartNames) /\ SubSeq(EntryParts, 1, 2) # <<>>
    BY PartsWritten
  <2>3. IsFiniteSet(indexed')
    BY <2>1, FS_AddElement
  <2>4. SimpleSound'
    BY <2>1, <2>2, <2>3
  <2> QED  BY <2>1, <2>4
<1>2. CASE WriteSimple(h)
  <2> DEFINE parts == SubSeq(EntryParts, 1, Len(entryFile[h]) + 2)
  <2>1. /\ entryFile' = [entryFile EXCEPT ![h] = parts] /\ Len(entryFile[h]) \in {2, 4}
        /\ UNCHANGED <<sparseFiles, indexed, realIndex, evicted, unlisted>> /\ h \in indexed
    BY <1>2 DEF WriteSimple
  <2>2. parts \in Seq(PartNames) /\ parts # <<>>
    <3>1. Len(entryFile[h]) + 2 \in 1..6
      <4>1. Len(entryFile[h]) \in {2, 4}
        BY <1>2 DEF WriteSimple
      <4>2. \A x \in {2, 4} : x + 2 \in 1..6
        OBVIOUS
      <4> QED  BY <4>1, <4>2
    <3> QED  BY <3>1, PartsWritten
  <2> HIDE DEF parts
  <2>3. SimpleSound'
    BY <2>1, <2>2
  <2> QED  BY <2>1, <2>3
<1>3. CASE StoreSparse(h)
  BY <1>3 DEF StoreSparse
<1>4. CASE EvictSimple(h)
  <2>1. IsFiniteSet(indexed')
    BY <1>4, FS_RemoveElement DEF EvictSimple
  <2> QED  BY <1>4, <2>1 DEF EvictSimple
<1>5. CASE RemoveFile(h)
  <2>1. h \in evicted /\ UNCHANGED <<indexed, realIndex, evicted, unlisted>>
    BY <1>5 DEF RemoveFile
  <2>2. CASE entryFile' = [entryFile EXCEPT ![h] = <<>>] /\ UNCHANGED sparseFiles
    <3>1. h \notin indexed /\ <<>> \in Seq(PartNames)
      BY <2>1
    <3>2. SimpleSound'
      BY <2>1, <2>2, <3>1
    <3> QED  BY <2>1, <3>2
  <2>3. CASE sparseFiles' = sparseFiles \ {h} /\ UNCHANGED entryFile
    BY <2>1, <2>3
  <2> QED  BY <1>5, <2>2, <2>3 DEF RemoveFile
<1> QED  BY <1>1, <1>2, <1>3, <1>4, <1>5

LEMMA IndexStepSound ==
    ASSUME SimpleSound, IndexSound, WriteIndex \/ CutIndex
    PROVE  SimpleSound' /\ IndexSound'
<1>1. CASE WriteIndex
  <2>1. SimpleSound'
    BY <1>1 DEF WriteIndex, SimpleSound
  <2>2. IsFiniteSet(indexed) /\ indexed \subseteq Hashes
    BY DEF SimpleSound
  <2>3. /\ SetToSeq(indexed) \in Seq(indexed) /\ ToSet(SetToSeq(indexed)) = indexed
        /\ Len(SetToSeq(indexed)) = Cardinality(indexed) /\ Cardinality(indexed) \in Nat
    BY <2>2, ListedSet, FS_CardinalityType
  <2>4. SetToSeq(indexed) \in Seq(Hashes)
    BY <2>2, <2>3
  <2>5. IndexSound'
    <3>1. /\ realIndex' = [there |-> TRUE, magic |-> TRUE, count |-> Cardinality(indexed),
                           hashes |-> SetToSeq(indexed)]
          /\ UNCHANGED indexed
      BY <1>1 DEF WriteIndex
    <3>2. realIndex' \in [there : BOOLEAN, magic : BOOLEAN, count : Nat, hashes : Seq(Hashes)]
      BY <2>3, <2>4, <3>1
    <3>3. /\ realIndex'.count = Cardinality(indexed) /\ realIndex'.hashes = SetToSeq(indexed)
      BY <3>1
    <3> QED  BY <2>3, <3>1, <3>2, <3>3 DEF IndexSound
  <2> QED  BY <2>1, <2>5
<1>2. CASE CutIndex
  <2>1. SimpleSound'
    BY <1>2 DEF CutIndex, SimpleSound
  <2>2. CASE realIndex' = [realIndex EXCEPT !.magic = FALSE]
    BY <1>2, <2>1, <2>2 DEF CutIndex, IndexSound
  <2>3. ASSUME NEW n \in 0..Len(realIndex.hashes),
               realIndex' = [realIndex EXCEPT !.hashes = SubSeq(realIndex.hashes, 1, n)]
        PROVE  IndexSound'
    <3> DEFINE cut == SubSeq(realIndex.hashes, 1, n)
    <3>1. realIndex.hashes \in Seq(Hashes) /\ Len(realIndex.hashes) \in Nat
      BY DEF IndexSound
    <3>2. cut \in Seq(Hashes) /\ Len(cut) = n
      BY <3>1, <2>3
    <3>3. n = Len(realIndex.hashes) => cut = realIndex.hashes
      BY <3>1
    <3> HIDE DEF cut
    <3>4. /\ realIndex'.there = realIndex.there /\ realIndex'.count = realIndex.count
          /\ realIndex'.hashes = cut
          /\ realIndex' \in [there : BOOLEAN, magic : BOOLEAN, count : Nat, hashes : Seq(Hashes)]
      BY <2>3, <3>2 DEF IndexSound, cut
    <3>5. UNCHANGED <<indexed, unlisted>>
      BY <1>2 DEF CutIndex
    <3>6. Len(realIndex.hashes) <= realIndex.count /\ realIndex.count \in Nat
      BY DEF IndexSound
    <3>7. Len(cut) <= realIndex.count
      BY <3>1, <3>2, <3>6
    <3>8. realIndex.count = Len(cut) => cut = realIndex.hashes
      BY <3>1, <3>2, <3>3, <3>6
    <3> QED  BY <3>4, <3>5, <3>7, <3>8 DEF IndexSound
  <2> QED  BY <1>2, <2>1, <2>2, <2>3 DEF CutIndex
<1> QED  BY <1>1, <1>2

LEMMA PairCardinality ==
    ASSUME NEW x, NEW y
    PROVE  IsFiniteSet({x, y}) /\ Cardinality({x, y}) = IF x = y THEN 1 ELSE 2
<1>1. IsFiniteSet({x}) /\ Cardinality({x}) = 1
  BY FS_Singleton
<1>2. /\ IsFiniteSet({x} \cup {y})
      /\ Cardinality({x} \cup {y}) = IF y \in {x} THEN Cardinality({x}) ELSE Cardinality({x}) + 1
  BY <1>1, FS_AddElement
<1>3. {x} \cup {y} = {x, y}
  OBVIOUS
<1>4. CASE x = y
  <2>1. {x, y} = {x}
    BY <1>4
  <2> QED  BY <1>1, <1>4, <2>1
<1>5. CASE x # y
  <2>1. Cardinality({x} \cup {y}) = 1 + 1
    BY <1>1, <1>2, <1>5
  <2>2. Cardinality({x, y}) = 2
    BY <1>3, <2>1
  <2> QED  BY <1>2, <1>3, <1>5, <2>2
<1> QED  BY <1>4, <1>5

\* The blocks that an entry takes are three, or as many as it asks for.
LEMMA TakenAreDistinct ==
    ASSUME NEW b \in Blocks, NEW head \in Blocks \cup {NoAddr}, NEW body \in Blocks \cup {NoAddr},
           Cardinality({b, head, body} \ {NoAddr}) =
               1 + Cardinality({s \in {1, 2} : <<head, body>>[s] # NoAddr})
    PROVE  b # head /\ b # body /\ (head = body => head = NoAddr)
<1> DEFINE taken == {b, head, body} \ {NoAddr}
           asked == {s \in {1, 2} : <<head, body>>[s] # NoAddr}
<1>0. b # NoAddr /\ Cardinality(taken) = 1 + Cardinality(asked)
  BY BlocksAssumption
<1>1. CASE head = NoAddr /\ body = NoAddr
  BY <1>0, <1>1
<1>2. CASE head # NoAddr /\ body = NoAddr
  <2>1. asked = {1} /\ taken = {b, head}
    BY <1>0, <1>2
  <2>2. Cardinality({1}) = 1
    BY FS_Singleton
  <2> HIDE DEF taken, asked
  <2>3. Cardinality({b, head}) = 1 + 1
    BY <1>0, <2>1, <2>2
  <2>4. Cardinality({b, head}) = IF b = head THEN 1 ELSE 2
    BY PairCardinality
  <2> QED  BY <1>0, <1>2, <2>3, <2>4
<1>3. CASE head = NoAddr /\ body # NoAddr
  <2>1. asked = {2} /\ taken = {b, body}
    BY <1>0, <1>3
  <2>2. Cardinality({2}) = 1
    BY FS_Singleton
  <2> HIDE DEF taken, asked
  <2>3. Cardinality({b, body}) = 1 + 1
    BY <1>0, <2>1, <2>2
  <2>4. Cardinality({b, body}) = IF b = body THEN 1 ELSE 2
    BY PairCardinality
  <2> QED  BY <1>0, <1>3, <2>3, <2>4
<1>4. CASE head # NoAddr /\ body # NoAddr
  <2>1. asked = {1, 2} /\ taken = {b, head, body}
    BY <1>0, <1>4
  <2>2. Cardinality({1, 2}) = 2
    BY PairCardinality
  <2> HIDE DEF taken, asked
  <2>3. Cardinality(taken) = 1 + 2
    BY <1>0, <2>1, <2>2
  <2>4. ASSUME NEW x, NEW y, taken = {x, y} PROVE Cardinality(taken) \in {1, 2}
    <3>1. Cardinality({x, y}) = IF x = y THEN 1 ELSE 2
      BY PairCardinality
    <3> QED  BY <2>4, <3>1
  <2>5. \A x, y : taken # {x, y}
    BY <2>3, <2>4
  <2>6. /\ b = head => taken = {b, body}
        /\ b = body => taken = {b, head}
        /\ head = body => taken = {b, head}
    BY <2>1
  <2> QED  BY <2>5, <2>6
<1> QED  BY <1>1, <1>2, <1>3, <1>4

\* What an entry is, once it is known to be whole.
LEMMA WholeIs ==
    ASSUME NEW b \in Blocks, Whole(b)
    PROVE  /\ dataBlocks[b].type = "entry"
           /\ dataBlocks[b].head \in Blocks \cup {NoAddr}
           /\ dataBlocks[b].body \in Blocks \cup {NoAddr}
           /\ dataBlocks[b].head # NoAddr => dataBlocks[dataBlocks[b].head].type = "head"
           /\ dataBlocks[b].body # NoAddr => dataBlocks[dataBlocks[b].body].type = "body"
           /\ b \in Parts(b) /\ Parts(b) \subseteq Blocks
<1>1. PICK u \in Urls, head, body, next \in Blocks \cup {NoAddr}, coding \in Codings :
        /\ dataBlocks[b] = Entry(u, head, body, next)
        /\ head # NoAddr => dataBlocks[head] = Stream(u, "head", coding)
        /\ body # NoAddr => dataBlocks[body] = Stream(u, "body", coding)
  BY DEF Whole
<1>2. /\ dataBlocks[b].type = "entry"
      /\ dataBlocks[b].head = head /\ dataBlocks[b].body = body
  BY <1>1 DEF Entry
<1>3. Parts(b) = {b, head, body} \ {NoAddr}
  BY <1>2 DEF Parts
<1>4. /\ head # NoAddr => dataBlocks[head].type = "head"
      /\ body # NoAddr => dataBlocks[body].type = "body"
  BY <1>1 DEF Stream
<1> QED  BY <1>2, <1>3, <1>4, BlocksAssumption

\* Blocks that are as they were hold the same entry.
LEMMA WholeStays ==
    ASSUME NEW b \in Blocks, Whole(b), \A d \in Parts(b) : dataBlocks'[d] = dataBlocks[d]
    PROVE  Whole(b)' /\ Parts(b)' = Parts(b) /\ dataBlocks'[b] = dataBlocks[b]
<1>1. PICK u \in Urls, head, body, next \in Blocks \cup {NoAddr}, coding \in Codings :
        /\ dataBlocks[b] = Entry(u, head, body, next)
        /\ head # NoAddr => dataBlocks[head] = Stream(u, "head", coding)
        /\ body # NoAddr => dataBlocks[body] = Stream(u, "body", coding)
  BY DEF Whole
<1>2. Parts(b) = {b, head, body} \ {NoAddr}
  BY <1>1 DEF Entry, Parts
<1>3. /\ dataBlocks'[b] = dataBlocks[b]
      /\ head # NoAddr => dataBlocks'[head] = dataBlocks[head]
      /\ body # NoAddr => dataBlocks'[body] = dataBlocks[body]
  BY <1>2, BlocksAssumption
<1>4. Whole(b)'
  BY <1>1, <1>3 DEF Whole
<1> QED  BY <1>3, <1>4 DEF Parts

LEMMA StoreBlocksSound ==
    ASSUME BlockSound, NEW u \in Urls, NEW b \in Blocks, NEW coding \in Codings,
           NEW head \in Blocks \cup {NoAddr}, NEW body \in Blocks \cup {NoAddr},
           StoreBlocks(u, b, head, body, coding)
    PROVE  BlockSound'
<1> DEFINE taken == {b, head, body} \ {NoAddr}
<1>1. /\ bitmap \subseteq Blocks /\ untouched \subseteq Blocks
      /\ \A d \in Live : Whole(d) /\ Parts(d) \subseteq bitmap
      /\ \A d, e \in Live : d # e => Parts(d) \cap Parts(e) = {}
      /\ \A d \in untouched : Whole(d) /\ Parts(d) \cap bitmap = {}
  BY DEF BlockSound
<1>2. /\ taken \cap bitmap = {} /\ bitmap' = bitmap \cup taken /\ tableSlot' = b
      /\ untouched' = {e \in untouched :
                         {e, dataBlocks[e].head, dataBlocks[e].body} \cap taken = {}}
      /\ dataBlocks' = [d \in Blocks |->
              CASE d = b    -> Entry(u, head, body, tableSlot)
                [] d = head -> Stream(u, "head", coding)
                [] d = body -> Stream(u, "body", coding)
                [] OTHER    -> dataBlocks[d]]
  BY DEF StoreBlocks
<1>3. b # head /\ b # body /\ (head = body => head = NoAddr) /\ b # NoAddr
  BY TakenAreDistinct, BlocksAssumption DEF StoreBlocks
<1>4. /\ dataBlocks'[b] = Entry(u, head, body, tableSlot)
      /\ head # NoAddr => dataBlocks'[head] = Stream(u, "head", coding)
      /\ body # NoAddr => dataBlocks'[body] = Stream(u, "body", coding)
      /\ \A d \in Blocks \ taken : dataBlocks'[d] = dataBlocks[d]
  <2>1. dataBlocks'[b] = Entry(u, head, body, tableSlot)
    BY <1>2, <1>3
  <2>2. head # NoAddr => dataBlocks'[head] = Stream(u, "head", coding)
    BY <1>2, <1>3
  <2>3. body # NoAddr => dataBlocks'[body] = Stream(u, "body", coding)
    BY <1>2, <1>3
  <2>4. \A d \in Blocks \ taken : dataBlocks'[d] = dataBlocks[d]
    BY <1>2, BlocksAssumption
  <2> QED  BY <2>1, <2>2, <2>3, <2>4
<1>5. /\ b \in taken /\ taken \subseteq Blocks
      /\ \A d \in taken : d # NoAddr /\ (d = b \/ d = head \/ d = body)
  BY <1>3
<1>6. Whole(b)' /\ Parts(b)' = taken
  <2>1. Parts(b)' = taken
    BY <1>4 DEF Parts, Entry
  <2>2. tableSlot \in Blocks \cup {NoAddr}
    <3>1. PICK c : IsChain(c)
      BY DEF BlockSound
    <3>2. c \in Seq(Blocks) /\ tableSlot = NextIn(c, 1)
      BY <3>1 DEF IsChain
    <3> QED  BY <3>2 DEF NextIn
  <2> HIDE DEF taken
  <2>3. Whole(b)'
    BY <1>4, <2>2 DEF Whole
  <2> QED  BY <2>1, <2>3
<1> HIDE DEF taken
<1>7. Live' = Live \cup {b}
  <2>1. dataBlocks'[b].type = "entry" /\ b \in bitmap'
    BY <1>2, <1>4, <1>5 DEF Entry
  <2>2. \A d \in taken : dataBlocks'[d].type = "entry" => d = b
    <3> SUFFICES ASSUME NEW d \in taken, d # b PROVE dataBlocks'[d].type # "entry"
      OBVIOUS
    <3>1. CASE d = head
      BY <1>4, <1>5, <3>1 DEF Stream
    <3>2. CASE d = body
      BY <1>4, <1>5, <3>2 DEF Stream
    <3> QED  BY <1>5, <3>1, <3>2
  <2>3. \A d \in bitmap : dataBlocks'[d] = dataBlocks[d]
    BY <1>1, <1>2, <1>4
  <2> QED  BY <1>2, <2>1, <2>2, <2>3 DEF Live
<1>8. /\ b \notin Live
      /\ \A d \in Live : Whole(d)' /\ Parts(d)' = Parts(d) /\ dataBlocks'[d] = dataBlocks[d]
  <2>1. Live \subseteq bitmap /\ b \notin Live
    BY <1>2, <1>5 DEF Live
  <2>2. ASSUME NEW d \in Live
        PROVE  Whole(d)' /\ Parts(d)' = Parts(d) /\ dataBlocks'[d] = dataBlocks[d]
    <3>1. d \in Blocks /\ Whole(d) /\ \A e \in Parts(d) : dataBlocks'[e] = dataBlocks[e]
      BY <1>1, <1>2, <1>4, <2>1
    <3> QED  BY <3>1, WholeStays
  <2> QED  BY <2>1, <2>2
<1>9. ASSUME NEW d \in untouched'
      PROVE  Whole(d)' /\ (Parts(d) \cap bitmap)' = {}
  <2>1. d \in untouched /\ Parts(d) \cap taken = {}
    BY <1>2 DEF Parts
  <2>2. d \in Blocks /\ Whole(d) /\ Parts(d) \subseteq Blocks /\ Parts(d) \cap bitmap = {}
    BY <1>1, <2>1, WholeIs
  <2>3. \A e \in Parts(d) : dataBlocks'[e] = dataBlocks[e]
    BY <1>4, <2>1, <2>2
  <2>4. Whole(d)' /\ Parts(d)' = Parts(d)
    BY <2>2, <2>3, WholeStays
  <2> QED  BY <1>2, <2>1, <2>2, <2>4
<1>10. \E c : IsChain(c)' /\ \A i \in DOMAIN c : c[i] \in Live'
  <2>1. PICK c : IsChain(c) /\ \A i \in DOMAIN c : c[i] \in Live
    BY DEF BlockSound
  <2>2. c \in Seq(Blocks) /\ DOMAIN c = 1..Len(c) /\ Len(c) \in Nat
    BY <2>1 DEF IsChain
  <2> DEFINE k == [i \in 1..(Len(c) + 1) |-> IF i = 1 THEN b ELSE c[i - 1]]
  <2>3. k \in Seq(Blocks) /\ DOMAIN k = 1..(Len(c) + 1)
    BY <2>2
  <2>4. k[1] = b /\ \A i \in DOMAIN c : k[i + 1] = c[i]
    BY <2>2
  <2>5. \A i \in DOMAIN k : i = 1 \/ (i - 1 \in DOMAIN c /\ k[i] = c[i - 1])
    BY <2>2
  <2>6. \A i \in DOMAIN c : NextIn(k, i + 1) = NextIn(c, i) /\ NextIn(k, i + 2) = NextIn(c, i + 1)
    BY <2>2 DEF NextIn
  <2>7. NextIn(k, 1) = b /\ NextIn(k, 2) = NextIn(c, 1)
    BY <2>2 DEF NextIn
  <2> HIDE DEF k
  <2>8. tableSlot = NextIn(c, 1)
    BY <2>1 DEF IsChain
  <2>9. \A i \in DOMAIN c : dataBlocks'[c[i]].next = NextIn(c, i + 1)
    BY <1>8, <2>1 DEF IsChain
  <2>10. \A i \in DOMAIN k : dataBlocks'[k[i]].next = NextIn(k, i + 1)
    <3> SUFFICES ASSUME NEW i \in DOMAIN k PROVE dataBlocks'[k[i]].next = NextIn(k, i + 1)
      OBVIOUS
    <3>1. CASE i = 1
      <4>1. dataBlocks'[b].next = tableSlot
        BY <1>4 DEF Entry
      <4> QED  BY <2>4, <2>7, <2>8, <3>1, <4>1
    <3>2. CASE i # 1
      <4>1. i - 1 \in DOMAIN c /\ k[i] = c[i - 1] /\ (i - 1) + 1 = i /\ (i - 1) + 2 = i + 1
        BY <2>2, <2>3, <2>5, <3>2
      <4>2. dataBlocks'[c[i - 1]].next = NextIn(c, (i - 1) + 1)
        BY <2>9, <4>1
      <4>3. NextIn(k, (i - 1) + 2) = NextIn(c, (i - 1) + 1)
        BY <2>6, <4>1
      <4> QED  BY <4>1, <4>2, <4>3
    <3> QED  BY <3>1, <3>2
  <2>11. \A i, j \in DOMAIN k : k[i] = k[j] => i = j
    <3> SUFFICES ASSUME NEW i \in DOMAIN k, NEW j \in DOMAIN k, k[i] = k[j] PROVE i = j
      OBVIOUS
    <3>1. \A n \in DOMAIN c : c[n] # b
      BY <1>8, <2>1
    <3>2. \A n, m \in DOMAIN c : c[n] = c[m] => n = m
      BY <2>1 DEF IsChain
    <3>3. i \in Nat /\ j \in Nat
      BY <2>2, <2>3
    <3>4. i = 1 <=> j = 1
      BY <2>4, <2>5, <3>1
    <3>5. i # 1 => i - 1 = j - 1
      BY <2>5, <3>2, <3>4
    <3> QED  BY <3>3, <3>4, <3>5
  <2>12. IsChain(k)'
    BY <1>2, <2>3, <2>7, <2>10, <2>11 DEF IsChain, NextIn
  <2>13. \A i \in DOMAIN k : k[i] \in Live'
    BY <1>7, <2>1, <2>4, <2>5
  <2> QED  BY <2>12, <2>13
<1>11. \A d \in Live' : Whole(d)' /\ Parts(d)' \subseteq bitmap'
  BY <1>1, <1>2, <1>6, <1>7, <1>8
<1>12. \A d, e \in Live' : d # e => Parts(d)' \cap Parts(e)' = {}
  <2>1. \A d \in Live : Parts(d)' \cap taken = {}
    BY <1>1, <1>2, <1>8
  <2>2. \A d, e \in Live : d # e => Parts(d)' \cap Parts(e)' = {}
    BY <1>1, <1>8
  <2> QED  BY <1>6, <1>7, <2>1, <2>2
<1>13. bitmap' \subseteq Blocks /\ untouched' \subseteq Blocks
  BY <1>1, <1>2, <1>5
<1> QED  BY <1>9, <1>10, <1>11, <1>12, <1>13 DEF BlockSound

LEMMA UnlinkBlocksSound ==
    ASSUME BlockSound, UnlinkBlocks
    PROVE  BlockSound'
<1>1. /\ tableSlot # NoAddr /\ tableSlot' = dataBlocks[tableSlot].next
      /\ UNCHANGED <<dataBlocks, bitmap, untouched>>
  BY DEF UnlinkBlocks
<1>2. Live' = Live /\ \A b : Whole(b)' = Whole(b) /\ Parts(b)' = Parts(b)
  BY <1>1 DEF Live, Whole, Parts
<1>3. PICK c : IsChain(c) /\ \A i \in DOMAIN c : c[i] \in Live
  BY DEF BlockSound
<1>4. /\ c \in Seq(Blocks) /\ DOMAIN c = 1..Len(c) /\ Len(c) \in Nat
      /\ tableSlot = NextIn(c, 1)
      /\ \A i \in DOMAIN c : dataBlocks[c[i]].next = NextIn(c, i + 1)
      /\ \A i, j \in DOMAIN c : c[i] = c[j] => i = j
  <2>1. c \in Seq(Blocks)
    BY <1>3 DEF IsChain
  <2>2. DOMAIN c = 1..Len(c) /\ Len(c) \in Nat
    BY <2>1
  <2> QED  BY <1>3, <2>1, <2>2 DEF IsChain
<1>5. 1 \in DOMAIN c /\ c[1] = tableSlot
  BY <1>1, <1>4 DEF NextIn
<1> DEFINE k == [i \in 1..(Len(c) - 1) |-> c[i + 1]]
<1>6. /\ k \in Seq(Blocks) /\ DOMAIN k = 1..(Len(c) - 1)
      /\ \A i \in DOMAIN k : i + 1 \in DOMAIN c /\ k[i] = c[i + 1]
      /\ \A i \in Nat \ {0} : NextIn(k, i) = NextIn(c, i + 1)
      /\ DOMAIN k \subseteq Nat \ {0}
  <2>1. Len(c) - 1 \in Nat
    BY <1>4, <1>5
  <2>2. \A i \in DOMAIN k : i + 1 \in DOMAIN c /\ k[i] = c[i + 1]
    BY <1>4
  <2>3. k \in [1..(Len(c) - 1) -> Blocks]
    BY <1>4
  <2>4. \A i \in Nat \ {0} : NextIn(k, i) = NextIn(c, i + 1)
    BY <1>4, <2>1 DEF NextIn
  <2>5. DOMAIN k = 1..(Len(c) - 1)
    OBVIOUS
  <2> HIDE DEF k
  <2>6. k \in Seq(Blocks)
    BY <2>1, <2>3
  <2>7. DOMAIN k \subseteq Nat \ {0}
    BY <2>1, <2>5
  <2> QED  BY <2>2, <2>4, <2>5, <2>6, <2>7
<1> HIDE DEF k
<1>7. tableSlot' = NextIn(k, 1)
  <2>1. dataBlocks[c[1]].next = NextIn(c, 1 + 1)
    BY <1>4, <1>5
  <2>2. NextIn(k, 1) = NextIn(c, 1 + 1)
    BY <1>6
  <2> QED  BY <1>1, <1>5, <2>1, <2>2
<1>8. \A i \in DOMAIN k : dataBlocks'[k[i]].next = NextIn(k, i + 1)
  <2> SUFFICES ASSUME NEW i \in DOMAIN k PROVE dataBlocks[c[i + 1]].next = NextIn(k, i + 1)
    BY <1>1, <1>6
  <2>0. i \in Nat \ {0}
    BY <1>6
  <2>1. i + 1 \in DOMAIN c
    BY <1>6
  <2>3. i + 1 \in Nat \ {0}
    BY <2>0
  <2>2. NextIn(k, i + 1) = NextIn(c, (i + 1) + 1)
    BY <1>6, <2>3
  <2> QED  BY <1>4, <2>1, <2>2
<1>9. \A i, j \in DOMAIN k : k[i] = k[j] => i = j
  <2> SUFFICES ASSUME NEW i \in DOMAIN k, NEW j \in DOMAIN k, k[i] = k[j] PROVE i = j
    OBVIOUS
  <2>1. i + 1 = j + 1
    BY <1>4, <1>6
  <2>2. i \in Nat /\ j \in Nat
    BY <1>6
  <2> QED  BY <2>1, <2>2
<1>10. IsChain(k)'
  BY <1>6, <1>7, <1>8, <1>9 DEF IsChain, NextIn
<1>11. \A i \in DOMAIN k : k[i] \in Live'
  BY <1>2, <1>3, <1>6
<1> QED  BY <1>1, <1>2, <1>10, <1>11 DEF BlockSound

LEMMA FreeBlocksSound ==
    ASSUME BlockSound, NEW b \in Blocks, FreeBlocks(b)
    PROVE  BlockSound'
<1>1. /\ b \in Live /\ b \notin Chain
      /\ bitmap' = bitmap \ {b, dataBlocks[b].head, dataBlocks[b].body}
      /\ untouched' = untouched \cup {b} /\ UNCHANGED <<dataBlocks, tableSlot>>
  BY DEF FreeBlocks, Live
<1>2. /\ bitmap \subseteq Blocks /\ untouched \subseteq Blocks
      /\ \A d \in Live : Whole(d) /\ Parts(d) \subseteq bitmap
      /\ \A d, e \in Live : d # e => Parts(d) \cap Parts(e) = {}
      /\ \A d \in untouched : Whole(d) /\ Parts(d) \cap bitmap = {}
  BY DEF BlockSound
<1>3. \A d : /\ Whole(d)' = Whole(d) /\ Parts(d)' = Parts(d)
             /\ IsChain(d)' = IsChain(d)
  BY <1>1 DEF Whole, Parts, IsChain, NextIn
<1>4. bitmap' = bitmap \ Parts(b)
  <2>1. NoAddr \notin bitmap
    BY <1>2, BlocksAssumption
  <2>2. Parts(b) = {b, dataBlocks[b].head, dataBlocks[b].body} \ {NoAddr}
    BY DEF Parts
  <2> QED  BY <1>1, <2>1, <2>2, Zenon
<1>5. \A d \in Live : d \in Blocks /\ d \in Parts(d)
  BY <1>2, BlocksAssumption DEF Live, Parts
<1>6. Live' = Live \ Parts(b)
  BY <1>1, <1>4 DEF Live
<1>7. \A d \in Live : d # b => d \in Live'
  BY <1>1, <1>2, <1>5, <1>6
<1>8. Live' \subseteq Live \ {b}
  BY <1>1, <1>5, <1>6
<1>9. \A d \in Live' : Whole(d)' /\ Parts(d)' \subseteq bitmap'
  <2> SUFFICES ASSUME NEW d \in Live' PROVE Whole(d) /\ Parts(d) \subseteq bitmap'
    BY <1>3
  <2>1. d \in Live /\ d # b
    BY <1>8
  <2> QED  BY <1>1, <1>2, <1>4, <2>1
<1>10. \A d, e \in Live' : d # e => (Parts(d) \cap Parts(e))' = {}
  BY <1>2, <1>3, <1>8
<1>11. \A d \in untouched' : Whole(d)' /\ (Parts(d) \cap bitmap)' = {}
  BY <1>1, <1>2, <1>3, <1>4
<1>12. PICK c : IsChain(c) /\ \A i \in DOMAIN c : c[i] \in Live
  BY DEF BlockSound
<1>13. Chain = {c[i] : i \in DOMAIN c}
  BY <1>12, ChainIs
<1>14. IsChain(c)' /\ \A i \in DOMAIN c : c[i] \in Live'
  BY <1>1, <1>3, <1>7, <1>12, <1>13
<1>15. bitmap' \subseteq Blocks /\ untouched' \subseteq Blocks
  BY <1>1, <1>2
<1> QED  BY <1>9, <1>10, <1>11, <1>14, <1>15 DEF BlockSound

-----------------------------------------------------------------------------
(* The carving. *)

\* What is made of an entry that is whole: it has its streams and is as complete.
CarvedWhole(r, b) ==
    /\ r.block = b /\ r.url = dataBlocks[b].url
    /\ \A s \in {r.head, r.body} \ {Blank} : s.url = dataBlocks[b].url
    /\ (r.quality = "full") <=>
          (NoAddr \notin {dataBlocks[b].head, dataBlocks[b].body} /\ r.head.coding # "other")

LEMMA WholeIsCarved ==
    ASSUME NEW b \in Blocks, Whole(b)
    PROVE  /\ ResolveKey(b) = dataBlocks[b].url /\ StreamsAt(b) = dataBlocks[b]
           /\ ResolveKey(b) # NoUrl
           /\ CarvedWhole(BuildResource(b, dataBlocks[b].url, dataBlocks[b]), b)
<1>1. PICK u \in Urls, head, body, next \in Blocks \cup {NoAddr}, coding \in Codings :
        /\ dataBlocks[b] = Entry(u, head, body, next)
        /\ head # NoAddr => dataBlocks[head] = Stream(u, "head", coding)
        /\ body # NoAddr => dataBlocks[body] = Stream(u, "body", coding)
  BY DEF Whole
<1> DEFINE r == BuildResource(b, dataBlocks[b].url, dataBlocks[b])
           kept(addr, part) == IF addr = NoAddr THEN Blank ELSE Stream(u, part, coding)
<1>2. /\ dataBlocks[b].type = "entry" /\ dataBlocks[b].url = u
      /\ dataBlocks[b].head = head /\ dataBlocks[b].body = body
  BY <1>1 DEF Entry
<1>3. ResolveKey(b) = u /\ StreamsAt(b) = dataBlocks[b] /\ u # NoUrl
  BY <1>2, BlocksAssumption DEF ResolveKey, StreamsAt
<1>5. ReadStream(head) = kept(head, "head") /\ ReadStream(body) = kept(body, "body")
  BY <1>1 DEF ReadStream
<1>6. r = [block |-> b, url |-> u, head |-> kept(head, "head"), body |-> kept(body, "body"),
           quality |-> Grade(ParseHttpMeta(kept(head, "head")), kept(body, "body"))]
  BY <1>2, <1>3, <1>5 DEF BuildResource
<1>7. /\ r.block = b /\ r.url = u
      /\ r.head = kept(head, "head") /\ r.body = kept(body, "body")
      /\ r.quality = Grade(ParseHttpMeta(kept(head, "head")), kept(body, "body"))
  BY <1>6
<1> HIDE DEF r
<1>8. \A s \in {r.head, r.body} \ {Blank} : s.url = u
  <2>1. \A part : Stream(u, part, coding).url = u
    BY DEF Stream
  <2> QED  BY <1>7, <2>1
<1>9. (r.quality = "full") <=> (NoAddr \notin {head, body} /\ r.head.coding # "other")
  <2>1. CASE head = NoAddr
    <3>1. ParseHttpMeta(Blank).status = FALSE
      BY DEF ParseHttpMeta, Blank
    <3> QED  BY <1>7, <2>1, <3>1 DEF Grade
  <2>2. CASE body = NoAddr
    BY <1>7, <2>2 DEF Grade
  <2>3. CASE head # NoAddr /\ body # NoAddr
    <3>1. /\ r.head = Stream(u, "head", coding)
          /\ r.quality = Grade(ParseHttpMeta(Stream(u, "head", coding)), Stream(u, "body", coding))
      BY <1>7, <2>3
    <3>2. ParseHttpMeta(Stream(u, "head", coding)) = [status |-> TRUE, coding |-> coding]
      BY DEF ParseHttpMeta, Stream
    <3>3. Stream(u, "body", coding) # Blank /\ r.head.coding = coding
      BY <3>1 DEF Stream, Blank
    <3>4. DecodeBody(coding, Stream(u, "body", coding)) <=> coding # "other"
      BY DEF DecodeBody, Stream, Codings
    <3>5. Grade([status |-> TRUE, coding |-> coding], Stream(u, "body", coding)) = "full"
            <=> DecodeBody(coding, Stream(u, "body", coding))
      BY <3>3 DEF Grade
    <3> QED  BY <2>3, <3>1, <3>2, <3>3, <3>4, <3>5
  <2> QED  BY <2>1, <2>2, <2>3
<1>10. BuildResource(b, dataBlocks[b].url, dataBlocks[b]) = r
  BY DEF r
<1>11. CarvedWhole(r, b)
  BY <1>2, <1>7, <1>8, <1>9 DEF CarvedWhole
<1> QED  BY <1>2, <1>3, <1>10, <1>11

\* An index that was not cut short is read as it is.
LEMMA WholeIndexIsRead ==
    ASSUME IndexSound, realIndex.count = Len(realIndex.hashes)
    PROVE  ParseRealIndexHashes(realIndex) = ToSet(realIndex.hashes)
<1> DEFINE s == realIndex.hashes
<1>1. s \in Seq(Hashes) /\ Len(s) \in Nat /\ realIndex.count = Len(s)
  BY DEF IndexSound
<1>2. ParseRealIndexHashes(realIndex) = ToSet(SubSeq(s, 1, Len(s)))
  BY <1>1 DEF ParseRealIndexHashes
<1> HIDE DEF s
<1>3. SubSeq(s, 1, Len(s)) = s
  BY <1>1
<1> QED  BY <1>2, <1>3 DEF s

\* A `_0` that parses has something in it.
LEMMA SomethingParses ==
    ASSUME NEW h \in Hashes, SimpleSound
    PROVE  /\ ParseSimpleEntry(entryFile[h]) => h \in indexed \cup evicted
           /\ ParseSimpleEntry(EntryParts) /\ EntryParts # <<>>
<1>1. ASSUME ParseSimpleEntry(entryFile[h]) PROVE entryFile[h] # <<>>
  <2>1. Len(entryFile[h]) >= 3
    BY <1>1 DEF ParseSimpleEntry
  <2>2. Len(<<>>) = 0 /\ ~(0 >= 3)
    OBVIOUS
  <2> QED  BY <2>1, <2>2
<1>2. ParseSimpleEntry(EntryParts) /\ EntryParts # <<>>
  <2>1. /\ Len(EntryParts) = 6 /\ EntryParts[1] = "header" /\ EntryParts[2] = "key"
        /\ EntryParts[6] = "eof" /\ EntryParts[4] = "eof" /\ EntryParts # <<>>
    BY DEF EntryParts
  <2> QED  BY <2>1 DEF ParseSimpleEntry
<1> QED  BY <1>1, <1>2 DEF SimpleSound

\* What the carver sees and makes of the files.
LEMMA IndexReadSound ==
    ASSUME SimpleSound, IndexSound, CarverSound, ReadRealIndex
    PROVE  FilesSound'
<1>1. carved = NotCarved
  BY DEF CarverSound, ReadRealIndex
<1>2. /\ carved' = [NotCarved EXCEPT !.stage = "files", !.known = LivenessKnown,
                                !.cut = realIndex.count # Len(realIndex.hashes),
                                !.listed = ParseRealIndexHashes(realIndex)]
      /\ since' = [NothingSince EXCEPT !.gone = evicted, !.stored = unlisted,
                                     !.whole = {h \in evicted : entryFile[h] = EntryParts}]
      /\ UNCHANGED <<entryFile, evicted, indexed>>
  BY <1>1 DEF ReadRealIndex, OnlyReads, simpleVars
<1>3. /\ carved'.stage = "files" /\ carved'.known = LivenessKnown
      /\ carved'.cut = (realIndex.count # Len(realIndex.hashes))
      /\ carved'.listed = ParseRealIndexHashes(realIndex)
      /\ carved'.todo = Names /\ carved'.at = {} /\ carved'.orphans = {} /\ carved'.danglers = {}
      /\ carved'.free = {}
      /\ since'.gone = evicted /\ since'.stored = unlisted /\ since'.freed = {}
      /\ since'.whole = {h \in evicted : entryFile[h] = EntryParts}
  BY <1>2 DEF NotCarved, NothingSince
<1>4. LivenessKnown /\ realIndex.count = Len(realIndex.hashes)
        => indexed \subseteq ParseRealIndexHashes(realIndex) \cup unlisted
  BY WholeIndexIsRead DEF LivenessKnown, IndexSound
<1>5. evicted \subseteq Hashes
  BY DEF SimpleSound
<1>6. \A h \in Hashes : <<h, "_0">> \in Names
  BY DEF Names
<1> QED  BY <1>2, <1>3, <1>4, <1>5, <1>6 DEF FilesSound

LEMMA DirOpenSound ==
    ASSUME SimpleSound, FilesSound, OpenDir
    PROVE  FilesSound'
<1>1. /\ carved' = [carved EXCEPT !.stage = "names"]
      /\ since' = [since EXCEPT !.names = {n \in Names : IsThere(n)}]
      /\ UNCHANGED <<entryFile, evicted, indexed>>
  BY DEF OpenDir, OnlyReads, simpleVars
<1>2. \A h \in since.whole : <<h, "_0">> \in {n \in Names : IsThere(n)}
  <2> SUFFICES ASSUME NEW h \in since.whole PROVE <<h, "_0">> \in Names /\ IsThere(<<h, "_0">>)
    OBVIOUS
  <2>1. h \in Hashes /\ entryFile[h] = EntryParts /\ EntryParts # <<>>
    BY SomethingParses DEF FilesSound
  <2> QED  BY <2>1 DEF Names, IsThere
<1> QED  BY <1>1, <1>2 DEF FilesSound

LEMMA EntryLookSound ==
    ASSUME SimpleSound, FilesSound, NEW h \in Hashes, LookAtEntry(h)
    PROVE  FilesSound'
<1> DEFINE read == {g \in {h} : /\ carved.known /\ g \notin carved.listed
                                /\ ParseSimpleEntry(entryFile[g])}
<1>1. /\ carved' = [carved EXCEPT !.todo = carved.todo \ {<<h, "_0">>},
                                  !.orphans = carved.orphans \cup read]
      /\ UNCHANGED <<entryFile, evicted, indexed, since>>
  BY DEF LookAtEntry, OnlyReads, simpleVars
<1>2. carved.cut \/ read \subseteq since.gone \cup since.stored
  BY SomethingParses DEF FilesSound
<1>3. h \in since.whole /\ carved.known => h \in carved.listed \cup read
  BY SomethingParses DEF FilesSound
<1>4. \A g : g # h => <<g, "_0">> # <<h, "_0">>
  OBVIOUS
<1> HIDE DEF read
<1> QED  BY <1>1, <1>2, <1>3, <1>4 DEF FilesSound

LEMMA SparseLookSound ==
    ASSUME SimpleSound, FilesSound, NEW h \in Hashes, LookAtSparse(h)
    PROVE  FilesSound'
<1> DEFINE alone == {g \in {h} : ~IsThere(<<g, "_0">>)}
<1>1. /\ carved' = [carved EXCEPT !.todo = carved.todo \ {<<h, "_s">>}, !.at = alone]
      /\ UNCHANGED <<entryFile, evicted, indexed, since>> /\ h \in sparseFiles
  BY DEF LookAtSparse, OnlyReads, simpleVars, IsThere
<1>2. alone \subseteq since.gone
  <2>1. \A g \in alone : entryFile[g] = <<>> /\ g \in sparseFiles
    BY <1>1 DEF IsThere
  <2> QED  BY <2>1 DEF SimpleSound, FilesSound
<1>3. \A g : <<g, "_0">> # <<h, "_s">>
  OBVIOUS
<1> HIDE DEF alone
<1> QED  BY <1>1, <1>2, <1>3 DEF FilesSound

LEMMA SparseReadSound ==
    ASSUME FilesSound, ReadSparse
    PROVE  FilesSound'
<1>1. /\ carved' = [carved EXCEPT !.at = {}, !.danglers = carved.danglers \cup (carved.at \cap sparseFiles)]
      /\ UNCHANGED <<entryFile, evicted, indexed, since>>
  BY DEF ReadSparse, OnlyReads, simpleVars
<1> QED  BY <1>1 DEF FilesSound

LEMMA DirEndSound ==
    ASSUME FilesSound, EndOfDir
    PROVE  CarvedIsWhatWasEvicted' /\ carved'.stage = "done"
<1>1. /\ carved' = [carved EXCEPT !.stage = "done"] /\ carved.stage = "names"
      /\ since.names \cap carved.todo = {} /\ UNCHANGED since
  BY DEF EndOfDir
<1>2. carved.known => since.whole \subseteq carved.orphans \cup carved.listed
  BY <1>1 DEF FilesSound
<1>3. carved'.free = {} /\ since'.freed = {}
  BY <1>1 DEF FilesSound
<1> QED  BY <1>1, <1>2, <1>3 DEF FilesSound, CarvedIsWhatWasEvicted

\* What it sees and makes of the blocks.
LEMMA BlockLoadSound ==
    ASSUME BlockSound, CarverSound, LoadBlockFile
    PROVE  StreamsSound'
<1>1. carved = NotCarved
  BY DEF CarverSound, LoadBlockFile
<1>2. /\ carved' = [NotCarved EXCEPT !.stage = "streams", !.entries = FreeEntries,
                                     !.live = {r.block : r \in ParseBlockfileCacheDir}]
      /\ since' = [NothingSince EXCEPT !.freed = untouched]
      /\ UNCHANGED <<dataBlocks, bitmap, untouched>>
  BY <1>1 DEF LoadBlockFile, OnlyReads, blockVars
<1>3. /\ ~carved'.known /\ carved'.orphans = {} /\ carved'.danglers = {}
      /\ carved'.entries = FreeEntries
      /\ carved'.live = {r.block : r \in ParseBlockfileCacheDir}
      /\ since'.freed = untouched
  BY <1>2 DEF NotCarved, NothingSince
<1>4. \A e \in FreeEntries : e.block \notin bitmap
  BY DEF FreeEntries, BlockIsFree
<1>5. {r.block : r \in ParseBlockfileCacheDir} \subseteq bitmap
  <2>1. \A b, u, es : BuildResource(b, u, es).block = b
    BY DEF BuildResource
  <2>2. {r.block : r \in ParseBlockfileCacheDir} \subseteq Chain
    BY <2>1 DEF ParseBlockfileCacheDir
  <2>3. PICK c : IsChain(c) /\ \A i \in DOMAIN c : c[i] \in Live
    BY DEF BlockSound
  <2>4. Chain \subseteq bitmap
    BY <2>3, ChainIs DEF Live
  <2> QED  BY <2>2, <2>4
<1>6. ASSUME NEW b \in untouched PROVE EntryAt(b) \in FreeEntries
  <2>1. b \in Blocks /\ Whole(b) /\ Parts(b) \cap bitmap = {}
    BY DEF BlockSound
  <2>2. BlockIsFree(b)
    BY <2>1, WholeIs DEF BlockIsFree
  <2>3. /\ ResolveKey(b) = dataBlocks[b].url /\ StreamsAt(b) = dataBlocks[b]
        /\ ResolveKey(b) # NoUrl
    BY <2>1, WholeIsCarved
  <2>4. EntryAt(b) = [block |-> b, url |-> ResolveKey(b), streams |-> StreamsAt(b)]
    BY <2>3 DEF EntryAt
  <2>5. b \in {d \in Blocks : BlockIsFree(d) /\ ResolveKey(d) # NoUrl}
    BY <2>1, <2>2, <2>3
  <2> QED  BY <2>4, <2>5 DEF FreeEntries
<1>7. \A b \in untouched : EntryAt(b)' = EntryAt(b)
  BY <1>2 DEF EntryAt
<1>8. UNCHANGED untouched
  BY <1>2
<1> QED  BY <1>3, <1>4, <1>5, <1>6, <1>7, <1>8 DEF StreamsSound

LEMMA StreamsLoadSound ==
    ASSUME BlockSound, StreamsSound, LoadStreams
    PROVE  CarvedIsWhatWasEvicted' /\ carved'.stage = "done"
<1> DEFINE free == {BuildResource(e.block, e.url, e.streams) : e \in carved.entries}
<1>1. /\ carved' = [carved EXCEPT !.stage = "done", !.free = free]
      /\ UNCHANGED <<since, dataBlocks>>
  BY DEF LoadStreams, OnlyReads, blockVars
<1>2. {r.block : r \in free} \cap carved.live = {}
  <2>1. \A b, u, es : BuildResource(b, u, es).block = b
    BY DEF BuildResource
  <2> QED  BY <2>1 DEF StreamsSound
<1>3. ASSUME NEW b \in since.freed
      PROVE  \E r \in free : CarvedWhole(r, b)
  <2>1. b \in Blocks /\ Whole(b) /\ EntryAt(b) \in carved.entries
    BY DEF StreamsSound, BlockSound
  <2>2. CarvedWhole(BuildResource(b, dataBlocks[b].url, dataBlocks[b]), b)
    BY <2>1, WholeIsCarved
  <2>3. /\ EntryAt(b).block = b /\ EntryAt(b).url = dataBlocks[b].url
        /\ EntryAt(b).streams = dataBlocks[b]
    BY DEF EntryAt
  <2>4. BuildResource(b, dataBlocks[b].url, dataBlocks[b]) \in free
    BY <2>1, <2>3
  <2> QED  BY <2>2, <2>4
<1> HIDE DEF free
<1>4. /\ carved'.stage = "done" /\ carved'.free = free /\ carved'.live = carved.live
      /\ ~carved'.known /\ carved'.orphans = {} /\ carved'.danglers = {}
  BY <1>1 DEF StreamsSound
<1>5. \A b \in since'.freed : \E r \in carved'.free : CarvedWhole(r, b)'
  BY <1>1, <1>3, <1>4 DEF CarvedWhole
<1> QED  BY <1>2, <1>4, <1>5 DEF CarvedIsWhatWasEvicted, CarvedWhole

\* A step of the browser, while the carver is at it.
LEMMA BrowserMoves ==
    ASSUME SimpleBrowser \/ BlockBrowser
    PROVE  /\ indexed' \subseteq indexed \cup unlisted'
           /\ carved.stage # "idle" => UNCHANGED realIndex
           /\ \A b \in untouched \cap untouched' : b \in Blocks => dataBlocks'[b] = dataBlocks[b]
<1>1. CASE SimpleBrowser
  <2>1. UNCHANGED <<dataBlocks, untouched>>
    BY <1>1 DEF SimpleBrowser, blockVars
  <2>2. indexed' \subseteq indexed \cup unlisted'
    <3>1. CASE WriteIndex \/ CutIndex
      BY <3>1 DEF WriteIndex, CutIndex
    <3>2. ASSUME NEW h \in Hashes, \/ StoreSimple(h) \/ WriteSimple(h) \/ StoreSparse(h)
                                   \/ EvictSimple(h) \/ RemoveFile(h)
          PROVE  indexed' \subseteq indexed \cup unlisted'
      BY <3>2 DEF StoreSimple, WriteSimple, StoreSparse, EvictSimple, RemoveFile
    <3> QED  BY <1>1, <3>1, <3>2 DEF SimpleBrowser
  <2>3. carved.stage # "idle" => UNCHANGED realIndex
    <3>1. CASE WriteIndex \/ CutIndex
      BY <3>1 DEF WriteIndex, CutIndex
    <3>2. ASSUME NEW h \in Hashes, \/ StoreSimple(h) \/ WriteSimple(h) \/ StoreSparse(h)
                                   \/ EvictSimple(h) \/ RemoveFile(h)
          PROVE  UNCHANGED realIndex
      BY <3>2 DEF StoreSimple, WriteSimple, StoreSparse, EvictSimple, RemoveFile
    <3> QED  BY <1>1, <3>1, <3>2 DEF SimpleBrowser
  <2> QED  BY <2>1, <2>2, <2>3
<1>2. CASE BlockBrowser
  <2>1. UNCHANGED <<indexed, realIndex>>
    BY <1>2 DEF BlockBrowser, simpleVars
  <2>2. \A b \in untouched \cap untouched' : b \in Blocks => dataBlocks'[b] = dataBlocks[b]
    <3>1. CASE UnlinkBlocks \/ \E b \in Blocks : FreeBlocks(b)
      BY <3>1 DEF UnlinkBlocks, FreeBlocks
    <3>2. ASSUME NEW u \in Urls, NEW b \in Blocks, NEW coding \in Codings,
                 NEW head \in Blocks \cup {NoAddr}, NEW body \in Blocks \cup {NoAddr},
                 StoreBlocks(u, b, head, body, coding),
                 NEW d \in untouched', d \in Blocks
          PROVE  dataBlocks'[d] = dataBlocks[d]
      <4>1. d \notin {b, head, body} \ {NoAddr}
        BY <3>2 DEF StoreBlocks
      <4>2. d # b /\ d # head /\ d # body
        BY <3>2, <4>1, BlocksAssumption
      <4> QED  BY <3>2, <4>2 DEF StoreBlocks
    <3> QED  BY <1>2, <3>1, <3>2 DEF BlockBrowser
  <2> QED  BY <2>1, <2>2
<1> QED  BY <1>1, <1>2

LEMMA MeanwhileSound ==
    ASSUME SimpleSound, BlockSound, CarverSound, BrowserAtWork
    PROVE  CarverSound'
<1>1. carved' = carved /\ carved.stage # "done" /\ (SimpleBrowser \/ BlockBrowser) /\ Meanwhile
  BY DEF BrowserAtWork
<1>2. CASE carved.stage = "idle"
  BY <1>1, <1>2 DEF CarverSound, CarvedIsWhatWasEvicted
<1>3. CASE carved.stage # "idle"
  <2>1. /\ since'.gone = since.gone \cup evicted' /\ since'.stored = since.stored \cup unlisted'
        /\ since'.whole = {h \in since.whole : entryFile'[h] = EntryParts}
        /\ since'.names = {n \in since.names : IsThere(n)'}
        /\ since'.freed = since.freed \cap untouched'
    BY <1>1, <1>3 DEF Meanwhile
  <2>2. ASSUME FilesSound PROVE FilesSound'
    <3>1. \A h \in since'.whole : h \in since.whole /\ IsThere(<<h, "_0">>)'
      <4> SUFFICES ASSUME NEW h \in since'.whole PROVE h \in since.whole /\ IsThere(<<h, "_0">>)'
        OBVIOUS
      <4>1. h \in since.whole /\ h \in Hashes /\ entryFile'[h] = EntryParts
        BY <2>1, <2>2 DEF FilesSound
      <4>2. EntryParts # <<>>
        BY <4>1, SomethingParses
      <4> QED  BY <4>1, <4>2 DEF IsThere
    <3>2. indexed' \subseteq indexed \cup unlisted'
      BY <1>1, BrowserMoves
    <3>3. carved.known =>
            \A h \in since'.whole \ (carved.orphans \cup carved.listed) :
               /\ <<h, "_0">> \in carved.todo
               /\ carved.stage = "names" => <<h, "_0">> \in since'.names
      BY <2>1, <2>2, <3>1 DEF FilesSound
    <3> QED  BY <1>1, <2>1, <2>2, <3>2, <3>3 DEF FilesSound
  <2>3. ASSUME StreamsSound PROVE StreamsSound'
    <3>1. \A b \in since'.freed : EntryAt(b)' = EntryAt(b)
      <4> SUFFICES ASSUME NEW b \in since'.freed PROVE EntryAt(b)' = EntryAt(b)
        OBVIOUS
      <4>1. b \in untouched \cap untouched' /\ b \in Blocks
        BY <2>1, <2>3 DEF StreamsSound, BlockSound
      <4>2. dataBlocks'[b] = dataBlocks[b]
        BY <1>1, <4>1, BrowserMoves
      <4> QED  BY <4>2 DEF EntryAt
    <3> QED  BY <1>1, <2>1, <2>3, <3>1 DEF StreamsSound
  <2> QED  BY <1>1, <1>3, <2>2, <2>3 DEF CarverSound, CarvedIsWhatWasEvicted
<1> QED  BY <1>2, <1>3

LEMMA CarverStepSound ==
    ASSUME SimpleSound, IndexSound, BlockSound, CarverSound, CarveCacheDir
    PROVE  CarverSound'
<1> USE DEF CarverSound, CarvedIsWhatWasEvicted
<1>1. CASE ReadRealIndex
  <2>1. FilesSound' /\ carved'.stage = "files"
    <3>1. carved'.stage = "files"
      BY <1>1 DEF ReadRealIndex, NotCarved
    <3> QED  BY <1>1, <3>1, IndexReadSound
  <2> QED  BY <2>1
<1>2. CASE OpenDir
  <2>1. carved'.stage = "names" /\ FilesSound
    BY <1>2 DEF OpenDir
  <2> QED  BY <1>2, <2>1, DirOpenSound
<1>3. ASSUME NEW h \in Hashes, LookAtEntry(h) \/ LookAtSparse(h) PROVE CarverSound'
  <2>1. CASE LookAtEntry(h)
    <3>1. carved'.stage = "names" /\ FilesSound
      BY <2>1 DEF LookAtEntry
    <3> QED  BY <2>1, <3>1, EntryLookSound
  <2>2. CASE LookAtSparse(h)
    <3>1. carved'.stage = "names" /\ FilesSound
      BY <2>2 DEF LookAtSparse
    <3> QED  BY <2>2, <3>1, SparseLookSound
  <2> QED  BY <1>3, <2>1, <2>2
<1>4. CASE ReadSparse
  <2>1. carved'.stage = "names" /\ FilesSound
    BY <1>4 DEF ReadSparse
  <2> QED  BY <1>4, <2>1, SparseReadSound
<1>5. CASE EndOfDir
  <2>1. FilesSound
    BY <1>5 DEF EndOfDir
  <2>2. CarvedIsWhatWasEvicted' /\ carved'.stage = "done"
    BY <1>5, <2>1, DirEndSound
  <2> QED  BY <2>2
<1>6. CASE LoadBlockFile
  <2>1. carved'.stage = "streams"
    BY <1>6 DEF LoadBlockFile, NotCarved
  <2> QED  BY <1>6, <2>1, BlockLoadSound
<1>7. CASE LoadStreams
  <2>1. StreamsSound
    BY <1>7 DEF LoadStreams
  <2>2. CarvedIsWhatWasEvicted' /\ carved'.stage = "done"
    BY <1>7, <2>1, StreamsLoadSound
  <2> QED  BY <2>2
<1> QED  BY <1>1, <1>2, <1>3, <1>4, <1>5, <1>6, <1>7 DEF CarveCacheDir

-----------------------------------------------------------------------------

LEMMA CacheInitSound == CacheInit => CacheInv
<1> SUFFICES ASSUME CacheInit PROVE CacheInv
  OBVIOUS
<1> USE DEF CacheInit
<1>1. SimpleSound
  <2>1. <<>> \in Seq(PartNames)
    OBVIOUS
  <2>2. IsFiniteSet({})
    BY FS_EmptySet
  <2> QED  BY <2>1, <2>2 DEF SimpleSound
<1>2. IndexSound
  BY DEF IndexSound
<1>3. BlockSound
  <2>1. IsChain(<<>>) /\ DOMAIN <<>> = {}
    BY DEF IsChain, NextIn
  <2>2. Live = {}
    BY DEF Live
  <2> QED  BY <2>1, <2>2 DEF BlockSound
<1>4. CarverSound
  BY DEF CarverSound, CarvedIsWhatWasEvicted, NotCarved
<1> QED  BY <1>1, <1>2, <1>3, <1>4 DEF CacheInv

\* Each part depends on its own variables.
LEMMA SoundParts ==
    /\ UNCHANGED <<entryFile, sparseFiles, indexed, evicted>> /\ SimpleSound => SimpleSound'
    /\ UNCHANGED <<indexed, unlisted, realIndex>> /\ IndexSound => IndexSound'
    /\ UNCHANGED blockVars /\ BlockSound => BlockSound'
    /\ UNCHANGED cacheVars /\ CarverSound => CarverSound'
<1>1. ASSUME UNCHANGED <<entryFile, sparseFiles, indexed, evicted>>, SimpleSound PROVE SimpleSound'
  BY <1>1 DEF SimpleSound
<1>2. ASSUME UNCHANGED <<indexed, unlisted, realIndex>>, IndexSound PROVE IndexSound'
  BY <1>2 DEF IndexSound
<1>3. ASSUME UNCHANGED blockVars, BlockSound PROVE BlockSound'
  <2>1. UNCHANGED <<dataBlocks, bitmap, tableSlot, untouched>>
    BY <1>3 DEF blockVars
  <2>2. /\ Live' = Live
        /\ \A d : Whole(d)' = Whole(d) /\ Parts(d)' = Parts(d) /\ IsChain(d)' = IsChain(d)
    BY <2>1 DEF Live, Whole, Parts, IsChain, NextIn
  <2> QED  BY <1>3, <2>1, <2>2 DEF BlockSound
<1>4. ASSUME UNCHANGED cacheVars, CarverSound PROVE CarverSound'
  <2>1. UNCHANGED <<entryFile, indexed, evicted, dataBlocks, untouched, carved, since>>
    BY <1>4 DEF cacheVars, simpleVars, blockVars
  <2>2. FilesSound' = FilesSound /\ StreamsSound' = StreamsSound
    BY <2>1 DEF FilesSound, StreamsSound, EntryAt
  <2>3. CarvedIsWhatWasEvicted => CarvedIsWhatWasEvicted'
    BY <2>1 DEF CarvedIsWhatWasEvicted
  <2> QED  BY <1>4, <2>1, <2>2, <2>3 DEF CarverSound
<1> QED  BY <1>1, <1>2, <1>3, <1>4

LEMMA CacheStepSound == CacheInv /\ [CacheNext]_cacheVars => CacheInv'
<1> SUFFICES ASSUME CacheInv, [CacheNext]_cacheVars PROVE CacheInv'
  OBVIOUS
<1>0. SimpleSound /\ IndexSound /\ BlockSound /\ CarverSound
  BY DEF CacheInv
<1>1. CASE UNCHANGED cacheVars
  <2>1. /\ UNCHANGED <<entryFile, sparseFiles, indexed, evicted>>
        /\ UNCHANGED <<indexed, unlisted, realIndex>> /\ UNCHANGED blockVars
    BY <1>1 DEF cacheVars, simpleVars
  <2> QED  BY <1>0, <1>1, <2>1, SoundParts DEF CacheInv
<1>2. CASE CarveCacheDir
  <2>1. UNCHANGED <<simpleVars, blockVars>>
    BY <1>2 DEF CarveCacheDir, ReadRealIndex, OpenDir, LookAtEntry, LookAtSparse, ReadSparse,
                EndOfDir, LoadBlockFile, LoadStreams, OnlyReads
  <2>2. /\ UNCHANGED <<entryFile, sparseFiles, indexed, evicted>>
        /\ UNCHANGED <<indexed, unlisted, realIndex>> /\ UNCHANGED blockVars
    BY <2>1 DEF simpleVars
  <2>3. CarverSound'
    BY <1>0, <1>2, CarverStepSound
  <2> QED  BY <1>0, <2>2, <2>3, SoundParts DEF CacheInv
<1>3. CASE BrowserAtWork
  <2>1. SimpleBrowser \/ BlockBrowser
    BY <1>3 DEF BrowserAtWork
  <2>2. CarverSound'
    BY <1>0, <1>3, MeanwhileSound
  <2>3. CASE SimpleBrowser
    <3>1. BlockSound'
      BY <1>0, <2>3, SoundParts DEF SimpleBrowser
    <3>2. SimpleSound' /\ IndexSound'
      BY <1>0, <2>3, SimpleStepSound, IndexStepSound DEF SimpleBrowser
    <3> QED  BY <2>2, <3>1, <3>2 DEF CacheInv
  <2>4. CASE BlockBrowser
    <3>1. SimpleSound' /\ IndexSound'
      <4>1. UNCHANGED <<entryFile, sparseFiles, indexed, evicted>> /\ UNCHANGED <<indexed, unlisted, realIndex>>
        BY <2>4 DEF BlockBrowser, simpleVars
      <4> QED  BY <1>0, <4>1, SoundParts
    <3>2. BlockSound'
      <4>1. CASE \E u \in Urls, b \in Blocks, coding \in Codings :
                   \E head, body \in Blocks \cup {NoAddr} : StoreBlocks(u, b, head, body, coding)
        BY <1>0, <4>1, StoreBlocksSound
      <4>2. CASE UnlinkBlocks
        BY <1>0, <4>2, UnlinkBlocksSound
      <4>3. CASE \E b \in Blocks : FreeBlocks(b)
        BY <1>0, <4>3, FreeBlocksSound
      <4> QED  BY <2>4, <4>1, <4>2, <4>3 DEF BlockBrowser
    <3> QED  BY <2>2, <3>1, <3>2 DEF CacheInv
  <2> QED  BY <2>1, <2>3, <2>4
<1> QED  BY <1>1, <1>2, <1>3 DEF CacheNext

\* However the browser stores, evicts and frees, and wherever it stops: entries in use
\* share no block, the table's chain is of entries in use, and a hash that is in memory
\* and not in the index was stored since that was written (carve.rs, blockfile.rs).
THEOREM CacheInvariant == CacheSpec => []CacheInv
<1> QED  BY CacheInitSound, CacheStepSound, PTL DEF CacheSpec

\* Whatever the browser did and left undone, what is carved of its cache was evicted,
\* and what was evicted and is all there is carved (carve.rs 217-283, 327-395).
THEOREM CarvedCorrect == CacheSpec => []CarvedIsWhatWasEvicted
<1>1. CacheInv => CarvedIsWhatWasEvicted
  BY DEF CacheInv, CarverSound
<1> QED  BY <1>1, CacheInvariant, PTL

-----------------------------------------------------------------------------
(* The bodies that the other caches keep. *)

\* An entry keeps its body in one of the ways of its cache.
Keeps(e) ==
    \E r \in Responses : \E kept \in Kept(r) : \E state, overflow, cache :
        e = EntryOf(r, kept, state, overflow, cache)

\* What was read of an entry.
ReadRight(r) ==
    /\ r.decoded /\ r.note = "none" /\ ~CannotTell(r) => r.body = r.of.response.delivered
    /\ r.raw = r.of.kept \/ (r.raw = Missing /\ r.note = "unreadable")
    /\ r.of.state # "cut"

\* What is in a place, in the file and in the log.
OfPlaces(f) == f = [p \in Places |-> f[p]]
PlacesSound ==
    /\ OfPlaces(held) /\ OfPlaces(stored)
    /\ \A p \in Places : /\ held[p] = NoEntry \/ Keeps(held[p])
                         /\ stored[p] = NoEntry \/ Keeps(stored[p])
    /\ layout # "cfurl" => held = stored

\* An entry that stays is still to be read, or is read as it is, unless it is passed over.
StaysSound(p) ==
    /\ stored[p].there /\ stored[p].state # "cut"
    /\ \/ PassedOver(p)
       \/ /\ held[p] = stored[p]
          /\ p \in toRead \/ \E r \in found : r.at = p /\ r.of = stored[p]

BodiesInv ==
    /\ layout \in {"cache2", "cfurl", "cachestorage"}
    /\ listed \in [caches : SUBSET (CacheNames \cup {NoName}), cut : BOOLEAN]
    /\ PlacesSound
    /\ toRead = NotBegun \/ toRead \subseteq Places
    /\ \A r \in found : ReadRight(r)
    /\ lasting \subseteq Places /\ \A p \in lasting : StaysSound(p)

\* One coding that is known is what comes first of a body as it came.
LEMMA WireIs ==
    ASSUME NEW r \in Responses
    PROVE  /\ r.declared \in Seq(CodingNames) /\ r.delivered \in Seq(CodingNames)
           /\ Wire(r) \in Seq(CodingNames)
           /\ r.declared = <<>> => Wire(r) = r.delivered
           /\ Len(r.declared) = 1 =>
                 \/ Wire(r) = r.delivered /\ r.declared[1] \notin KnownCodings
                 \/ /\ r.declared[1] \in KnownCodings
                    /\ Wire(r) # <<>> /\ Head(Wire(r)) = r.declared[1] /\ Tail(Wire(r)) = r.delivered
<1> DEFINE d == r.declared
           b == r.delivered
<1>1. d \in Seq(CodingNames) /\ b \in Seq(CodingNames)
  BY BodiesAssumption
<1>2. Wire(r) = IF \A k \in DOMAIN d : d[k] \in KnownCodings THEN d \o b ELSE b
  BY DEF Wire
<1> HIDE DEF d, b
<1>3. CASE d = <<>>
  <2>1. <<>> \o b = b
    BY <1>1
  <2> QED  BY <1>1, <1>2, <1>3, <2>1 DEF d, b
<1>4. CASE Len(d) = 1
  <2>1. d # <<>> /\ DOMAIN d = {1}
    <3>1. Len(<<>>) = 0 /\ DOMAIN d = 1..1
      BY <1>1, <1>4
    <3> QED  BY <1>4, <3>1
  <2>2. CASE d[1] \in KnownCodings
    <3>1. Wire(r) = d \o b
      BY <1>2, <2>1, <2>2
    <3>2. /\ d \o b \in Seq(CodingNames) /\ Len(d \o b) = Len(b) + 1 /\ Len(b) \in Nat
          /\ (d \o b)[1] = d[1] /\ \A i \in 1..Len(b) : (d \o b)[i + 1] = b[i]
      <4>1. /\ d \o b \in Seq(CodingNames) /\ Len(d \o b) = Len(b) + 1 /\ Len(b) \in Nat
            /\ \A i \in 1..(Len(b) + 1) : (d \o b)[i] = IF i <= 1 THEN d[i] ELSE b[i - 1]
        <5>1. /\ d \o b \in Seq(CodingNames) /\ Len(d \o b) = Len(d) + Len(b)
              /\ \A i \in 1 .. Len(d) + Len(b) :
                    (d \o b)[i] = IF i <= Len(d) THEN d[i] ELSE b[i - Len(d)]
          BY <1>1, ConcatProperties
        <5>2. Len(b) \in Nat /\ 1 + Len(b) = Len(b) + 1
          BY <1>1
        <5> QED  BY <1>4, <5>1, <5>2
      <4>2. (d \o b)[1] = d[1]
        BY <4>1
      <4>3. ASSUME NEW i \in 1..Len(b) PROVE (d \o b)[i + 1] = b[i]
        <5>1. i + 1 \in 1..(Len(b) + 1) /\ ~(i + 1 <= 1) /\ (i + 1) - 1 = i
          BY <4>1
        <5> QED  BY <4>1, <5>1
      <4> QED  BY <4>1, <4>2, <4>3
    <3>3. d \o b # <<>> /\ Head(d \o b) = d[1]
      BY <3>2
    <3>4. Tail(d \o b) \in Seq(CodingNames) /\ Len(Tail(d \o b)) = Len(b)
      BY <3>2, <3>3
    <3>5. \A i \in 1..Len(b) : Tail(d \o b)[i] = b[i]
      BY <3>2, <3>3
    <3>6. Tail(d \o b) = b
      <4>1. \A s, t \in Seq(CodingNames) :
              Len(s) = Len(t) /\ (\A i \in 1..Len(t) : s[i] = t[i]) => s = t
        OBVIOUS
      <4> QED  BY <1>1, <3>4, <3>5, <4>1
    <3> QED  BY <1>1, <2>1, <2>2, <3>1, <3>2, <3>3, <3>6 DEF d, b
  <2>3. CASE d[1] \notin KnownCodings
    <3>1. Wire(r) = b
      BY <1>2, <2>1, <2>3
    <3> QED  BY <1>1, <2>1, <2>3, <3>1 DEF d, b
  <2> QED  BY <2>2, <2>3
<1>5. Wire(r) \in Seq(CodingNames)
  <2>1. d \o b \in Seq(CodingNames)
    BY <1>1
  <2> QED  BY <1>1, <1>2, <2>1
<1> QED  BY <1>1, <1>3, <1>4, <1>5 DEF d, b

\* The fields of an entry, and the two ways to keep its body.
LEMMA KeepsIs ==
    ASSUME NEW e, Keeps(e), layout \in {"cache2", "cfurl", "cachestorage"}
    PROVE  /\ e.there /\ e.response \in Responses /\ e.kept \in Kept(e.response)
           /\ e.response.declared \in Seq(CodingNames) /\ e.kept \in Seq(CodingNames)
<1>1. PICK r \in Responses : \E kept \in Kept(r) : \E state, overflow, cache :
        e = EntryOf(r, kept, state, overflow, cache)
  BY DEF Keeps
<1>2. PICK kept \in Kept(r) : \E state, overflow, cache : e = EntryOf(r, kept, state, overflow, cache)
  BY <1>1
<1>3. e.there /\ e.response = r /\ e.kept = kept
  BY <1>2 DEF EntryOf
<1>4. r.declared \in Seq(CodingNames) /\ Kept(r) \subseteq Seq(CodingNames)
  BY WireIs DEF Kept
<1> QED  BY <1>3, <1>4

\* Taking off what is declared, outcome by outcome.
OneTakenOff(declared, raw, o) ==
    \/ declared = <<>> /\ o = DecodedTo(Outcome(raw, TRUE, "none"))
    \/ declared # <<>> /\ o = DecodedTo(Outcome(raw, FALSE, "unsupported"))
    \/ declared # <<>> /\ o = NotDecoded(FALSE)
    \/ declared # <<>> /\ o = NotDecoded(TRUE)
    \/ /\ Len(declared) = 1 /\ raw # <<>> /\ Head(raw) = declared[1]
       /\ o = DecodedTo(Outcome(Tail(raw), TRUE, "none"))

LEMMA DecodeDeclaredIs ==
    ASSUME NEW declared \in Seq(CodingNames), NEW raw, NEW big
    PROVE  OneTakenOff(declared, raw, DecodeDeclared(declared, raw, big))
<1> USE DEF OneTakenOff
<1>1. CASE declared = <<>>
  BY <1>1 DEF DecodeDeclared
<1>2. CASE declared # <<>> /\ (Len(declared) > 1 \/ declared = <<"unknown">>)
  BY <1>2 DEF DecodeDeclared
<1>3. CASE declared # <<>> /\ ~(Len(declared) > 1 \/ declared = <<"unknown">>)
  <2>1. Len(declared) = 1
    <3>1. Len(declared) \in Nat /\ (Len(declared) = 0 => declared = <<>>)
      OBVIOUS
    <3>2. Len(declared) # 0 /\ ~(Len(declared) > 1)
      BY <1>3, <3>1
    <3>3. \A n \in Nat : n # 0 /\ ~(n > 1) => n = 1
      OBVIOUS
    <3> QED  BY <3>1, <3>2, <3>3
  <2>2. DecodeDeclared(declared, raw, big) =
          IF raw = <<>> \/ Head(raw) # declared[1] THEN NotDecoded(FALSE)
          ELSE IF big THEN NotDecoded(TRUE) ELSE DecodedTo(Outcome(Tail(raw), TRUE, "none"))
    BY <1>3 DEF DecodeDeclared
  <2>3. CASE raw = <<>> \/ Head(raw) # declared[1]
    BY <1>3, <2>2, <2>3
  <2>4. CASE ~(raw = <<>> \/ Head(raw) # declared[1])
    BY <1>3, <2>1, <2>2, <2>4
  <2> QED  BY <2>3, <2>4
<1> QED  BY <1>1, <1>2, <1>3

\* Some facts that the three readers share: what can be told of an entry.
LEMMA WhatIsTold ==
    ASSUME NEW e, Keeps(e), layout \in {"cache2", "cfurl", "cachestorage"},
           ~CannotTell([of |-> e])
    PROVE  LET declared == HeadOf(e)
               delivered == e.response.delivered
           IN  /\ declared \in Seq(CodingNames) /\ declared \in {<<>>, e.response.declared}
               /\ declared = <<>> => e.kept = delivered
               /\ Len(declared) = 1 /\ e.kept # <<>> /\ Head(e.kept) = declared[1] =>
                     Tail(e.kept) = delivered
<1> DEFINE r == e.response
           wire == Wire(r)
<1>1. /\ r \in Responses /\ e.kept \in Kept(r) /\ Kept(r) \subseteq {wire, r.delivered}
      /\ r.declared \in Seq(CodingNames) /\ r.delivered \in Seq(CodingNames)
      /\ e.kept \in Seq(CodingNames)
  BY KeepsIs, WireIs DEF Kept
<1>2. /\ ~(e.kept = r.delivered /\ e.kept # <<>> /\ r.declared = <<Head(e.kept)>>)
      /\ ~(e.state = "headless" /\ e.kept # r.delivered)
  BY DEF CannotTell
<1>3. HeadOf(e) = IF e.state = "headless" THEN <<>> ELSE r.declared
  BY DEF HeadOf
<1>4. r.declared = <<>> => wire = r.delivered
  BY <1>1, WireIs
<1>5. ASSUME Len(HeadOf(e)) = 1, e.kept # <<>>, Head(e.kept) = HeadOf(e)[1]
      PROVE  Tail(e.kept) = r.delivered
  <2>1. HeadOf(e) = r.declared /\ Len(r.declared) = 1
    <3>1. Len(<<>>) = 0
      OBVIOUS
    <3> QED  BY <1>3, <1>5, <3>1
  <2>2. r.declared = <<r.declared[1]>>
    BY <1>1, <2>1
  <2>3. e.kept # r.delivered
    BY <1>2, <1>5, <2>1, <2>2
  <2>4. e.kept = wire /\ wire # r.delivered
    BY <1>1, <2>3
  <2> QED  BY <1>1, <2>1, <2>4, WireIs
<1> HIDE DEF r, wire
<1>6. HeadOf(e) \in Seq(CodingNames) /\ HeadOf(e) \in {<<>>, r.declared}
  <2>1. <<>> \in Seq(CodingNames)
    OBVIOUS
  <2> QED  BY <1>1, <1>3, <2>1
<1>7. HeadOf(e) = <<>> => e.kept = r.delivered
  BY <1>1, <1>2, <1>3, <1>4
<1> QED  BY <1>2, <1>5, <1>6, <1>7 DEF r

\* What is shown as usable is what the page got: Firefox, Safari, the Cache API.
LEMMA FirefoxBodyRight ==
    ASSUME NEW e, Keeps(e), layout = "cache2", ~CannotTell([of |-> e]),
           FirefoxBody(e, e.kept).decoded, FirefoxBody(e, e.kept).note = "none"
    PROVE  FirefoxBody(e, e.kept).body = e.response.delivered
<1> DEFINE declared == HeadOf(e)
           o == DecodeDeclared(declared, e.kept, e.response.big)
           delivered == e.response.delivered
<1>1. /\ declared \in Seq(CodingNames)
      /\ declared = <<>> => e.kept = delivered
      /\ Len(declared) = 1 /\ e.kept # <<>> /\ Head(e.kept) = declared[1] => Tail(e.kept) = delivered
  BY WhatIsTold
<1>2. FirefoxBody(e, e.kept) = IF o.ok THEN o.outcome ELSE Outcome(e.kept, FALSE, "failed")
  BY DEF FirefoxBody, ParseCache2Metadata
<1>3. OneTakenOff(declared, e.kept, o)
  BY <1>1, DecodeDeclaredIs
<1> HIDE DEF declared, delivered, o
<1>4. o.ok /\ o.outcome.decoded
  <2>1. ~Outcome(e.kept, FALSE, "failed").decoded
    BY DEF Outcome
  <2>2. CASE ~o.ok
    <3>1. FirefoxBody(e, e.kept) = Outcome(e.kept, FALSE, "failed")
      BY <1>2, <2>2
    <3> QED  BY <2>1, <3>1
  <2>3. CASE o.ok
    BY <1>2, <2>3
  <2> QED  BY <2>2, <2>3
<1>5. \/ declared = <<>> /\ o.outcome.body = e.kept
      \/ /\ Len(declared) = 1 /\ e.kept # <<>> /\ Head(e.kept) = declared[1]
         /\ o.outcome.body = Tail(e.kept)
  <2>1. o # NotDecoded(FALSE) /\ o # NotDecoded(TRUE)
    BY <1>4 DEF NotDecoded
  <2>2. o # DecodedTo(Outcome(e.kept, FALSE, "unsupported"))
    BY <1>4 DEF DecodedTo, Outcome
  <2>3. /\ DecodedTo(Outcome(e.kept, TRUE, "none")).outcome.body = e.kept
        /\ DecodedTo(Outcome(Tail(e.kept), TRUE, "none")).outcome.body = Tail(e.kept)
    BY DEF DecodedTo, Outcome
  <2> QED  BY <1>3, <2>1, <2>2, <2>3 DEF OneTakenOff
<1> QED  BY <1>1, <1>2, <1>4, <1>5 DEF delivered

LEMMA SafariBodyRight ==
    ASSUME NEW e, Keeps(e), layout = "cfurl", ~CannotTell([of |-> e]),
           DecodeSafariBody(e, e.kept).decoded, DecodeSafariBody(e, e.kept).note = "none"
    PROVE  DecodeSafariBody(e, e.kept).body = e.response.delivered
<1> DEFINE declared == HeadOf(e)
           o == DecodeDeclared(declared, e.kept, e.response.big)
           delivered == e.response.delivered
           looksCompressed == \/ declared = <<"br">>
                              \/ declared = <<"gzip">> /\ e.kept # <<>> /\ Head(e.kept) = "gzip"
           shown == DecodeSafariBody(e, e.kept)
<1>1. /\ declared \in Seq(CodingNames) /\ declared \in {<<>>, e.response.declared}
      /\ declared = <<>> => e.kept = delivered
      /\ Len(declared) = 1 /\ e.kept # <<>> /\ Head(e.kept) = declared[1] => Tail(e.kept) = delivered
  BY WhatIsTold
<1>2. OneTakenOff(declared, e.kept, o)
  BY <1>1, DecodeDeclaredIs
<1>3. shown = CASE ~looksCompressed ->
                     Outcome(e.kept, TRUE, IF declared = <<"gzip">> THEN "stored decoded" ELSE "none")
                [] looksCompressed /\ o.ok -> o.outcome
                [] OTHER -> IF o.bomb THEN Outcome(e.kept, FALSE, "failed")
                            ELSE Outcome(e.kept, TRUE, "stored decoded")
  BY DEF DecodeSafariBody, ParseResponseObject
<1>4. /\ e.response \in Responses /\ e.kept \in {Wire(e.response), delivered}
      /\ ~(Len(e.response.declared) > 1 /\ e.kept = Wire(e.response))
  <2>1. e.response \in Responses /\ e.kept \in Kept(e.response)
    BY KeepsIs
  <2>2. Kept(e.response) = {Wire(e.response), delivered}
    BY DEF Kept
  <2>3. ~(Len(e.response.declared) > 1 /\ e.kept = Wire(e.response))
    BY DEF CannotTell
  <2> QED  BY <2>1, <2>2, <2>3
<1> HIDE DEF declared, delivered, o, looksCompressed, shown
<1>5. shown.decoded /\ shown.note = "none"
  BY DEF shown
<1>6. CASE ~looksCompressed
  <2>1. shown = Outcome(e.kept, TRUE, IF declared = <<"gzip">> THEN "stored decoded" ELSE "none")
    BY <1>3, <1>6
  <2>2. shown.body = e.kept /\ declared # <<"gzip">>
    BY <1>5, <2>1 DEF Outcome
  <2>3. declared # <<"br">>
    BY <1>6 DEF looksCompressed
  <2>4. CASE e.kept # delivered
    <3>1. declared # <<>> /\ declared = e.response.declared /\ e.kept = Wire(e.response)
      BY <1>1, <1>4, <2>4
    <3>2. Len(declared) = 1
      <4>1. Len(declared) \in Nat /\ (Len(declared) = 0 => declared = <<>>)
        BY <1>1
      <4>2. ~(Len(declared) > 1)
        BY <1>4, <3>1
      <4>3. \A n \in Nat : n # 0 /\ ~(n > 1) => n = 1
        OBVIOUS
      <4> QED  BY <3>1, <4>1, <4>2, <4>3
    <3>3. declared = <<declared[1]>>
      BY <1>1, <3>2
    <3>4. declared[1] \in KnownCodings
      BY <1>4, <2>4, <3>1, <3>2, WireIs DEF delivered
    <3> QED  BY <2>2, <2>3, <3>3, <3>4 DEF KnownCodings
  <2> QED  BY <2>2, <2>4 DEF delivered, shown
<1>7. CASE looksCompressed /\ o.ok
  <2>1. shown = o.outcome
    BY <1>3, <1>7
  <2>2. o # NotDecoded(FALSE) /\ o # NotDecoded(TRUE)
    BY <1>7 DEF NotDecoded
  <2>3. o # DecodedTo(Outcome(e.kept, FALSE, "unsupported"))
    BY <1>5, <2>1 DEF DecodedTo, Outcome
  <2>4. declared # <<>>
    BY <1>7 DEF looksCompressed
  <2>5. /\ Len(declared) = 1 /\ e.kept # <<>> /\ Head(e.kept) = declared[1]
        /\ o = DecodedTo(Outcome(Tail(e.kept), TRUE, "none"))
    BY <1>2, <2>2, <2>3, <2>4 DEF OneTakenOff
  <2>6. shown.body = Tail(e.kept)
    BY <2>1, <2>5 DEF DecodedTo, Outcome
  <2> QED  BY <1>1, <2>5, <2>6 DEF delivered, shown
<1>8. CASE looksCompressed /\ ~o.ok
  <2>1. shown = IF o.bomb THEN Outcome(e.kept, FALSE, "failed")
                ELSE Outcome(e.kept, TRUE, "stored decoded")
    BY <1>3, <1>8
  <2> QED  BY <1>5, <2>1 DEF Outcome
<1> QED  BY <1>6, <1>7, <1>8

LEMMA CachestorageBodyRight ==
    ASSUME NEW e, Keeps(e), layout = "cachestorage", ~CannotTell([of |-> e]),
           UsableBody(e, e.kept).note = "none"
    PROVE  UsableBody(e, e.kept).body = e.response.delivered
<1> DEFINE declared == HeadOf(e)
           o == DecodeDeclared(declared, e.kept, e.response.big)
           opened == declared # <<>> /\ o.ok /\ o.outcome.decoded /\ o.outcome.body # e.kept
           shown == UsableBody(e, e.kept)
<1>1. shown = CASE declared = <<>> -> Outcome(e.kept, TRUE, "none")
                [] opened -> Outcome(o.outcome.body, TRUE, "re-inflated")
                [] OTHER -> Outcome(e.kept, TRUE, "stored decoded")
  BY DEF UsableBody, ParseCachestorageMetadata
<1>2. declared = <<>> => e.kept = e.response.delivered
  BY WhatIsTold
<1>3. opened => declared # <<>>
  OBVIOUS
<1>4. shown.note = "none"
  OBVIOUS
<1> HIDE DEF declared, o, opened, shown
<1>5. CASE declared = <<>>
  <2>1. shown = Outcome(e.kept, TRUE, "none")
    BY <1>1, <1>3, <1>5
  <2> QED  BY <1>2, <1>5, <2>1 DEF Outcome, shown
<1>6. CASE opened
  <2>1. shown = Outcome(o.outcome.body, TRUE, "re-inflated")
    BY <1>1, <1>3, <1>6
  <2> QED  BY <1>4, <2>1 DEF Outcome
<1>7. CASE declared # <<>> /\ ~opened
  <2>1. shown = Outcome(e.kept, TRUE, "stored decoded")
    BY <1>1, <1>7
  <2> QED  BY <1>4, <2>1 DEF Outcome
<1> QED  BY <1>5, <1>6, <1>7

\* Whatever entry is read, and whichever reader reads it.
LEMMA EntryReadRight ==
    ASSUME NEW p, Keeps(held[p]), held[p].state # "cut"
    PROVE  /\ layout = "cache2" => ReadRight(ResourceFromCache2Bytes(p))
           /\ layout = "cfurl" => ReadRight(ResourceFromRow(p))
           /\ layout = "cachestorage" => ReadRight(ResourceFromCachestorageEntry(p))
<1> DEFINE e == held[p]
<1>1. ASSUME NEW raw, NEW usable, NEW note,
             raw = e.kept \/ (raw = Missing /\ note = "unreadable"),
             /\ note = "none" /\ usable.decoded /\ usable.note = "none" /\ ~CannotTell([of |-> e])
                  => usable.body = e.response.delivered
      PROVE  ReadRight(ResourceRead(p, e, raw, usable, note))
  <2> DEFINE r == ResourceRead(p, e, raw, usable, note)
  <2>1. /\ r.of = e /\ r.raw = raw /\ r.body = usable.body
        /\ r.note = IF note = "none" THEN usable.note ELSE note
    BY DEF ResourceRead
  <2>2. r.decoded = usable.decoded
    BY DEF ResourceRead
  <2> HIDE DEF r
  <2>3. CannotTell(r) = CannotTell([of |-> e])
    BY <2>1 DEF CannotTell
  <2>4. r.decoded /\ r.note = "none" /\ ~CannotTell(r) => r.body = e.response.delivered
    <3> SUFFICES ASSUME r.decoded, r.note = "none", ~CannotTell(r) PROVE r.body = e.response.delivered
      OBVIOUS
    <3>1. note = "none" /\ usable.note = "none"
      BY <2>1
    <3>2. usable.decoded
      BY <2>2
    <3> QED  BY <1>1, <2>1, <2>3, <3>1, <3>2
  <2>5. r.raw = e.kept \/ (r.raw = Missing /\ r.note = "unreadable")
    BY <1>1, <2>1
  <2> QED  BY <2>1, <2>4, <2>5 DEF ReadRight, r
<1>2. CASE layout = "cache2"
  <2>1. ReadRight(ResourceRead(p, e, e.kept, FirefoxBody(e, e.kept), "none"))
    BY <1>1, <1>2, FirefoxBodyRight
  <2> QED  BY <1>2, <2>1 DEF ResourceFromCache2Bytes
<1>3. CASE layout = "cfurl"
  <2>1. CASE e.overflow = "gone"
    <3>1. ReadRight(ResourceRead(p, e, Missing, DecodeSafariBody(e, Missing), "unreadable"))
      BY <1>1
    <3> QED  BY <1>3, <2>1, <3>1 DEF ResourceFromRow
  <2>2. CASE e.overflow # "gone"
    <3>1. ReadRight(ResourceRead(p, e, e.kept, DecodeSafariBody(e, e.kept), "none"))
      BY <1>1, <1>3, SafariBodyRight
    <3> QED  BY <1>3, <2>2, <3>1 DEF ResourceFromRow
  <2> QED  BY <2>1, <2>2
<1>4. CASE layout = "cachestorage"
  <2>1. ReadRight(ResourceRead(p, e, e.kept, UsableBody(e, e.kept), "none"))
    BY <1>1, <1>4, CachestorageBodyRight
  <2> QED  BY <1>4, <2>1 DEF ResourceFromCachestorageEntry
<1> QED  BY <1>2, <1>3, <1>4

-----------------------------------------------------------------------------

LEMMA BodiesInitSound == BodiesInit => BodiesInv
<1> SUFFICES ASSUME BodiesInit PROVE BodiesInv
  OBVIOUS
<1>1. /\ layout \in {"cache2", "cfurl", "cachestorage"} /\ toRead = NotBegun /\ found = {}
      /\ lasting = {} /\ held = stored
  BY DEF BodiesInit
<1>2. listed \in [caches : SUBSET (CacheNames \cup {NoName}), cut : BOOLEAN]
  <2>1. CASE layout = "cachestorage"
    BY <2>1 DEF BodiesInit
  <2>2. CASE layout # "cachestorage"
    <3>1. listed = [caches |-> {NoName}, cut |-> FALSE]
      BY <2>2 DEF BodiesInit
    <3> QED  BY <3>1
  <2> QED  BY <2>1, <2>2
<1>3. stored = [p \in Places |-> stored[p]] /\ \A p \in Places : stored[p] = NoEntry \/ Keeps(stored[p])
  <2>1. CASE stored = NoEntries
    BY <2>1 DEF NoEntries
  <2>2. ASSUME NEW r \in Responses, NEW kept \in Kept(r), NEW state, NEW overflow, NEW cache,
               stored = [NoEntries EXCEPT ![AnyPlace] = EntryOf(r, kept, state, overflow, cache)]
        PROVE  stored = [p \in Places |-> stored[p]] /\ \A p \in Places : stored[p] = NoEntry \/ Keeps(stored[p])
    <3>1. Keeps(EntryOf(r, kept, state, overflow, cache))
      BY DEF Keeps
    <3> QED  BY <2>2, <3>1 DEF NoEntries
  <2>3. \/ stored = NoEntries
        \/ \E r \in Responses, state \in EntryStates, overflow \in {"inline", "file"} :
              \E kept \in Kept(r), cache \in (IF layout = "cachestorage" THEN CacheNames ELSE {NoName}) :
                 stored = [NoEntries EXCEPT ![AnyPlace] = EntryOf(r, kept, state, overflow, cache)]
    BY DEF BodiesInit
  <2> QED  BY <2>1, <2>2, <2>3
<1> QED  BY <1>1, <1>2, <1>3 DEF BodiesInv, PlacesSound, OfPlaces

LEMMA BodiesStepSound == BodiesInv /\ [BodiesNext]_bodyVars => BodiesInv'
<1> SUFFICES ASSUME BodiesInv, [BodiesNext]_bodyVars PROVE BodiesInv'
  OBVIOUS
<1>0. /\ layout \in {"cache2", "cfurl", "cachestorage"}
      /\ listed \in [caches : SUBSET (CacheNames \cup {NoName}), cut : BOOLEAN]
      /\ PlacesSound /\ OfPlaces(held) /\ OfPlaces(stored)
      /\ \A p \in Places : (held[p] = NoEntry \/ Keeps(held[p])) /\ (stored[p] = NoEntry \/ Keeps(stored[p]))
      /\ layout # "cfurl" => held = stored
      /\ toRead = NotBegun \/ toRead \subseteq Places
      /\ \A r \in found : ReadRight(r)
      /\ lasting \subseteq Places /\ \A p \in lasting : StaysSound(p)
  <2>1. /\ layout \in {"cache2", "cfurl", "cachestorage"}
        /\ listed \in [caches : SUBSET (CacheNames \cup {NoName}), cut : BOOLEAN]
        /\ PlacesSound
        /\ toRead = NotBegun \/ toRead \subseteq Places
        /\ \A r \in found : ReadRight(r)
        /\ lasting \subseteq Places /\ \A p \in lasting : StaysSound(p)
    BY DEF BodiesInv
  <2>2. OfPlaces(held) /\ OfPlaces(stored)
    BY <2>1 DEF PlacesSound
  <2>3. \A p \in Places : (held[p] = NoEntry \/ Keeps(held[p])) /\ (stored[p] = NoEntry \/ Keeps(stored[p]))
    BY <2>1 DEF PlacesSound
  <2>4. layout # "cfurl" => held = stored
    BY <2>1 DEF PlacesSound
  <2> QED  BY <2>1, <2>2, <2>3, <2>4
<1>1. layout' = layout
  <2>1. StoreEntry => layout' = layout
    BY DEF StoreEntry
  <2>2. EvictEntry => layout' = layout
    BY DEF EvictEntry
  <2>3. RemoveBodyFile => layout' = layout
    BY DEF RemoveBodyFile
  <2>4. CheckpointRows \/ DeleteCache => layout' = layout
    BY DEF CheckpointRows, DeleteCache
  <2>5. BeginReading \/ ReadEntry => layout' = layout
    BY DEF BeginReading, ReadEntry
  <2> QED  BY <2>1, <2>2, <2>3, <2>4, <2>5 DEF BodiesNext, bodyVars
<1>2. /\ \A e : Keeps(e)' = Keeps(e)
      /\ \A r : ReadRight(r)' = ReadRight(r)
  <2>1. \A r : Kept(r)' = Kept(r) /\ CannotTell(r)' = CannotTell(r)
    BY <1>1 DEF Kept, CannotTell
  <2> QED  BY <2>1 DEF Keeps, ReadRight
\* A change of one place: what stays is untouched.
<1>3. ASSUME NEW p \in Places, NEW e, NEW f, e = NoEntry \/ Keeps(e), f = NoEntry \/ Keeps(f),
             stored' = [stored EXCEPT ![p] = e], held' = [held EXCEPT ![p] = f],
             layout # "cfurl" => e = f,
             lasting' = lasting \ {p}, UNCHANGED <<listed, toRead, found, inLog>>
      PROVE  BodiesInv'
  <2>1. /\ held' = [q \in Places |-> IF q = p THEN f ELSE held[q]]
        /\ stored' = [q \in Places |-> IF q = p THEN e ELSE stored[q]]
    BY <1>0, <1>3 DEF OfPlaces
  <2>2. \A q \in Places : /\ held'[q] = IF q = p THEN f ELSE held[q]
                          /\ stored'[q] = IF q = p THEN e ELSE stored[q]
    BY <2>1
  <2>3. OfPlaces(held') /\ OfPlaces(stored')
    BY <2>1, <2>2 DEF OfPlaces
  <2>4. ASSUME NEW q \in Places
        PROVE  (held[q] = NoEntry \/ Keeps(held[q]))' /\ (stored[q] = NoEntry \/ Keeps(stored[q]))'
    <3>1. /\ held'[q] = NoEntry \/ Keeps(held'[q])
          /\ stored'[q] = NoEntry \/ Keeps(stored'[q])
      BY <1>0, <1>3, <2>2
    <3>2. \A r : Kept(r)' = Kept(r)
      BY <1>1 DEF Kept
    <3> QED  BY <3>1, <3>2 DEF Keeps
  <2>5. layout # "cfurl" => held' = stored'
    BY <1>0, <1>3, <2>1
  <2>6. PlacesSound'
    BY <1>1, <2>3, <2>4, <2>5 DEF PlacesSound, OfPlaces
  <2>7. ASSUME NEW q \in lasting' PROVE StaysSound(q)'
    <3>1. q \in lasting /\ q # p /\ held'[q] = held[q] /\ stored'[q] = stored[q]
      BY <1>0, <1>3, <2>2
    <3>2. StaysSound(q)
      BY <1>0, <3>1
    <3> QED  BY <1>1, <1>3, <3>1, <3>2 DEF StaysSound, PassedOver
  <2> QED  BY <1>0, <1>1, <1>2, <1>3, <2>6, <2>7 DEF BodiesInv
<1>4. CASE UNCHANGED bodyVars
  <2>1. UNCHANGED <<layout, stored, held, listed, toRead, found, lasting, inLog>>
    BY <1>4 DEF bodyVars
  <2>2. PlacesSound'
    BY <1>0, <1>2, <2>1 DEF PlacesSound
  <2>3. \A p \in lasting' : StaysSound(p)'
    BY <1>0, <2>1 DEF StaysSound, PassedOver
  <2> QED  BY <1>0, <1>2, <2>1, <2>2, <2>3 DEF BodiesInv
\* A row that is written is in the log, and in the file what was there.
<1>5. ASSUME NEW p \in Places, NEW e, e = NoEntry \/ Keeps(e), Puts(p, e), Replaced(p),
             UNCHANGED <<listed, toRead, found, inLog>>
      PROVE  BodiesInv'
  <2> DEFINE f == IF layout = "cfurl" THEN held[p] ELSE e
  <2>1. held' = [held EXCEPT ![p] = f]
    <3>1. held = [held EXCEPT ![p] = held[p]]
      BY <1>0 DEF OfPlaces
    <3> QED  BY <1>5, <3>1 DEF Puts
  <2>2. f = NoEntry \/ Keeps(f)
    BY <1>0, <1>5
  <2>3. layout # "cfurl" => e = f
    OBVIOUS
  <2>4. stored' = [stored EXCEPT ![p] = e] /\ lasting' = lasting \ {p}
    BY <1>5 DEF Puts, Replaced
  <2> HIDE DEF f
  <2> QED  BY <1>3, <1>5, <2>1, <2>2, <2>3, <2>4
<1>6. CASE StoreEntry
  <2>1. PICK p \in Places, r \in Responses, state \in EntryStates \ {"headless"}, cache \in listed.caches :
          /\ Replaced(p)
          /\ \E kept \in Kept(r) : Puts(p, EntryOf(r, kept, state, "inline", cache))
    BY <1>6 DEF StoreEntry
  <2>2. PICK kept \in Kept(r) : Puts(p, EntryOf(r, kept, state, "inline", cache))
    BY <2>1
  <2>3. Keeps(EntryOf(r, kept, state, "inline", cache))
    BY DEF Keeps
  <2>4. UNCHANGED <<listed, toRead, found, inLog>>
    BY <1>6 DEF StoreEntry
  <2> QED  BY <1>5, <2>1, <2>2, <2>3, <2>4
<1>7. CASE EvictEntry
  <2>1. PICK p \in Places : Replaced(p) /\ Puts(p, NoEntry)
    BY <1>7 DEF EvictEntry
  <2>2. UNCHANGED <<listed, toRead, found, inLog>>
    BY <1>7 DEF EvictEntry
  <2> QED  BY <1>5, <2>1, <2>2
<1>8. CASE RemoveBodyFile
  <2> DEFINE Gone(e) == EntryOf(e.response, e.kept, e.state, "gone", e.cache)
  <2>1. PICK p \in Places :
          /\ held[p].there /\ Replaced(p)
          /\ held' = [held EXCEPT ![p] = Gone(held[p])]
          /\ stored' = IF stored[p] = held[p] THEN [stored EXCEPT ![p] = Gone(held[p])] ELSE stored
    BY <1>8 DEF RemoveBodyFile
  <2>2. Keeps(held[p])
    <3>1. ~NoEntry.there
      BY DEF NoEntry
    <3> QED  BY <1>0, <2>1, <3>1
  <2>3. Keeps(Gone(held[p]))
    <3>1. held[p].response \in Responses /\ held[p].kept \in Kept(held[p].response)
      BY <1>0, <2>2, KeepsIs
    <3> QED  BY <3>1 DEF Keeps
  <2> DEFINE f == Gone(held[p])
             e == IF stored[p] = held[p] THEN f ELSE stored[p]
  <2>4. held' = [held EXCEPT ![p] = f] /\ (f = NoEntry \/ Keeps(f))
    BY <2>1, <2>3
  <2>5. stored' = [stored EXCEPT ![p] = e] /\ (e = NoEntry \/ Keeps(e))
    <3>1. stored = [stored EXCEPT ![p] = stored[p]]
      BY <1>0 DEF OfPlaces
    <3> QED  BY <1>0, <2>1, <2>3, <3>1
  <2>6. layout # "cfurl" => e = f
    BY <1>0
  <2>7. lasting' = lasting \ {p} /\ UNCHANGED <<listed, toRead, found, inLog>>
    BY <1>8, <2>1 DEF RemoveBodyFile, Replaced
  <2> HIDE DEF e, f
  <2> QED  BY <1>3, <2>4, <2>5, <2>6, <2>7
<1>9. CASE CheckpointRows
  <2>1. held' = stored /\ UNCHANGED <<layout, stored, listed, toRead, found, lasting, inLog>>
    BY <1>9 DEF CheckpointRows
  <2>2. PlacesSound'
    BY <1>0, <1>2, <2>1 DEF PlacesSound
  <2>3. ASSUME NEW p \in lasting' PROVE StaysSound(p)'
    <3>1. StaysSound(p)
      BY <1>0, <2>1
    <3> QED  BY <2>1, <3>1 DEF StaysSound, PassedOver
  <2> QED  BY <1>0, <1>2, <2>1, <2>2, <2>3 DEF BodiesInv
<1>10. CASE DeleteCache
  <2>1. /\ UNCHANGED <<layout, stored, held, toRead, found, inLog>> /\ lasting' \subseteq lasting
        /\ \E c \in listed.caches : listed' = [listed EXCEPT !.caches = @ \ {c}]
    BY <1>10 DEF DeleteCache
  <2>2. listed' \in [caches : SUBSET (CacheNames \cup {NoName}), cut : BOOLEAN] /\ listed'.cut = listed.cut
    BY <1>0, <2>1
  <2>3. PlacesSound'
    BY <1>0, <1>2, <2>1 DEF PlacesSound
  <2>4. ASSUME NEW p \in lasting' PROVE StaysSound(p)'
    <3>1. StaysSound(p)
      BY <1>0, <2>1
    <3> QED  BY <2>1, <2>2, <3>1 DEF StaysSound, PassedOver
  <2> QED  BY <1>0, <1>2, <2>1, <2>2, <2>3, <2>4 DEF BodiesInv
<1>11. CASE BeginReading
  <2> DEFINE entered == IF layout = "cachestorage" THEN ParseCachestorageIndex ELSE listed.caches
  <2>1. /\ UNCHANGED <<layout, stored, held, listed, found>>
        /\ toRead' = {p \in Places : held[p].there /\ held[p].cache \in entered}
        /\ lasting' = {p \in Places : /\ stored[p].there /\ stored[p].cache \in listed.caches
                                      /\ stored[p].state # "cut"}
        /\ inLog' = {p \in Places : held[p] # stored[p]}
    BY <1>11 DEF BeginReading
  <2>2. PlacesSound'
    BY <1>0, <1>2, <2>1 DEF PlacesSound
  <2>3. ASSUME NEW p \in lasting', ~PassedOver(p)' PROVE held[p] = stored[p] /\ p \in toRead'
    <3>1. p \in Places /\ stored[p].there /\ stored[p].cache \in listed.caches
      BY <2>1
    <3>2. held[p] = stored[p]
      <4>1. CASE layout = "cfurl"
        BY <2>1, <2>3, <3>1, <4>1 DEF PassedOver
      <4>2. CASE layout # "cfurl"
        BY <1>0, <4>2
      <4> QED  BY <4>1, <4>2
    <3>3. entered = listed.caches
      BY <2>1, <2>3 DEF PassedOver, ParseCachestorageIndex
    <3> QED  BY <2>1, <3>1, <3>2, <3>3
  <2>4. ASSUME NEW p \in lasting' PROVE StaysSound(p)'
    BY <2>1, <2>3 DEF StaysSound
  <2> QED  BY <1>0, <1>2, <2>1, <2>2, <2>4 DEF BodiesInv
<1>12. CASE ReadEntry
  <2>1. /\ toRead # NotBegun /\ UNCHANGED <<layout, stored, held, listed, edits, lasting, inLog>>
        /\ \E p \in toRead :
             /\ toRead' = toRead \ {p}
             /\ found' = IF ~held[p].there \/ held[p].state = "cut" THEN found
                         ELSE found \cup {CASE layout = "cache2" -> ResourceFromCache2Bytes(p)
                                            [] layout = "cfurl" -> ResourceFromRow(p)
                                            [] layout = "cachestorage" -> ResourceFromCachestorageEntry(p)}
    BY <1>12 DEF ReadEntry
  <2>2. PICK p \in toRead :
             /\ toRead' = toRead \ {p}
             /\ found' = IF ~held[p].there \/ held[p].state = "cut" THEN found
                         ELSE found \cup {CASE layout = "cache2" -> ResourceFromCache2Bytes(p)
                                            [] layout = "cfurl" -> ResourceFromRow(p)
                                            [] layout = "cachestorage" -> ResourceFromCachestorageEntry(p)}
    BY <2>1
  <2>3. p \in Places /\ toRead' \subseteq Places
    BY <1>0, <2>1, <2>2
  <2>4. PlacesSound'
    BY <1>0, <1>2, <2>1 DEF PlacesSound
  <2>5. CASE ~held[p].there \/ held[p].state = "cut"
    <3>1. found' = found
      BY <2>2, <2>5
    <3>2. ASSUME NEW q \in lasting' PROVE StaysSound(q)'
      <4>1. StaysSound(q)
        BY <1>0, <2>1
      <4>2. q # p \/ PassedOver(q)
        BY <2>5, <4>1 DEF StaysSound
      <4> QED  BY <2>1, <2>2, <3>1, <4>1, <4>2 DEF StaysSound, PassedOver
    <3> QED  BY <1>0, <1>2, <2>1, <2>2, <2>3, <2>4, <3>1, <3>2 DEF BodiesInv
  <2>6. CASE held[p].there /\ held[p].state # "cut"
    <3>1. PICK r : found' = found \cup {r} /\ ReadRight(r) /\ r.at = p /\ r.of = held[p]
      <4>1. Keeps(held[p])
        <5>1. ~NoEntry.there
          BY DEF NoEntry
        <5> QED  BY <1>0, <2>3, <2>6, <5>1
      <4>2. /\ layout = "cache2" => ReadRight(ResourceFromCache2Bytes(p))
            /\ layout = "cfurl" => ReadRight(ResourceFromRow(p))
            /\ layout = "cachestorage" => ReadRight(ResourceFromCachestorageEntry(p))
        BY <2>6, <4>1, EntryReadRight
      <4>3. \A raw, usable, note : /\ ResourceRead(p, held[p], raw, usable, note).at = p
                                   /\ ResourceRead(p, held[p], raw, usable, note).of = held[p]
        BY DEF ResourceRead
      <4>4. /\ ResourceFromCache2Bytes(p).at = p /\ ResourceFromCache2Bytes(p).of = held[p]
            /\ ResourceFromRow(p).at = p /\ ResourceFromRow(p).of = held[p]
            /\ ResourceFromCachestorageEntry(p).at = p /\ ResourceFromCachestorageEntry(p).of = held[p]
        BY <4>3 DEF ResourceFromCache2Bytes, ResourceFromRow, ResourceFromCachestorageEntry
      <4>5. CASE layout = "cache2"
        BY <2>2, <2>6, <4>2, <4>4, <4>5
      <4>6. CASE layout = "cfurl"
        BY <2>2, <2>6, <4>2, <4>4, <4>6
      <4>7. CASE layout = "cachestorage"
        BY <2>2, <2>6, <4>2, <4>4, <4>7
      <4> QED  BY <1>0, <4>5, <4>6, <4>7
    <3>2. ASSUME NEW q \in lasting' PROVE StaysSound(q)'
      <4>1. StaysSound(q)
        BY <1>0, <2>1
      <4>2. PassedOver(q)' = PassedOver(q)
        BY <2>1 DEF PassedOver
      <4>3. ASSUME ~PassedOver(q) PROVE q \in toRead' \/ \E s \in found' : s.at = q /\ s.of = stored[q]
        <5>1. held[q] = stored[q] /\ (q \in toRead \/ \E s \in found : s.at = q /\ s.of = stored[q])
          BY <4>1, <4>3 DEF StaysSound
        <5> QED  BY <2>2, <3>1, <5>1
      <4> QED  BY <2>1, <4>1, <4>2, <4>3 DEF StaysSound
    <3>3. \A s \in found' : ReadRight(s)
      BY <1>0, <3>1
    <3> QED  BY <1>0, <1>2, <2>1, <2>3, <2>4, <3>2, <3>3 DEF BodiesInv
  <2> QED  BY <2>5, <2>6
<1> QED  BY <1>4, <1>6, <1>7, <1>8, <1>9, <1>10, <1>11, <1>12 DEF BodiesNext

\* Whatever the browser changes while its cache is read, and whatever the answers are:
\* a body that is shown as usable and unremarked is the one that the page got, unless
\* nothing kept tells how it is coded, and nothing that stays is passed over but what an
\* index that is cut lists and what Safari has in its log only (safari.rs 20-26, 77-80,
\* cachestorage.rs 25-35, 44-48, firefox.rs 42-48).
THEOREM BodiesCorrect == BodiesSpec => []BodiesAreWhatWasDelivered
<1>1. BodiesInv => BodiesAreWhatWasDelivered
  BY DEF BodiesInv, BodiesAreWhatWasDelivered, ReadRight, StaysSound
<1> QED  BY <1>1, BodiesInitSound, BodiesStepSound, PTL DEF BodiesSpec

-----------------------------------------------------------------------------
(* The records that pages write. *)

\* Records that are written as one, each of a key of its own.
IsBatch(batch, R) ==
    /\ Len(batch) \in Nat /\ DOMAIN batch = 1..Len(batch)
    /\ R = {batch[i] : i \in DOMAIN batch}
    /\ \A i, j \in DOMAIN batch : batch[i].key = batch[j].key => i = j

LedgerSound ==
    lastSeq \in Nat /\ DOMAIN ldb \subseteq 1..lastSeq /\ ldb = [n \in DOMAIN ldb |-> ldb[n]]

\* What is written follows what is there, and is the last of its keys.
LEMMA WriteIs ==
    ASSUME LedgerSound, NEW batch, NEW R, IsBatch(batch, R), Write(batch)
    PROVE  /\ LedgerSound' /\ lastSeq <= lastSeq'
           /\ \A n \in DOMAIN ldb :
                 /\ n \in DOMAIN ldb' /\ ldb'[n] = ldb[n]
                 /\ IsLast(n)' <=> IsLast(n) /\ \A r \in R : r.key # ldb[n].key
           /\ \A n \in DOMAIN ldb' : n \notin DOMAIN ldb => ldb'[n] \in R /\ IsLast(n)'
           /\ \A r \in R : \E n \in DOMAIN ldb' : n \notin DOMAIN ldb /\ ldb'[n] = r
<1> DEFINE len == Len(batch)
           new == (lastSeq + 1)..(lastSeq + len)
<1>1. /\ len \in Nat /\ DOMAIN batch = 1..len /\ R = {batch[i] : i \in DOMAIN batch}
      /\ \A i, j \in DOMAIN batch : batch[i].key = batch[j].key => i = j
  BY DEF IsBatch
<1>2. /\ lastSeq \in Nat /\ \A n \in DOMAIN ldb : n \in Nat /\ 1 <= n /\ n <= lastSeq
  BY DEF LedgerSound
<1>3. /\ lastSeq' = lastSeq + len
      /\ ldb' = [n \in DOMAIN ldb \cup new |-> IF n <= lastSeq THEN ldb[n] ELSE batch[n - lastSeq]]
  BY DEF Write
<1>4. \A n \in new : n \in Nat /\ ~(n <= lastSeq) /\ n <= lastSeq + len /\ n - lastSeq \in DOMAIN batch
  BY <1>1, <1>2
<1>5. \A i \in DOMAIN batch : lastSeq + i \in new /\ (lastSeq + i) - lastSeq = i
  BY <1>1, <1>2
<1> HIDE DEF new, len
<1>6. /\ DOMAIN ldb' = DOMAIN ldb \cup new
      /\ \A n \in DOMAIN ldb : ldb'[n] = ldb[n]
      /\ \A n \in new : ldb'[n] = batch[n - lastSeq]
  BY <1>2, <1>3, <1>4
<1>7. \A n \in new : n \notin DOMAIN ldb
  BY <1>2, <1>4
<1>8. LedgerSound'
  <2>1. lastSeq' \in Nat /\ lastSeq <= lastSeq'
    BY <1>1, <1>2, <1>3
  <2>2. DOMAIN ldb' \subseteq 1..lastSeq'
    <3>1. \A n \in DOMAIN ldb' : n \in Nat /\ 1 <= n /\ n <= lastSeq'
      BY <1>1, <1>2, <1>3, <1>4, <1>6
    <3> QED  BY <2>1, <3>1
  <2>3. ldb' = [n \in DOMAIN ldb' |-> ldb'[n]]
    BY <1>3, <1>6
  <2> QED  BY <2>1, <2>2, <2>3 DEF LedgerSound
<1>9. ASSUME NEW n \in DOMAIN ldb
      PROVE  IsLast(n)' <=> IsLast(n) /\ \A r \in R : r.key # ldb[n].key
  <2>1. ASSUME IsLast(n)' PROVE IsLast(n) /\ \A r \in R : r.key # ldb[n].key
    <3>1. \A m \in DOMAIN ldb' : ldb'[m].key = ldb'[n].key => m <= n
      BY <2>1 DEF IsLast
    <3>2. ASSUME NEW i \in DOMAIN batch, batch[i].key = ldb[n].key PROVE FALSE
      <4>1. lastSeq + i \in DOMAIN ldb' /\ ldb'[lastSeq + i] = batch[i]
        BY <1>5, <1>6
      <4>2. lastSeq + i <= n
        BY <1>6, <3>1, <3>2, <4>1
      <4> QED  BY <1>2, <1>4, <1>5, <4>2
    <3> QED  BY <1>1, <1>6, <3>1, <3>2 DEF IsLast
  <2>2. ASSUME IsLast(n), \A r \in R : r.key # ldb[n].key PROVE IsLast(n)'
    <3>1. \A m \in DOMAIN ldb' : ldb'[m].key = ldb'[n].key => m \in DOMAIN ldb
      BY <1>1, <1>4, <1>6, <2>2
    <3> QED  BY <1>6, <2>2, <3>1 DEF IsLast
  <2> QED  BY <2>1, <2>2
<1>10. ASSUME NEW n \in new PROVE ldb'[n] \in R /\ IsLast(n)'
  <2>1. ldb'[n] \in R
    BY <1>1, <1>4, <1>6
  <2>2. ASSUME NEW m \in DOMAIN ldb', ldb'[m].key = ldb'[n].key PROVE m <= n
    <3>1. CASE m \in DOMAIN ldb
      BY <1>2, <1>4, <3>1
    <3>2. CASE m \in new
      <4>1. m - lastSeq = n - lastSeq
        BY <1>1, <1>4, <1>6, <2>2, <3>2
      <4> QED  BY <1>2, <1>4, <3>2, <4>1
    <3> QED  BY <1>6, <3>1, <3>2
  <2> QED  BY <2>1, <2>2 DEF IsLast
<1>11. \A r \in R : \E n \in new : ldb'[n] = r
  BY <1>1, <1>5, <1>6
<1>12. lastSeq <= lastSeq'
  BY <1>1, <1>2, <1>3
<1>13. \A n \in DOMAIN ldb : n \in DOMAIN ldb' /\ ldb'[n] = ldb[n]
  BY <1>6
<1>14. \A n \in DOMAIN ldb' : n \notin DOMAIN ldb => ldb'[n] \in R /\ IsLast(n)'
  BY <1>6, <1>10
<1>15. \A r \in R : \E n \in DOMAIN ldb' : n \notin DOMAIN ldb /\ ldb'[n] = r
  BY <1>6, <1>7, <1>11
<1> QED  BY <1>8, <1>9, <1>12, <1>13, <1>14, <1>15

LEMMA OneIsBatch ==
    ASSUME NEW a
    PROVE  IsBatch(<<a>>, {a})
BY DEF IsBatch

LEMMA TwoAreBatch ==
    ASSUME NEW a, NEW b, a.key # b.key
    PROVE  IsBatch(<<a, b>>, {a, b})
BY DEF IsBatch

\* Tombstones of any keys, followed by others.
LEMMA TombstonesAreBatch ==
    ASSUME NEW K, IsFiniteSet(K), NEW rest, NEW R, NEW T, rest \in Seq(T), IsBatch(rest, R),
           \A r \in R : r.key \notin K
    PROVE  IsBatch(SetToSeq({Tombstone(key) : key \in K}) \o rest, {Tombstone(key) : key \in K} \cup R)
<1> DEFINE S == {Tombstone(key) : key \in K}
           s == SetToSeq(S)
           both == s \o rest
<1>1. IsFiniteSet(S)
  <2> DEFINE f == [key \in K |-> Tombstone(key)]
  <2>1. f \in Surjection(K, S)
    BY DEF Surjection
  <2> HIDE DEF f, S
  <2> QED  BY <2>1, FS_Surjection
<1>2. /\ s \in Seq(S) /\ {s[i] : i \in DOMAIN s} = S
      /\ \A i, j \in DOMAIN s : s[i] = s[j] => i = j
  BY <1>1, ListedSet DEF ToSet
<1>3. /\ Len(rest) \in Nat /\ DOMAIN rest = 1..Len(rest) /\ R = {rest[i] : i \in DOMAIN rest}
      /\ \A i, j \in DOMAIN rest : rest[i].key = rest[j].key => i = j
  BY DEF IsBatch
<1> HIDE DEF S, s
<1>4. s \in Seq(S \cup T) /\ rest \in Seq(S \cup T) /\ Len(s) \in Nat /\ DOMAIN s = 1..Len(s)
  BY <1>2
<1>5. /\ both \in Seq(S \cup T) /\ Len(both) = Len(s) + Len(rest)
      /\ \A i \in 1 .. Len(s) + Len(rest) : both[i] = IF i <= Len(s) THEN s[i] ELSE rest[i - Len(s)]
  BY <1>4, ConcatProperties
<1>6. DOMAIN both = 1..(Len(s) + Len(rest)) /\ Len(both) \in Nat
  BY <1>3, <1>4, <1>5
<1> HIDE DEF both
<1>7. \A i \in DOMAIN s : i \in DOMAIN both /\ both[i] = s[i]
  BY <1>3, <1>4, <1>5, <1>6
<1>8. \A i \in DOMAIN rest : Len(s) + i \in DOMAIN both /\ both[Len(s) + i] = rest[i]
  <2> SUFFICES ASSUME NEW i \in DOMAIN rest PROVE Len(s) + i \in DOMAIN both /\ both[Len(s) + i] = rest[i]
    OBVIOUS
  <2>1. /\ Len(s) + i \in 1..(Len(s) + Len(rest)) /\ ~(Len(s) + i <= Len(s)) /\ (Len(s) + i) - Len(s) = i
    BY <1>3, <1>4
  <2> QED  BY <1>5, <1>6, <2>1
<1>9. ASSUME NEW i \in DOMAIN both
      PROVE  \/ i \in DOMAIN s /\ both[i] = s[i]
             \/ i - Len(s) \in DOMAIN rest /\ i = Len(s) + (i - Len(s)) /\ both[i] = rest[i - Len(s)]
  BY <1>3, <1>4, <1>5, <1>6
<1>10. \A key : Tombstone(key).key = key
  BY DEF Tombstone
<1>11. \A i \in DOMAIN s : s[i].key \in K /\ s[i] = Tombstone(s[i].key)
  BY <1>2, <1>10 DEF S
<1>12. \A i, j \in DOMAIN both : both[i].key = both[j].key => i = j
  <2> SUFFICES ASSUME NEW i \in DOMAIN both, NEW j \in DOMAIN both, both[i].key = both[j].key
               PROVE  i = j
    OBVIOUS
  <2>1. \A k \in DOMAIN rest : rest[k].key \notin K
    BY <1>3
  <2>2. CASE i \in DOMAIN s /\ both[i] = s[i]
    <3>1. j \in DOMAIN s /\ both[j] = s[j]
      BY <1>9, <1>11, <2>1, <2>2
    <3>2. s[i] = s[j]
      BY <1>11, <2>2, <3>1
    <3> QED  BY <1>2, <2>2, <3>1, <3>2
  <2>3. CASE i - Len(s) \in DOMAIN rest /\ i = Len(s) + (i - Len(s)) /\ both[i] = rest[i - Len(s)]
    <3>1. j - Len(s) \in DOMAIN rest /\ j = Len(s) + (j - Len(s)) /\ both[j] = rest[j - Len(s)]
      BY <1>9, <1>11, <2>1, <2>3
    <3>2. i - Len(s) = j - Len(s)
      BY <1>3, <2>3, <3>1
    <3> QED  BY <2>3, <3>1, <3>2
  <2> QED  BY <1>9, <2>2, <2>3
<1>13. S \cup R = {both[i] : i \in DOMAIN both}
  <2>1. \A x \in S : \E i \in DOMAIN both : both[i] = x
    BY <1>2, <1>7
  <2>2. \A x \in R : \E i \in DOMAIN both : both[i] = x
    BY <1>3, <1>8
  <2>3. \A i \in DOMAIN both : both[i] \in S \cup R
    BY <1>2, <1>3, <1>9
  <2> QED  BY <2>1, <2>2, <2>3
<1> QED  BY <1>5, <1>6, <1>12, <1>13 DEF IsBatch, S, s, both


-----------------------------------------------------------------------------
(* The last record of each key. *)

IsTomb(r) == r = Tombstone(r.key)
IsWritten(r) == r = Written(r.key, r.value)

RecordsSound == \A n \in DOMAIN ldb : IsTomb(ldb[n]) \/ IsWritten(ldb[n])

\* The last that was written of the key is this value.
Says(key, value) == \E n \in DOMAIN ldb : ldb[n] = Written(key, value) /\ IsLast(n)

ItemsSound ==
    /\ IsFiniteSet(DOMAIN items)
    /\ \A key \in DOMAIN items : key.is = "data" /\ Says(key, items[key])
    /\ \A n \in DOMAIN ldb :
          ldb[n].key.is = "data" /\ IsWritten(ldb[n]) /\ IsLast(n) => ldb[n].key \in DOMAIN items

LEMMA RecordIs ==
    ASSUME NEW key, NEW value
    PROVE  /\ IsTomb(Tombstone(key)) /\ IsWritten(Written(key, value))
           /\ Tombstone(key).key = key /\ Written(key, value).key = key
           /\ Written(key, value).value = value
           /\ ~IsWritten(Tombstone(key)) /\ ~IsTomb(Written(key, value))
BY DEF IsTomb, IsWritten, Written, Tombstone

LEMMA LiveIs ==
    ASSUME NEW r
    PROVE  /\ IsTomb(r) => r.deleted
           /\ IsWritten(r) => ~r.deleted
           /\ ~(IsTomb(r) /\ IsWritten(r))
BY DEF IsTomb, IsWritten, Written, Tombstone

\* What is said of a key stays so unless a record of the key is written.
LEMMA WriteSays ==
    ASSUME LedgerSound, NEW batch, NEW R, IsBatch(batch, R), Write(batch), NEW key, NEW value
    PROVE  /\ Says(key, value) /\ (\A r \in R : r.key # key) => Says(key, value)'
           /\ Written(key, value) \in R => Says(key, value)'
<1>1. ASSUME Says(key, value), \A r \in R : r.key # key PROVE Says(key, value)'
  <2>1. PICK n \in DOMAIN ldb : ldb[n] = Written(key, value) /\ IsLast(n)
    BY <1>1 DEF Says
  <2>2. ldb[n].key = key
    BY <2>1, RecordIs
  <2>3. n \in DOMAIN ldb' /\ ldb'[n] = Written(key, value) /\ IsLast(n)'
    BY <1>1, <2>1, <2>2, WriteIs
  <2> QED  BY <2>3 DEF Says
<1>2. ASSUME Written(key, value) \in R PROVE Says(key, value)'
  <2>1. PICK n \in DOMAIN ldb' : n \notin DOMAIN ldb /\ ldb'[n] = Written(key, value)
    BY <1>2, WriteIs
  <2>2. IsLast(n)'
    BY <2>1, WriteIs
  <2> QED  BY <2>1, <2>2 DEF Says
<1> QED  BY <1>1, <1>2

\* What compaction leaves are the records that were there, the last of each key if it
\* is no tombstone among them.
LEMMA CompactIs ==
    ASSUME LedgerSound, RecordsSound, Compact
    PROVE  /\ LedgerSound' /\ RecordsSound'
           /\ \A n \in DOMAIN ldb' :
                 n \in DOMAIN ldb /\ ldb'[n] = ldb[n] /\ (IsLast(n)' => IsLast(n))
           /\ \A key, value : Says(key, value) => Says(key, value)'
<1>1. PICK key \in {ldb[n].key : n \in DOMAIN ldb} :
         ldb' = [n \in {m \in DOMAIN ldb : ldb[m].key = key => ~ldb[m].deleted /\ IsLast(m)} |-> ldb[n]]
  BY DEF Compact
<1> DEFINE kept == {m \in DOMAIN ldb : ldb[m].key = key => ~ldb[m].deleted /\ IsLast(m)}
<1>2. DOMAIN ldb' = kept /\ (\A n \in kept : ldb'[n] = ldb[n]) /\ ldb' = [n \in DOMAIN ldb' |-> ldb'[n]]
  BY <1>1
<1>3. \A n \in kept : n \in DOMAIN ldb /\ (ldb[n].key = key => IsLast(n))
  OBVIOUS
<1>4. \A n \in DOMAIN ldb : ldb[n].key # key => n \in kept
  OBVIOUS
<1>5. \A n \in DOMAIN ldb : IsWritten(ldb[n]) /\ IsLast(n) => n \in kept
  BY LiveIs
<1>6. lastSeq' = lastSeq
  BY DEF Compact
<1> HIDE DEF kept
<1>7. LedgerSound'
  BY <1>2, <1>3, <1>6 DEF LedgerSound
<1>8. RecordsSound'
  BY <1>2, <1>3 DEF RecordsSound
<1>9. \A n \in DOMAIN ldb' :
         n \in DOMAIN ldb /\ ldb'[n] = ldb[n] /\ (IsLast(n)' => IsLast(n))
  BY <1>2, <1>3, <1>4 DEF IsLast
<1>10. ASSUME NEW k, NEW value, Says(k, value) PROVE Says(k, value)'
  <2>1. PICK n \in DOMAIN ldb : ldb[n] = Written(k, value) /\ IsLast(n)
    BY <1>10 DEF Says
  <2>2. n \in kept
    BY <1>5, <2>1, RecordIs
  <2>3. IsLast(n)'
    BY <1>2, <1>3, <2>1, <2>2 DEF IsLast
  <2> QED  BY <1>2, <2>1, <2>2, <2>3 DEF Says
<1> QED  BY <1>7, <1>8, <1>9, <1>10

\* Items that change as their records do are what the last records say.
ItemsChangeAs(R) ==
    /\ IsFiniteSet(DOMAIN items)'
    /\ \A r \in R : IsTomb(r) \/ IsWritten(r)
    /\ \A key \in DOMAIN items' :
          \/ key \in DOMAIN items /\ items'[key] = items[key] /\ \A r \in R : r.key # key
          \/ key.is = "data" /\ Written(key, items'[key]) \in R
    /\ \A key \in DOMAIN items : key \in DOMAIN items' \/ \E r \in R : r.key = key
    /\ \A r \in R : r.key.is = "data" /\ IsWritten(r) => r.key \in DOMAIN items'

LEMMA ItemsWritten ==
    ASSUME LedgerSound, RecordsSound, ItemsSound, NEW batch, NEW R, IsBatch(batch, R), Write(batch),
           ItemsChangeAs(R)
    PROVE  RecordsSound' /\ ItemsSound'
<1>1. RecordsSound'
  <2>1. ASSUME NEW n \in DOMAIN ldb' PROVE IsTomb(ldb'[n]) \/ IsWritten(ldb'[n])
    <3>1. CASE n \in DOMAIN ldb
      BY <3>1, WriteIs DEF RecordsSound
    <3>2. CASE n \notin DOMAIN ldb
      BY <3>2, WriteIs DEF ItemsChangeAs
    <3> QED  BY <3>1, <3>2
  <2> QED  BY <2>1 DEF RecordsSound
<1>2. ASSUME NEW key \in DOMAIN items' PROVE key.is = "data" /\ Says(key, items[key])'
  <2>1. CASE key \in DOMAIN items /\ items'[key] = items[key] /\ \A r \in R : r.key # key
    <3>1. key.is = "data" /\ Says(key, items[key])
      BY <2>1 DEF ItemsSound
    <3>2. PICK n \in DOMAIN ldb : ldb[n] = Written(key, items'[key]) /\ IsLast(n)
      BY <2>1, <3>1 DEF Says
    <3>3. ldb[n].key = key
      BY <3>2, RecordIs
    <3>4. n \in DOMAIN ldb' /\ ldb'[n] = Written(key, items'[key]) /\ IsLast(n)'
      BY <2>1, <3>2, <3>3, WriteIs
    <3> QED  BY <3>1, <3>4 DEF Says
  <2>2. CASE key.is = "data" /\ Written(key, items'[key]) \in R
    <3> DEFINE v == items'[key]
    <3>1. Written(key, v) \in R
      BY <2>2
    <3> HIDE DEF v
    <3>2. \E n \in DOMAIN ldb' : n \notin DOMAIN ldb /\ ldb'[n] = Written(key, v)
      BY <3>1, WriteIs
    <3>3. \E n \in DOMAIN ldb' : ldb'[n] = Written(key, v) /\ IsLast(n)'
      BY <3>2, WriteIs
    <3> QED  BY <2>2, <3>3 DEF v, Says
  <2> QED  BY <2>1, <2>2 DEF ItemsChangeAs
<1>3. ASSUME NEW n \in DOMAIN ldb', ldb'[n].key.is = "data", IsWritten(ldb'[n]), IsLast(n)'
      PROVE  ldb'[n].key \in DOMAIN items'
  <2>1. CASE n \in DOMAIN ldb
    <3>1. ldb'[n] = ldb[n] /\ IsLast(n) /\ \A r \in R : r.key # ldb[n].key
      BY <1>3, <2>1, WriteIs
    <3>2. ldb[n].key \in DOMAIN items
      BY <1>3, <2>1, <3>1 DEF ItemsSound
    <3> QED  BY <3>1, <3>2 DEF ItemsChangeAs
  <2>2. CASE n \notin DOMAIN ldb
    BY <1>3, <2>2, WriteIs DEF ItemsChangeAs
  <2> QED  BY <2>1, <2>2
<1>4. IsFiniteSet(DOMAIN items)'
  BY DEF ItemsChangeAs
<1> QED  BY <1>1, <1>2, <1>3, <1>4 DEF ItemsSound


-----------------------------------------------------------------------------
(* Local storage. *)

LocalSound ==
    /\ format = "local"
    /\ databases = [o \in Origins |-> NoDb]
    /\ changed \in [Origins -> Nat]
    /\ \A o \in Origins : changed[o] <= lastSeq
    /\ \A n \in DOMAIN ldb :
          /\ ldb[n].key.of \in Origins
          /\ ldb[n].key.is = "data" \/ ldb[n].key = Meta(ldb[n].key.of)
          /\ ldb[n].key.is = "meta" /\ IsWritten(ldb[n]) =>
                ldb[n].value \in Nat /\ ldb[n].value <= changed[ldb[n].key.of]
    /\ \A key \in DOMAIN items : key.of \in Origins /\ Says(Meta(key.of), changed[key.of])

\* The records of one origin that are written as one, and the time they tell.
LocalBatch(o, R) ==
    /\ \A r \in R : /\ r.key.of = o /\ (r.key.is = "data" \/ r.key = Meta(o))
                    /\ r.key.is = "meta" /\ IsWritten(r) => r.value = changed'[o]
    /\ changed' \in [Origins -> Nat]
    /\ \A p \in Origins : p # o => changed'[p] = changed[p]
    /\ changed[o] <= changed'[o] /\ changed'[o] <= lastSeq'
    /\ \A key \in DOMAIN items' : key.of = o => Written(Meta(o), changed'[o]) \in R
    /\ \A key \in DOMAIN items' : key.of # o => key \in DOMAIN items
    /\ format' = format /\ databases' = databases

LEMMA KeyIs ==
    ASSUME NEW o, NEW k
    PROVE  /\ Meta(o).is = "meta" /\ Meta(o).of = o
           /\ DbName(o).is = "database" /\ DbName(o).of = o
           /\ StoreName(o).is = "store" /\ StoreName(o).of = o
           /\ Item(o, k).is = "data" /\ Item(o, k).of = o
BY DEF Meta, DbName, StoreName, Item

LEMMA LocalWritten ==
    ASSUME LedgerSound, LocalSound, NEW batch, NEW R, IsBatch(batch, R), Write(batch),
           NEW o \in Origins, LocalBatch(o, R)
    PROVE  LocalSound'
<1>1. /\ format' = "local" /\ databases' = [p \in Origins |-> NoDb]
      /\ changed' \in [Origins -> Nat]
  BY DEF LocalSound, LocalBatch
<1>2. \A p \in Origins : /\ changed[p] \in Nat /\ changed'[p] \in Nat
                         /\ changed[p] <= changed'[p] /\ changed'[p] <= lastSeq'
  <2> SUFFICES ASSUME NEW p \in Origins
               PROVE  /\ changed[p] \in Nat /\ changed'[p] \in Nat
                      /\ changed[p] <= changed'[p] /\ changed'[p] <= lastSeq'
    OBVIOUS
  <2>1. changed[p] \in Nat /\ changed'[p] \in Nat /\ changed[p] <= lastSeq
    BY <1>1 DEF LocalSound
  <2>2. lastSeq \in Nat /\ lastSeq' \in Nat /\ lastSeq <= lastSeq'
    BY WriteIs DEF LedgerSound
  <2> QED  BY <2>1, <2>2 DEF LocalBatch
<1>3. ASSUME NEW n \in DOMAIN ldb'
      PROVE  /\ ldb'[n].key.of \in Origins
             /\ ldb'[n].key.is = "data" \/ ldb'[n].key = Meta(ldb'[n].key.of)
             /\ ldb'[n].key.is = "meta" /\ IsWritten(ldb'[n]) =>
                   ldb'[n].value \in Nat /\ ldb'[n].value <= changed'[ldb'[n].key.of]
  <2>1. CASE n \in DOMAIN ldb
    <3>1. ldb'[n] = ldb[n]
      BY <2>1, WriteIs
    <3>2. /\ ldb[n].key.of \in Origins
          /\ ldb[n].key.is = "data" \/ ldb[n].key = Meta(ldb[n].key.of)
          /\ ldb[n].key.is = "meta" /\ IsWritten(ldb[n]) =>
                ldb[n].value \in Nat /\ ldb[n].value <= changed[ldb[n].key.of]
      BY <2>1 DEF LocalSound
    <3> QED  BY <1>2, <3>1, <3>2
  <2>2. CASE n \notin DOMAIN ldb
    <3>1. ldb'[n] \in R
      BY <2>2, WriteIs
    <3> QED  BY <1>2, <3>1 DEF LocalBatch
  <2> QED  BY <2>1, <2>2
<1>4. ASSUME NEW key \in DOMAIN items' PROVE key.of \in Origins /\ Says(Meta(key.of), changed[key.of])'
  <2>1. CASE key.of = o
    <3>1. Written(Meta(o), changed'[o]) \in R
      BY <2>1 DEF LocalBatch
    <3>2. PICK n \in DOMAIN ldb' : n \notin DOMAIN ldb /\ ldb'[n] = Written(Meta(o), changed'[o])
      BY <3>1, WriteIs
    <3>3. IsLast(n)'
      BY <3>2, WriteIs
    <3> QED  BY <2>1, <3>2, <3>3 DEF Says
  <2>2. CASE key.of # o
    <3>1. key \in DOMAIN items
      BY <2>2 DEF LocalBatch
    <3>2. key.of \in Origins /\ Says(Meta(key.of), changed[key.of])
      BY <3>1 DEF LocalSound
    <3>3. changed'[key.of] = changed[key.of]
      BY <2>2, <3>2 DEF LocalBatch
    <3>4. PICK n \in DOMAIN ldb : ldb[n] = Written(Meta(key.of), changed'[key.of]) /\ IsLast(n)
      BY <3>2, <3>3 DEF Says
    <3>5. ldb[n].key = Meta(key.of) /\ ldb[n].key.of # o
      BY <2>2, <3>4, RecordIs, KeyIs
    <3>6. n \in DOMAIN ldb' /\ ldb'[n] = Written(Meta(key.of), changed'[key.of]) /\ IsLast(n)'
      BY <3>4, <3>5, WriteIs DEF LocalBatch
    <3> QED  BY <3>2, <3>6 DEF Says
  <2> QED  BY <2>1, <2>2
<1> QED  BY <1>1, <1>2, <1>3, <1>4 DEF LocalSound

StorageTypes == sources.others \in {<<>>, <<Elsewhere>>}
Ledger == LedgerSound /\ RecordsSound /\ ItemsSound

LEMMA SetItemSound ==
    ASSUME Ledger, LocalSound, NEW o \in Origins, NEW k, NEW v, SetItem(o, k, v)
    PROVE  Ledger' /\ LocalSound'
<1> DEFINE key == Item(o, k)
           a == Written(Item(o, k), v)
           b == Written(Meta(o), lastSeq + 1)
           R == {a, b}
<1>1. /\ Write(<<a, b>>) /\ items' = WithKey(items, Item(o, k), v)
      /\ changed' = [changed EXCEPT ![o] = lastSeq + 1]
      /\ format' = format /\ databases' = databases
  BY DEF SetItem
<1>2. /\ a.key = Item(o, k) /\ b.key = Meta(o) /\ IsWritten(a) /\ IsWritten(b)
      /\ b.value = lastSeq + 1 /\ a.key # b.key
  BY RecordIs, KeyIs
<1>3. IsBatch(<<a, b>>, R)
  BY <1>2, TwoAreBatch
<1>4. /\ DOMAIN items' = DOMAIN items \cup {Item(o, k)} /\ items'[Item(o, k)] = v
      /\ \A q \in DOMAIN items : q # Item(o, k) => items'[q] = items[q]
  BY <1>1 DEF WithKey
<1>5. LedgerSound /\ RecordsSound /\ ItemsSound /\ IsFiniteSet(DOMAIN items)
  BY DEF Ledger, ItemsSound
<1>6. ItemsChangeAs(R)
  <2>1. IsFiniteSet(DOMAIN items')
    BY <1>4, <1>5, FS_AddElement
  <2>2. \A q \in DOMAIN items : q # Item(o, k) => \A r \in R : r.key # q
    BY <1>2, <1>5, KeyIs DEF ItemsSound
  <2>3. Item(o, k).is = "data" /\ Written(Item(o, k), items'[Item(o, k)]) \in R
    BY <1>4, KeyIs
  <2> QED  BY <1>2, <1>4, <2>1, <2>2, <2>3, KeyIs DEF ItemsChangeAs
<1>7. Len(<<a, b>>) = 2
  OBVIOUS
<1>8. lastSeq \in Nat /\ lastSeq' = lastSeq + 2
  BY <1>1, <1>5, <1>7 DEF Write, LedgerSound
<1>9. LocalBatch(o, R)
  <2>1. changed \in [Origins -> Nat] /\ changed[o] <= lastSeq
    BY DEF LocalSound
  <2>2. /\ changed' \in [Origins -> Nat] /\ changed'[o] = lastSeq + 1
        /\ \A p \in Origins : p # o => changed'[p] = changed[p]
        /\ changed[o] <= changed'[o] /\ changed'[o] <= lastSeq'
    BY <1>1, <1>8, <2>1
  <2>3. \A r \in R : /\ r.key.of = o /\ (r.key.is = "data" \/ r.key = Meta(o))
                     /\ r.key.is = "meta" /\ IsWritten(r) => r.value = changed'[o]
    BY <1>2, <2>2, KeyIs
  <2>4. \A q \in DOMAIN items' : q.of # o => q \in DOMAIN items
    BY <1>4, KeyIs
  <2> QED  BY <1>1, <2>2, <2>3, <2>4 DEF LocalBatch
<1>10. LedgerSound'
  BY <1>1, <1>3, <1>5, WriteIs
<1> HIDE DEF a, b, R
<1>11. RecordsSound' /\ ItemsSound'
  BY <1>1, <1>3, <1>5, <1>6, ItemsWritten
<1>12. LocalSound'
  BY <1>1, <1>3, <1>5, <1>9, LocalWritten
<1> QED  BY <1>10, <1>11, <1>12 DEF Ledger

LEMMA RemoveItemSound ==
    ASSUME Ledger, LocalSound, NEW o \in Origins, NEW k, RemoveItem(o, k)
    PROVE  Ledger' /\ LocalSound'
<1> DEFINE a == Tombstone(Item(o, k))
           b == Written(Meta(o), lastSeq + 1)
           R == {a, b}
<1>1. /\ Write(<<a, b>>) /\ items' = WithoutKey(items, Item(o, k))
      /\ changed' = [changed EXCEPT ![o] = lastSeq + 1]
      /\ format' = format /\ databases' = databases
  BY DEF RemoveItem
<1>2. /\ a.key = Item(o, k) /\ b.key = Meta(o) /\ IsTomb(a) /\ ~IsWritten(a) /\ IsWritten(b)
      /\ b.value = lastSeq + 1 /\ a.key # b.key
  BY RecordIs, KeyIs
<1>3. IsBatch(<<a, b>>, R)
  BY <1>2, TwoAreBatch
<1>4. /\ DOMAIN items' = DOMAIN items \ {Item(o, k)}
      /\ \A q \in DOMAIN items : q # Item(o, k) => items'[q] = items[q]
  BY <1>1 DEF WithoutKey
<1>5. LedgerSound /\ RecordsSound /\ ItemsSound /\ IsFiniteSet(DOMAIN items)
  BY DEF Ledger, ItemsSound
<1>6. ItemsChangeAs(R)
  <2>1. IsFiniteSet(DOMAIN items')
    BY <1>4, <1>5, FS_Subset
  <2>2. \A q \in DOMAIN items : q # Item(o, k) => \A r \in R : r.key # q
    BY <1>2, <1>5, KeyIs DEF ItemsSound
  <2> QED  BY <1>2, <1>4, <2>1, <2>2, KeyIs DEF ItemsChangeAs
<1>7. Len(<<a, b>>) = 2
  OBVIOUS
<1>8. lastSeq \in Nat /\ lastSeq' = lastSeq + 2
  BY <1>1, <1>5, <1>7 DEF Write, LedgerSound
<1>9. LocalBatch(o, R)
  <2>1. changed \in [Origins -> Nat] /\ changed[o] <= lastSeq
    BY DEF LocalSound
  <2>2. /\ changed' \in [Origins -> Nat] /\ changed'[o] = lastSeq + 1
        /\ \A p \in Origins : p # o => changed'[p] = changed[p]
        /\ changed[o] <= changed'[o] /\ changed'[o] <= lastSeq'
    BY <1>1, <1>8, <2>1
  <2>3. \A r \in R : /\ r.key.of = o /\ (r.key.is = "data" \/ r.key = Meta(o))
                     /\ r.key.is = "meta" /\ IsWritten(r) => r.value = changed'[o]
    BY <1>2, <2>2, KeyIs
  <2>4. \A q \in DOMAIN items' : q.of # o => q \in DOMAIN items
    BY <1>4
  <2> QED  BY <1>1, <2>2, <2>3, <2>4 DEF LocalBatch
<1>10. LedgerSound'
  BY <1>1, <1>3, <1>5, WriteIs
<1> HIDE DEF a, b, R
<1>11. RecordsSound' /\ ItemsSound'
  BY <1>1, <1>3, <1>5, <1>6, ItemsWritten
<1>12. LocalSound'
  BY <1>1, <1>3, <1>5, <1>9, LocalWritten
<1> QED  BY <1>10, <1>11, <1>12 DEF Ledger

\* The items of a database or an origin, the records that end them, and what is left.
ItemsOf(of) == {key \in DOMAIN items : key.of = of}
EndOf(of) == {Tombstone(key) : key \in ItemsOf(of)}
Cleared(of) == items' = [key \in DOMAIN items \ ItemsOf(of) |-> items[key]]

LEMMA ClearedAre ==
    ASSUME ItemsSound, NEW of, NEW rest, NEW R, NEW T, rest \in Seq(T), IsBatch(rest, R),
           \A r \in R : r.key.is # "data" /\ (IsTomb(r) \/ IsWritten(r)),
           Cleared(of)
    PROVE  /\ IsBatch(SetToSeq(EndOf(of)) \o rest, EndOf(of) \cup R)
           /\ ItemsChangeAs(EndOf(of) \cup R)
           /\ DOMAIN items' = {q \in DOMAIN items : q.of # of}
           /\ \A q \in DOMAIN items' : items'[q] = items[q]
           /\ \A r \in EndOf(of) : r.key.is = "data" /\ r.key.of = of /\ ~IsWritten(r)
<1> DEFINE K == ItemsOf(of)
           S == {Tombstone(key) : key \in K}
<1>1. IsFiniteSet(DOMAIN items) /\ \A q \in DOMAIN items : q.is = "data"
  BY DEF ItemsSound
<1>2. IsFiniteSet(K)
  BY <1>1, FS_Subset DEF ItemsOf
<1>3. \A r \in R : r.key \notin K
  BY <1>1 DEF ItemsOf
<1>4. IsBatch(SetToSeq(S) \o rest, S \cup R)
  BY <1>2, <1>3, TombstonesAreBatch
<1>5. DOMAIN items' = {q \in DOMAIN items : q.of # of} /\ \A q \in DOMAIN items' : items'[q] = items[q]
  BY DEF Cleared, ItemsOf
<1>6. \A r \in S : r.key \in K /\ IsTomb(r) /\ ~IsWritten(r)
  BY RecordIs
<1>7. \A q \in K : Tombstone(q) \in S /\ Tombstone(q).key = q
  BY RecordIs
<1>8. ItemsChangeAs(S \cup R)
  <2>1. IsFiniteSet(DOMAIN items')
    BY <1>1, <1>5, FS_Subset
  <2>2. \A q \in DOMAIN items' : \A r \in S \cup R : r.key # q
    BY <1>1, <1>5, <1>6 DEF ItemsOf
  <2>3. \A q \in DOMAIN items : q \in DOMAIN items' \/ \E r \in S \cup R : r.key = q
    BY <1>5, <1>7 DEF ItemsOf
  <2> QED  BY <1>1, <1>5, <1>6, <2>1, <2>2, <2>3 DEF ItemsChangeAs, ItemsOf
<1>9. S = EndOf(of) /\ \A q \in K : q \in DOMAIN items /\ q.of = of
  BY DEF EndOf, ItemsOf
<1> HIDE DEF S, K
<1> QED  BY <1>1, <1>4, <1>5, <1>6, <1>8, <1>9

LEMMA ClearOriginSound ==
    ASSUME Ledger, LocalSound, NEW o \in Origins, ClearOrigin(o)
    PROVE  Ledger' /\ LocalSound'
<1> DEFINE S == EndOf(o)
           R == {Tombstone(Meta(o))}
           batch == SetToSeq(S) \o <<Tombstone(Meta(o))>>
<1>1. /\ Write(batch) /\ Cleared(o)
      /\ changed' = changed /\ format' = format /\ databases' = databases
  BY DEF ClearOrigin, Cleared, EndOf, ItemsOf
<1>2. LedgerSound /\ RecordsSound /\ ItemsSound
  BY DEF Ledger
<1>3. /\ IsBatch(<<Tombstone(Meta(o))>>, R) /\ <<Tombstone(Meta(o))>> \in Seq(R)
      /\ \A r \in R : r.key = Meta(o) /\ r.key.is = "meta" /\ IsTomb(r) /\ ~IsWritten(r)
  BY OneIsBatch, RecordIs, KeyIs
<1>4. /\ IsBatch(batch, S \cup R) /\ ItemsChangeAs(S \cup R)
      /\ DOMAIN items' = {q \in DOMAIN items : q.of # o}
      /\ \A r \in S : r.key.is = "data" /\ r.key.of = o /\ ~IsWritten(r)
  <2> HIDE DEF R
  <2>1. \A r \in R : r.key.is # "data" /\ (IsTomb(r) \/ IsWritten(r))
    BY <1>3
  <2> QED  BY <1>1, <1>2, <1>3, <2>1, ClearedAre
<1> HIDE DEF batch, S
<1>5. LedgerSound' /\ lastSeq <= lastSeq'
  BY <1>1, <1>2, <1>4, WriteIs
<1>6. LocalBatch(o, S \cup R)
  <2>1. changed \in [Origins -> Nat] /\ changed[o] <= lastSeq
    BY DEF LocalSound
  <2>2. changed[o] <= changed'[o] /\ changed'[o] <= lastSeq'
    BY <1>1, <1>2, <1>5, <2>1 DEF LedgerSound
  <2> QED  BY <1>1, <1>3, <1>4, <2>1, <2>2, KeyIs DEF LocalBatch
<1>7. RecordsSound' /\ ItemsSound'
  BY <1>1, <1>2, <1>4, ItemsWritten
<1>8. LocalSound'
  BY <1>1, <1>2, <1>4, <1>6, LocalWritten
<1> QED  BY <1>5, <1>7, <1>8 DEF Ledger

\* Compaction, of either.
LEMMA CompactKeepsItems ==
    ASSUME Ledger, Compact
    PROVE  Ledger'
<1>1. /\ LedgerSound' /\ RecordsSound'
      /\ \A n \in DOMAIN ldb' :
            n \in DOMAIN ldb /\ ldb'[n] = ldb[n] /\ (IsLast(n)' => IsLast(n))
      /\ \A key, value : Says(key, value) => Says(key, value)'
  BY CompactIs DEF Ledger
<1>2. items' = items /\ ItemsSound
  BY DEF Compact, Ledger
<1>3. ASSUME NEW key \in DOMAIN items' PROVE key.is = "data" /\ Says(key, items[key])'
  <2>1. key.is = "data" /\ Says(key, items[key]) /\ items'[key] = items[key]
    BY <1>2 DEF ItemsSound
  <2>2. PICK v : v = items[key]
    OBVIOUS
  <2>3. Says(key, v)'
    BY <1>1, <2>1, <2>2
  <2> QED  BY <2>1, <2>2, <2>3 DEF Says
<1>4. ASSUME NEW n \in DOMAIN ldb', ldb'[n].key.is = "data", IsWritten(ldb'[n]), IsLast(n)'
      PROVE  ldb'[n].key \in DOMAIN items'
  BY <1>1, <1>2, <1>4 DEF ItemsSound
<1>5. IsFiniteSet(DOMAIN items)'
  BY <1>2 DEF ItemsSound
<1>6. ItemsSound'
  BY <1>3, <1>4, <1>5 DEF ItemsSound
<1> QED  BY <1>1, <1>6 DEF Ledger

LEMMA CompactKeepsLocal ==
    ASSUME Ledger, LocalSound, Compact
    PROVE  LocalSound'
<1>1. /\ \A n \in DOMAIN ldb' : n \in DOMAIN ldb /\ ldb'[n] = ldb[n]
      /\ \A key, value : Says(key, value) => Says(key, value)'
  BY CompactIs DEF Ledger
<1>2. /\ items' = items /\ format' = format /\ databases' = databases /\ changed' = changed
      /\ lastSeq' = lastSeq
  BY DEF Compact
<1>3. ASSUME NEW key \in DOMAIN items' PROVE key.of \in Origins /\ Says(Meta(key.of), changed[key.of])'
  <2>1. key.of \in Origins /\ Says(Meta(key.of), changed[key.of])
    BY <1>2 DEF LocalSound
  <2>2. PICK k : k = Meta(key.of)
    OBVIOUS
  <2>3. PICK v : v = changed[key.of]
    OBVIOUS
  <2>4. Says(k, v)'
    BY <1>1, <2>1, <2>2, <2>3
  <2> QED  BY <1>2, <2>1, <2>2, <2>3, <2>4 DEF Says
<1> QED  BY <1>1, <1>2, <1>3 DEF LocalSound


-----------------------------------------------------------------------------
(* IndexedDB. *)

\* What is true of a record, by the databases there have been.
RecordOfDatabase(r) ==
    \/ /\ r.key.is = "data" /\ \E c \in calledOnce : c.id = r.key.of
    \/ /\ r.key = DbName(r.key.of)
       /\ IsWritten(r) => \E c \in calledOnce : c.id = r.value /\ c.origin = r.key.of
    \/ /\ r.key = StoreName(r.key.of)
       /\ IsWritten(r) => \E c \in calledOnce : c.id = r.key.of /\ c.store = r.value

\* What is true of a database that an origin has.
DatabaseOf(o, id) ==
    /\ Says(DbName(o), id) /\ Says(StoreName(id), storeNames[id]) /\ id \in DOMAIN storeNames
    /\ \E c \in calledOnce : c.id = id /\ c.origin = o

CalledSound ==
    /\ \A c \in calledOnce : c.id \in Nat /\ 1 <= c.id /\ c.id <= lastSeq /\ c.origin \in Origins
    /\ \A c, d \in calledOnce : c.id = d.id => c.origin = d.origin

IdbSound ==
    /\ format = "indexeddb"
    /\ databases \in [Origins -> Nat] /\ CalledSound
    /\ \A n \in DOMAIN ldb : RecordOfDatabase(ldb[n])
    /\ \A o \in Origins : databases[o] # NoDb => DatabaseOf(o, databases[o])
    /\ \A key \in DOMAIN items : \E o \in Origins : databases[o] # NoDb /\ databases[o] = key.of

\* Records that are still of databases that have been.
LEMMA RecordsStay ==
    ASSUME NEW r, RecordOfDatabase(r), calledOnce \subseteq calledOnce'
    PROVE  RecordOfDatabase(r)'
BY DEF RecordOfDatabase

\* The database of another origin is as it was.
LEMMA DatabaseStays ==
    ASSUME LedgerSound, NEW batch, NEW R, IsBatch(batch, R), Write(batch),
           NEW o, NEW id, DatabaseOf(o, id), calledOnce \subseteq calledOnce',
           id \in DOMAIN storeNames', storeNames'[id] = storeNames[id],
           \A r \in R : r.key # DbName(o) /\ r.key # StoreName(id)
    PROVE  /\ \E n \in DOMAIN ldb' : ldb'[n] = Written(DbName(o), id) /\ IsLast(n)'
           /\ \E n \in DOMAIN ldb' : ldb'[n] = Written(StoreName(id), storeNames'[id]) /\ IsLast(n)'
           /\ id \in DOMAIN storeNames' /\ \E c \in calledOnce' : c.id = id /\ c.origin = o
<1>1. PICK n \in DOMAIN ldb : ldb[n] = Written(DbName(o), id) /\ IsLast(n)
  BY DEF DatabaseOf, Says
<1>2. PICK m \in DOMAIN ldb : ldb[m] = Written(StoreName(id), storeNames[id]) /\ IsLast(m)
  BY DEF DatabaseOf, Says
<1>3. ldb[n].key = DbName(o) /\ ldb[m].key = StoreName(id)
  BY <1>1, <1>2, RecordIs
<1>4. n \in DOMAIN ldb' /\ ldb'[n] = Written(DbName(o), id) /\ IsLast(n)'
  BY <1>1, <1>3, WriteIs
<1>5. m \in DOMAIN ldb' /\ ldb'[m] = Written(StoreName(id), storeNames'[id]) /\ IsLast(m)'
  BY <1>2, <1>3, WriteIs
<1>6. \E c \in calledOnce' : c.id = id /\ c.origin = o
  BY DEF DatabaseOf
<1> QED  BY <1>4, <1>5, <1>6

\* What a batch adds to what is true of the databases.
LEMMA IdbRecords ==
    ASSUME LedgerSound, IdbSound, NEW batch, NEW R, IsBatch(batch, R), Write(batch),
           calledOnce \subseteq calledOnce', \A r \in R : RecordOfDatabase(r)'
    PROVE  (\A n \in DOMAIN ldb : RecordOfDatabase(ldb[n]))'
<1> SUFFICES ASSUME NEW n \in DOMAIN ldb' PROVE RecordOfDatabase(ldb[n])'
  OBVIOUS
<1>1. CASE n \in DOMAIN ldb
  <2>1. PICK r : r = ldb[n]
    OBVIOUS
  <2>2. ldb'[n] = r /\ RecordOfDatabase(r)
    BY <1>1, <2>1, WriteIs DEF IdbSound
  <2>3. RecordOfDatabase(r)'
    BY <2>2, RecordsStay
  <2> QED  BY <2>2, <2>3 DEF RecordOfDatabase
<1>2. CASE n \notin DOMAIN ldb
  <2>1. PICK r \in R : ldb'[n] = r
    BY <1>2, WriteIs
  <2>2. RecordOfDatabase(r)'
    BY <2>1
  <2> QED  BY <2>1, <2>2 DEF RecordOfDatabase
<1> QED  BY <1>1, <1>2


\* Records of other things change no item.
LEMMA ItemsStay ==
    ASSUME ItemsSound, items' = items, NEW R,
           \A r \in R : r.key.is # "data" /\ (IsTomb(r) \/ IsWritten(r))
    PROVE  ItemsChangeAs(R)
BY DEF ItemsSound, ItemsChangeAs

LEMMA CreateDatabaseSound ==
    ASSUME Ledger, IdbSound, NEW o \in Origins, NEW name, CreateDatabase(o, name)
    PROVE  Ledger' /\ IdbSound'
<1>1. PICK id : id = lastSeq + 1
  OBVIOUS
<1> DEFINE a == Written(DbName(o), id)
           b == Written(StoreName(id), name)
           R == {a, b}
<1>2. /\ Write(<<a, b>>) /\ databases[o] = NoDb
      /\ databases' = [databases EXCEPT ![o] = id] /\ storeNames' = WithKey(storeNames, id, name)
      /\ calledOnce' = calledOnce \cup {Db(id, o, name)} /\ format' = format /\ items' = items
  BY <1>1 DEF CreateDatabase
<1>3. /\ a.key = DbName(o) /\ b.key = StoreName(id) /\ a.key # b.key /\ a.value = id /\ b.value = name
      /\ a.key.is # "data" /\ b.key.is # "data" /\ IsWritten(a) /\ IsWritten(b)
  BY RecordIs, KeyIs
<1>4. IsBatch(<<a, b>>, R)
  BY <1>3, TwoAreBatch
<1>5. Len(<<a, b>>) = 2
  OBVIOUS
<1>6. R = {a, b}
  OBVIOUS
<1>7. a = Written(DbName(o), id) /\ b = Written(StoreName(id), name)
  OBVIOUS
<1> HIDE DEF a, b, R
<1>8. LedgerSound /\ RecordsSound /\ ItemsSound
  BY DEF Ledger
<1>9. lastSeq \in Nat /\ lastSeq' = lastSeq + 2 /\ LedgerSound'
  BY <1>2, <1>4, <1>5, <1>8, WriteIs DEF Write, LedgerSound
<1>10. ItemsChangeAs(R)
  BY <1>2, <1>3, <1>6, <1>8, ItemsStay
<1>11. RecordsSound' /\ ItemsSound'
  BY <1>2, <1>4, <1>8, <1>10, ItemsWritten
<1>12. databases \in [Origins -> Nat] /\ CalledSound
  BY DEF IdbSound
<1>13. /\ Db(id, o, name).id = id /\ Db(id, o, name).origin = o /\ Db(id, o, name).store = name
       /\ Db(id, o, name) \in calledOnce' /\ calledOnce \subseteq calledOnce'
  BY <1>2 DEF Db
<1>14. CalledSound'
  <2>1. \A c \in calledOnce : c.id # id
    BY <1>1, <1>9, <1>12 DEF CalledSound
  <2>2. \A c \in calledOnce' : c.id \in Nat /\ 1 <= c.id /\ c.id <= lastSeq' /\ c.origin \in Origins
    BY <1>1, <1>2, <1>9, <1>12, <1>13 DEF CalledSound
  <2>3. \A c, d \in calledOnce' : c.id = d.id => c.origin = d.origin
    BY <1>2, <1>12, <1>13, <2>1 DEF CalledSound
  <2> QED  BY <2>2, <2>3 DEF CalledSound
<1>15. \A r \in R : RecordOfDatabase(r)'
  <2>1. RecordOfDatabase(a)'
    BY <1>3, <1>13, KeyIs DEF RecordOfDatabase, a
  <2>2. RecordOfDatabase(b)'
    BY <1>3, <1>13, KeyIs DEF RecordOfDatabase, b
  <2> QED  BY <1>6, <2>1, <2>2
<1>16. (\A n \in DOMAIN ldb : RecordOfDatabase(ldb[n]))'
  BY <1>2, <1>4, <1>8, <1>13, <1>15, IdbRecords
<1>17. ASSUME NEW p \in Origins, databases'[p] # NoDb PROVE DatabaseOf(p, databases[p])'
  <2>1. CASE p = o
    <3>1. databases'[o] = id
      BY <1>2, <1>12
    <3>2. PICK n \in DOMAIN ldb' : n \notin DOMAIN ldb /\ ldb'[n] = a
      BY <1>2, <1>4, <1>6, <1>8, WriteIs
    <3>3. PICK m \in DOMAIN ldb' : m \notin DOMAIN ldb /\ ldb'[m] = b
      BY <1>2, <1>4, <1>6, <1>8, WriteIs
    <3>4. IsLast(n)' /\ IsLast(m)'
      BY <1>2, <1>4, <1>8, <3>2, <3>3, WriteIs
    <3>5. id \in DOMAIN storeNames' /\ storeNames'[id] = name
      BY <1>2 DEF WithKey
    <3> QED  BY <1>7, <1>13, <2>1, <3>1, <3>2, <3>3, <3>4, <3>5 DEF DatabaseOf, Says
  <2>2. CASE p # o
    <3>1. PICK q : q = databases[p]
      OBVIOUS
    <3>2. databases'[p] = q /\ q # NoDb
      BY <1>2, <1>12, <1>17, <2>2, <3>1
    <3>3. DatabaseOf(p, q)
      BY <3>1, <3>2 DEF IdbSound
    <3>4. q # id
      BY <1>1, <1>9, <1>12, <3>3 DEF DatabaseOf, CalledSound
    <3>5. q \in DOMAIN storeNames' /\ storeNames'[q] = storeNames[q]
      BY <1>2, <3>3, <3>4 DEF WithKey, DatabaseOf
    <3>6. \A r \in R : r.key # DbName(p) /\ r.key # StoreName(q)
      BY <1>3, <1>6, <2>2, <3>4, KeyIs
    <3> QED  BY <1>2, <1>4, <1>8, <1>13, <3>2, <3>3, <3>5, <3>6, DatabaseStays DEF DatabaseOf, Says
  <2> QED  BY <2>1, <2>2
<1>18. ASSUME NEW key \in DOMAIN items'
       PROVE  \E p \in Origins : databases'[p] # NoDb /\ databases'[p] = key.of
  <2>1. PICK p \in Origins : databases[p] # NoDb /\ databases[p] = key.of
    BY <1>2 DEF IdbSound
  <2> QED  BY <1>2, <1>12, <2>1
<1>19. format' = "indexeddb" /\ databases' \in [Origins -> Nat]
  BY <1>1, <1>2, <1>9, <1>12 DEF IdbSound
<1> QED  BY <1>9, <1>11, <1>14, <1>16, <1>17, <1>18, <1>19 DEF Ledger, IdbSound

LEMMA RenameStoreSound ==
    ASSUME Ledger, IdbSound, NEW o \in Origins, NEW name, RenameStore(o, name)
    PROVE  Ledger' /\ IdbSound'
<1>1. PICK id : id = databases[o]
  OBVIOUS
<1> DEFINE b == Written(StoreName(id), name)
           R == {b}
<1>2. /\ Write(<<b>>) /\ id # NoDb /\ databases' = databases
      /\ storeNames' = [storeNames EXCEPT ![id] = name]
      /\ calledOnce' = calledOnce \cup {Db(id, o, name)} /\ format' = format /\ items' = items
  BY <1>1 DEF RenameStore
<1>3. /\ b.key = StoreName(id) /\ b.value = name /\ b.key.is # "data" /\ IsWritten(b)
  BY RecordIs, KeyIs
<1>4. IsBatch(<<b>>, R)
  BY OneIsBatch
<1>5. Len(<<b>>) = 1
  OBVIOUS
<1>6. R = {b} /\ b = Written(StoreName(id), name)
  OBVIOUS
<1> HIDE DEF b, R
<1>8. LedgerSound /\ RecordsSound /\ ItemsSound
  BY DEF Ledger
<1>9. lastSeq \in Nat /\ lastSeq' = lastSeq + 1 /\ LedgerSound'
  BY <1>2, <1>4, <1>5, <1>8, WriteIs DEF Write, LedgerSound
<1>10. ItemsChangeAs(R)
  BY <1>2, <1>3, <1>6, <1>8, ItemsStay
<1>11. RecordsSound' /\ ItemsSound'
  BY <1>2, <1>4, <1>8, <1>10, ItemsWritten
<1>12. databases \in [Origins -> Nat] /\ CalledSound /\ DatabaseOf(o, id)
  BY <1>1, <1>2 DEF IdbSound
<1>13. /\ Db(id, o, name).id = id /\ Db(id, o, name).origin = o /\ Db(id, o, name).store = name
       /\ Db(id, o, name) \in calledOnce' /\ calledOnce \subseteq calledOnce'
  BY <1>2 DEF Db
<1>14. CalledSound'
  <2>1. PICK was \in calledOnce : was.id = id /\ was.origin = o
    BY <1>12 DEF DatabaseOf
  <2>2. \A c \in calledOnce' : c.id \in Nat /\ 1 <= c.id /\ c.id <= lastSeq' /\ c.origin \in Origins
    BY <1>2, <1>9, <1>12, <1>13, <2>1 DEF CalledSound
  <2>3. \A c, d \in calledOnce' : c.id = d.id => c.origin = d.origin
    BY <1>2, <1>12, <1>13, <2>1 DEF CalledSound
  <2> QED  BY <2>2, <2>3 DEF CalledSound
<1>15. \A r \in R : RecordOfDatabase(r)'
  BY <1>3, <1>6, <1>13, KeyIs DEF RecordOfDatabase, b
<1>16. (\A n \in DOMAIN ldb : RecordOfDatabase(ldb[n]))'
  BY <1>2, <1>4, <1>8, <1>13, <1>15, IdbRecords
<1>17. ASSUME NEW p \in Origins, databases'[p] # NoDb PROVE DatabaseOf(p, databases[p])'
  <2>1. CASE p = o
    <3>1. PICK n \in DOMAIN ldb : ldb[n] = Written(DbName(o), id) /\ IsLast(n)
      BY <1>12 DEF DatabaseOf, Says
    <3>2. ldb[n].key = DbName(o) /\ \A r \in R : r.key # DbName(o)
      BY <1>3, <1>6, <3>1, RecordIs, KeyIs
    <3>3. n \in DOMAIN ldb' /\ ldb'[n] = Written(DbName(o), id) /\ IsLast(n)'
      BY <1>2, <1>4, <1>8, <3>1, <3>2, WriteIs
    <3>4. PICK m \in DOMAIN ldb' : m \notin DOMAIN ldb /\ ldb'[m] = b
      BY <1>2, <1>4, <1>6, <1>8, WriteIs
    <3>5. IsLast(m)'
      BY <1>2, <1>4, <1>8, <3>4, WriteIs
    <3>6. id \in DOMAIN storeNames' /\ storeNames'[id] = name
      BY <1>2, <1>12 DEF DatabaseOf
    <3>7. databases'[p] = id
      BY <1>1, <1>2, <2>1
    <3> QED  BY <1>6, <1>13, <2>1, <3>3, <3>4, <3>5, <3>6, <3>7 DEF DatabaseOf, Says
  <2>2. CASE p # o
    <3>1. PICK q : q = databases[p]
      OBVIOUS
    <3>2. databases'[p] = q /\ q # NoDb
      BY <1>2, <1>17, <3>1
    <3>3. DatabaseOf(p, q)
      BY <3>1, <3>2 DEF IdbSound
    <3>4. q # id
      BY <1>12, <2>2, <3>3 DEF DatabaseOf, CalledSound
    <3>5. q \in DOMAIN storeNames' /\ storeNames'[q] = storeNames[q]
      BY <1>2, <3>3, <3>4 DEF DatabaseOf
    <3>6. \A r \in R : r.key # DbName(p) /\ r.key # StoreName(q)
      BY <1>3, <1>6, <3>4, KeyIs
    <3> QED  BY <1>2, <1>4, <1>8, <1>13, <3>2, <3>3, <3>5, <3>6, DatabaseStays DEF DatabaseOf, Says
  <2> QED  BY <2>1, <2>2
<1> QED  BY <1>2, <1>9, <1>11, <1>14, <1>16, <1>17 DEF Ledger, IdbSound

LEMMA PutItemSound ==
    ASSUME Ledger, IdbSound, NEW o \in Origins, NEW k, NEW v, PutItem(o, k, v)
    PROVE  Ledger' /\ IdbSound'
<1>1. PICK id : id = databases[o]
  OBVIOUS
<1> DEFINE b == Written(Item(id, k), v)
           R == {b}
<1>2. /\ Write(<<b>>) /\ id # NoDb /\ databases' = databases /\ storeNames' = storeNames
      /\ calledOnce' = calledOnce /\ format' = format /\ items' = WithKey(items, Item(id, k), v)
  BY <1>1 DEF PutItem
<1>3. /\ b.key = Item(id, k) /\ b.key.is = "data" /\ b.key.of = id /\ IsWritten(b)
  BY RecordIs, KeyIs
<1>4. IsBatch(<<b>>, R)
  BY OneIsBatch
<1>5. Len(<<b>>) = 1
  OBVIOUS
<1>6. R = {b} /\ b = Written(Item(id, k), v)
  OBVIOUS
<1> HIDE DEF b, R
<1>7. /\ DOMAIN items' = DOMAIN items \cup {Item(id, k)} /\ items'[Item(id, k)] = v
      /\ \A q \in DOMAIN items : q # Item(id, k) => items'[q] = items[q]
  BY <1>2 DEF WithKey
<1>8. LedgerSound /\ RecordsSound /\ ItemsSound /\ IsFiniteSet(DOMAIN items)
  BY DEF Ledger, ItemsSound
<1>9. lastSeq \in Nat /\ lastSeq' = lastSeq + 1 /\ LedgerSound'
  BY <1>2, <1>4, <1>5, <1>8, WriteIs DEF Write, LedgerSound
<1>10. ItemsChangeAs(R)
  <2>1. IsFiniteSet(DOMAIN items')
    BY <1>7, <1>8, FS_AddElement
  <2> QED  BY <1>3, <1>6, <1>7, <2>1 DEF ItemsChangeAs
<1>11. RecordsSound' /\ ItemsSound'
  BY <1>2, <1>4, <1>8, <1>10, ItemsWritten
<1>12. databases \in [Origins -> Nat] /\ CalledSound /\ DatabaseOf(o, id)
  BY <1>1, <1>2 DEF IdbSound
<1>13. CalledSound'
  BY <1>2, <1>9, <1>12 DEF CalledSound
<1>14. \A r \in R : RecordOfDatabase(r)'
  BY <1>2, <1>3, <1>6, <1>12 DEF RecordOfDatabase, DatabaseOf
<1>15. calledOnce \subseteq calledOnce'
  BY <1>2
<1>16. (\A n \in DOMAIN ldb : RecordOfDatabase(ldb[n]))'
  BY <1>2, <1>4, <1>8, <1>14, <1>15, IdbRecords
<1>17. ASSUME NEW p \in Origins, databases'[p] # NoDb PROVE DatabaseOf(p, databases[p])'
  <2>1. PICK q : q = databases[p]
    OBVIOUS
  <2>2. databases'[p] = q /\ DatabaseOf(p, q)
    BY <1>2, <1>17, <2>1 DEF IdbSound
  <2>3. q \in DOMAIN storeNames' /\ storeNames'[q] = storeNames[q]
    BY <1>2, <2>2 DEF DatabaseOf
  <2>4. \A r \in R : r.key # DbName(p) /\ r.key # StoreName(q)
    BY <1>3, <1>6, KeyIs
  <2> QED  BY <1>2, <1>4, <1>8, <1>15, <2>2, <2>3, <2>4, DatabaseStays DEF DatabaseOf, Says
<1>18. ASSUME NEW key \in DOMAIN items'
       PROVE  \E p \in Origins : databases'[p] # NoDb /\ databases'[p] = key.of
  <2>1. CASE key = Item(id, k)
    BY <1>1, <1>2, <2>1, KeyIs
  <2>2. CASE key # Item(id, k)
    BY <1>2, <1>7, <2>2 DEF IdbSound
  <2> QED  BY <2>1, <2>2
<1> QED  BY <1>2, <1>9, <1>11, <1>13, <1>16, <1>17, <1>18 DEF Ledger, IdbSound

LEMMA DeleteDatabaseSound ==
    ASSUME Ledger, IdbSound, NEW o \in Origins, DeleteDatabase(o)
    PROVE  Ledger' /\ IdbSound'
<1>1. PICK id : id = databases[o]
  OBVIOUS
<1> DEFINE S == EndOf(id)
           a == Tombstone(StoreName(id))
           b == Tombstone(DbName(o))
           R == {a, b}
           batch == SetToSeq(S) \o <<a, b>>
<1>2. /\ Write(batch) /\ Cleared(id) /\ id # NoDb
      /\ databases' = [databases EXCEPT ![o] = NoDb] /\ storeNames' = WithoutKey(storeNames, id)
      /\ calledOnce' = calledOnce /\ format' = format
  BY <1>1 DEF DeleteDatabase, Cleared, EndOf, ItemsOf
<1>3. /\ a.key = StoreName(id) /\ b.key = DbName(o) /\ a.key # b.key /\ IsTomb(a) /\ IsTomb(b)
      /\ ~IsWritten(a) /\ ~IsWritten(b)
  BY RecordIs, KeyIs
<1>4. IsBatch(<<a, b>>, R) /\ <<a, b>> \in Seq(R)
  BY <1>3, TwoAreBatch
<1>5. \A r \in R : r.key.is # "data" /\ ~IsWritten(r) /\ IsTomb(r) /\ (r.key = DbName(o) \/ r.key = StoreName(id))
  BY <1>3, KeyIs
<1>6. LedgerSound /\ RecordsSound /\ ItemsSound
  BY DEF Ledger
<1>7. /\ IsBatch(batch, S \cup R) /\ ItemsChangeAs(S \cup R)
      /\ DOMAIN items' = {q \in DOMAIN items : q.of # id}
      /\ \A r \in S : r.key.is = "data" /\ r.key.of = id /\ ~IsWritten(r)
  <2> HIDE DEF R
  <2>1. \A r \in R : r.key.is # "data" /\ (IsTomb(r) \/ IsWritten(r))
    BY <1>5
  <2> QED  BY <1>2, <1>4, <1>6, <2>1, ClearedAre
<1> HIDE DEF batch, S, R, a, b
<1>8. LedgerSound' /\ lastSeq <= lastSeq'
  BY <1>2, <1>6, <1>7, WriteIs
<1>9. RecordsSound' /\ ItemsSound'
  BY <1>2, <1>6, <1>7, ItemsWritten
<1>10. databases \in [Origins -> Nat] /\ CalledSound /\ DatabaseOf(o, id)
  BY <1>1, <1>2 DEF IdbSound
<1>11. CalledSound'
  BY <1>2, <1>6, <1>8, <1>10 DEF CalledSound, LedgerSound
<1>12. \A r \in S \cup R : RecordOfDatabase(r)'
  <2>1. \E c \in calledOnce' : c.id = id
    BY <1>2, <1>10 DEF DatabaseOf
  <2>2. \A r \in S : RecordOfDatabase(r)'
    BY <1>7, <2>1 DEF RecordOfDatabase
  <2>3. \A r \in R : RecordOfDatabase(r)'
    BY <1>5, KeyIs DEF RecordOfDatabase
  <2> QED  BY <2>2, <2>3
<1>13. calledOnce \subseteq calledOnce'
  BY <1>2
<1>14. (\A n \in DOMAIN ldb : RecordOfDatabase(ldb[n]))'
  BY <1>2, <1>6, <1>7, <1>12, <1>13, IdbRecords
<1>15. ASSUME NEW p \in Origins, databases'[p] # NoDb PROVE DatabaseOf(p, databases[p])'
  <2>1. PICK q : q = databases[p]
    OBVIOUS
  <2>2. p # o /\ databases'[p] = q /\ q # NoDb
    BY <1>2, <1>10, <1>15, <2>1
  <2>3. DatabaseOf(p, q)
    BY <2>1, <2>2 DEF IdbSound
  <2>4. q # id
    BY <1>10, <2>2, <2>3 DEF DatabaseOf, CalledSound
  <2>5. q \in DOMAIN storeNames' /\ storeNames'[q] = storeNames[q]
    BY <1>2, <2>3, <2>4 DEF DatabaseOf, WithoutKey
  <2>6. \A r \in S \cup R : r.key # DbName(p) /\ r.key # StoreName(q)
    BY <1>5, <1>7, <2>2, <2>4, KeyIs
  <2> QED  BY <1>2, <1>6, <1>7, <1>13, <2>2, <2>3, <2>5, <2>6, DatabaseStays DEF DatabaseOf, Says
<1>16. ASSUME NEW key \in DOMAIN items'
       PROVE  \E p \in Origins : databases'[p] # NoDb /\ databases'[p] = key.of
  <2>1. key \in DOMAIN items /\ key.of # id
    BY <1>7
  <2>2. PICK p \in Origins : databases[p] # NoDb /\ databases[p] = key.of
    BY <2>1 DEF IdbSound
  <2> QED  BY <1>1, <1>2, <1>10, <2>1, <2>2
<1>17. format' = "indexeddb" /\ databases' \in [Origins -> Nat]
  BY <1>2, <1>10 DEF IdbSound, NoDb
<1> QED  BY <1>8, <1>9, <1>11, <1>14, <1>15, <1>16, <1>17 DEF Ledger, IdbSound

LEMMA CompactKeepsIdb ==
    ASSUME Ledger, IdbSound, Compact
    PROVE  IdbSound'
<1>1. /\ \A n \in DOMAIN ldb' : n \in DOMAIN ldb /\ ldb'[n] = ldb[n]
      /\ \A key, value : Says(key, value) => Says(key, value)'
  BY CompactIs DEF Ledger
<1>2. /\ items' = items /\ format' = format /\ databases' = databases /\ calledOnce' = calledOnce
      /\ lastSeq' = lastSeq /\ storeNames' = storeNames
  BY DEF Compact
<1>3. CalledSound'
  BY <1>2 DEF IdbSound, CalledSound
<1>4. ASSUME NEW o \in Origins, databases'[o] # NoDb PROVE DatabaseOf(o, databases[o])'
  <2>1. PICK q : q = databases[o]
    OBVIOUS
  <2>2. databases'[o] = q /\ DatabaseOf(o, q)
    BY <1>2, <1>4, <2>1 DEF IdbSound
  <2>3. PICK v : v = storeNames[q]
    OBVIOUS
  <2>4. Says(DbName(o), q)' /\ Says(StoreName(q), v)'
    BY <1>1, <2>2, <2>3 DEF DatabaseOf
  <2>5. storeNames'[q] = v /\ q \in DOMAIN storeNames' /\ \E c \in calledOnce' : c.id = q /\ c.origin = o
    BY <1>2, <2>2, <2>3 DEF DatabaseOf
  <2> QED  BY <2>2, <2>4, <2>5 DEF DatabaseOf, Says
<1>5. ASSUME NEW n \in DOMAIN ldb' PROVE RecordOfDatabase(ldb[n])'
  <2>1. ldb'[n] = ldb[n] /\ RecordOfDatabase(ldb[n])
    BY <1>1 DEF IdbSound
  <2> QED  BY <1>2, <2>1 DEF RecordOfDatabase
<1>6. ASSUME NEW key \in DOMAIN items'
      PROVE  \E o \in Origins : databases'[o] # NoDb /\ databases'[o] = key.of
  BY <1>2 DEF IdbSound
<1>7. format' = "indexeddb" /\ databases' \in [Origins -> Nat]
  BY <1>2 DEF IdbSound
<1> QED  BY <1>3, <1>4, <1>5, <1>6, <1>7 DEF IdbSound


-----------------------------------------------------------------------------
(* The invariant. *)

StorageInv == StorageTypes /\ Ledger /\ (LocalSound \/ IdbSound)

LEMMA StorageInitial ==
    ASSUME StorageInit
    PROVE  StorageInv
<1>1. DOMAIN ldb = {} /\ DOMAIN items = {} /\ ldb = [n \in DOMAIN ldb |-> ldb[n]] /\ lastSeq = 0
  BY DEF StorageInit
<1>2. Ledger
  BY <1>1, FS_EmptySet DEF Ledger, LedgerSound, RecordsSound, ItemsSound
<1>3. StorageTypes
  BY DEF StorageInit, StorageTypes
<1>4. /\ databases = [o \in Origins |-> NoDb] /\ changed = [o \in Origins |-> 0] /\ calledOnce = {}
      /\ format \in {"local", "indexeddb"}
  BY DEF StorageInit
<1>5. CASE format = "local"
  BY <1>1, <1>2, <1>3, <1>4, <1>5 DEF StorageInv, LocalSound
<1>6. CASE format = "indexeddb"
  BY <1>1, <1>2, <1>3, <1>4, <1>6 DEF StorageInv, IdbSound, CalledSound, NoDb
<1> QED  BY <1>4, <1>5, <1>6

LEMMA StorageStep ==
    ASSUME StorageInv, [StorageNext]_storageVars
    PROVE  StorageInv'
<1>1. Ledger /\ StorageTypes
  BY DEF StorageInv
<1>2. CASE LocalSound
  <2>1. format = "local" /\ \A o \in Origins : databases[o] = NoDb
    BY <1>2 DEF LocalSound
  <2>2. ASSUME PagesWrite PROVE Ledger' /\ LocalSound' /\ sources' = sources
    <3>1. PICK o \in Origins :
              \/ \E k \in ItemKeys, v \in ItemValues : SetItem(o, k, v) \/ PutItem(o, k, v)
              \/ \E k \in ItemKeys : RemoveItem(o, k)
              \/ \E name \in StoreNames : CreateDatabase(o, name) \/ RenameStore(o, name)
              \/ ClearOrigin(o) \/ DeleteDatabase(o)
      BY <2>2 DEF PagesWrite
    <3>2. \A k, v, name : ~PutItem(o, k, v) /\ ~CreateDatabase(o, name) /\ ~RenameStore(o, name)
      BY <2>1 DEF PutItem, CreateDatabase, RenameStore
    <3>3. ~DeleteDatabase(o)
      BY <2>1 DEF DeleteDatabase
    <3>4. ASSUME NEW k, NEW v, SetItem(o, k, v) PROVE Ledger' /\ LocalSound' /\ sources' = sources
      BY <1>1, <1>2, <3>4, SetItemSound DEF SetItem
    <3>5. ASSUME NEW k, RemoveItem(o, k) PROVE Ledger' /\ LocalSound' /\ sources' = sources
      BY <1>1, <1>2, <3>5, RemoveItemSound DEF RemoveItem
    <3>6. ASSUME ClearOrigin(o) PROVE Ledger' /\ LocalSound' /\ sources' = sources
      BY <1>1, <1>2, <3>6, ClearOriginSound DEF ClearOrigin
    <3> QED  BY <3>1, <3>2, <3>3, <3>4, <3>5, <3>6
  <2>3. CASE Compact
    <3>1. sources' = sources
      BY <2>3 DEF Compact
    <3> QED  BY <1>1, <1>2, <2>3, <3>1, CompactKeepsItems, CompactKeepsLocal DEF StorageInv, StorageTypes
  <2>4. CASE UNCHANGED storageVars
    BY <1>1, <1>2, <2>4 DEF storageVars, StorageInv, StorageTypes, Ledger, LedgerSound, RecordsSound,
                            ItemsSound, LocalSound, Says, IsLast
  <2> QED  BY <1>1, <2>2, <2>3, <2>4 DEF StorageNext, StorageInv, StorageTypes
<1>3. CASE IdbSound
  <2>1. format = "indexeddb"
    BY <1>3 DEF IdbSound
  <2>2. ASSUME PagesWrite PROVE Ledger' /\ IdbSound' /\ sources' = sources
    <3>1. PICK o \in Origins :
              \/ \E k \in ItemKeys, v \in ItemValues : SetItem(o, k, v) \/ PutItem(o, k, v)
              \/ \E k \in ItemKeys : RemoveItem(o, k)
              \/ \E name \in StoreNames : CreateDatabase(o, name) \/ RenameStore(o, name)
              \/ ClearOrigin(o) \/ DeleteDatabase(o)
      BY <2>2 DEF PagesWrite
    <3>2. \A k, v : ~SetItem(o, k, v) /\ ~RemoveItem(o, k) /\ ~ClearOrigin(o)
      BY <2>1 DEF SetItem, RemoveItem, ClearOrigin
    <3>3. ASSUME NEW k, NEW v, PutItem(o, k, v) PROVE Ledger' /\ IdbSound' /\ sources' = sources
      BY <1>1, <1>3, <3>3, PutItemSound DEF PutItem
    <3>4. ASSUME NEW name, CreateDatabase(o, name) PROVE Ledger' /\ IdbSound' /\ sources' = sources
      BY <1>1, <1>3, <3>4, CreateDatabaseSound DEF CreateDatabase
    <3>5. ASSUME NEW name, RenameStore(o, name) PROVE Ledger' /\ IdbSound' /\ sources' = sources
      BY <1>1, <1>3, <3>5, RenameStoreSound DEF RenameStore
    <3>6. ASSUME DeleteDatabase(o) PROVE Ledger' /\ IdbSound' /\ sources' = sources
      BY <1>1, <1>3, <3>6, DeleteDatabaseSound DEF DeleteDatabase
    <3> QED  BY <3>1, <3>2, <3>3, <3>4, <3>5, <3>6
  <2>3. CASE Compact
    <3>1. sources' = sources
      BY <2>3 DEF Compact
    <3> QED  BY <1>1, <1>3, <2>3, <3>1, CompactKeepsItems, CompactKeepsIdb DEF StorageInv, StorageTypes
  <2>4. CASE UNCHANGED storageVars
    BY <1>1, <1>3, <2>4 DEF storageVars, StorageInv, StorageTypes, Ledger, LedgerSound, RecordsSound,
                            ItemsSound, IdbSound, CalledSound, RecordOfDatabase, DatabaseOf, Says, IsLast
  <2> QED  BY <1>1, <2>2, <2>3, <2>4 DEF StorageNext, StorageInv, StorageTypes
<1> QED  BY <1>2, <1>3 DEF StorageInv

-----------------------------------------------------------------------------
(* What is read. *)

Event(n) ==
    IF format = "local" THEN LocalEvent(n)
    ELSE IndexeddbEvent([key |-> ldb[n].key, seq |-> n, deleted |-> ldb[n].deleted,
                         value |-> DecodeValue(ldb[n]), db |-> NamesOf(ldb[n].key.of)])

LEMMA EventIs ==
    ASSUME NEW n
    PROVE  /\ Event(n).key = ldb[n].key /\ Event(n).seq = n
           /\ Event(n).deleted = ldb[n].deleted
           /\ Event(n).value = ldb[n].value \/ Event(n).value = Opaque
           /\ format = "local" =>
                 Event(n).at = Told({m \in LiveOf("meta") : ldb[m].key.of = ldb[n].key.of}, 0)
           /\ format # "local" => Event(n).at = 0 /\ Event(n).db = NamesOf(ldb[n].key.of)
<1>1. CASE format = "local"
  <2>1. Event(n) = LocalEvent(n)
    BY <1>1 DEF Event
  <2> QED  BY <1>1, <2>1 DEF LocalEvent
<1>2. CASE format # "local"
  <2>1. Event(n) = IndexeddbEvent([key |-> ldb[n].key, seq |-> n, deleted |-> ldb[n].deleted,
                                   value |-> DecodeValue(ldb[n]), db |-> NamesOf(ldb[n].key.of)])
    BY <1>2 DEF Event
  <2>2. DecodeValue(ldb[n]) = ldb[n].value \/ DecodeValue(ldb[n]) = Opaque
    BY DEF DecodeValue
  <2> QED  BY <1>2, <2>1, <2>2 DEF IndexeddbEvent
<1> QED  BY <1>1, <1>2

LEMMA ReadIs ==
    ASSUME LedgerSound
    PROVE  /\ sources.opens => ReadEvents = {Event(n) : n \in DataRecords}
           /\ ~sources.opens => ReadEvents = {}
           /\ ParseLeveldbDir.events \in Seq(ReadEvents)
           /\ ToSet(ParseLeveldbDir.events) = ReadEvents
<1> DEFINE E == {Event(n) : n \in DataRecords}
           f == [n \in DataRecords |-> Event(n)]
<1>1. IsFiniteSet(DataRecords)
  <2>1. DataRecords \subseteq 1..lastSeq /\ lastSeq \in Nat
    BY DEF LedgerSound, DataRecords
  <2>2. IsFiniteSet(1..lastSeq)
    BY <2>1, FS_Interval
  <2> QED  BY <2>1, <2>2, FS_Subset
<1>2. f \in Surjection(DataRecords, E)
  BY DEF Surjection
<1>3. IsFiniteSet(E)
  <2> HIDE DEF f, E
  <2> QED  BY <1>1, <1>2, FS_Surjection
<1>4. E = IF format = "local" THEN LocalRecordsToEvents ELSE ParseIndexeddb
  <2>1. CASE format = "local"
    BY <2>1 DEF Event, LocalRecordsToEvents
  <2>2. CASE format # "local"
    <3>1. E = {IndexeddbEvent([key |-> ldb[n].key, seq |-> n, deleted |-> ldb[n].deleted,
                   value |-> DecodeValue(ldb[n]), db |-> NamesOf(ldb[n].key.of)]) : n \in DataRecords}
      BY <2>2 DEF Event
    <3> HIDE DEF E
    <3> QED  BY <2>2, <3>1 DEF ParseIndexeddb, DecodeIndexeddb
  <2> QED  BY <2>1, <2>2
<1> HIDE DEF E
<1>5. SetToSeq(E) \in Seq(E) /\ ToSet(SetToSeq(E)) = E
  BY <1>3, ListedSet
<1>6. CASE sources.opens
  <2>1. ParseLeveldbDir.events = SetToSeq(E)
    BY <1>4, <1>6 DEF ParseLeveldbDir
  <2> QED  BY <1>5, <1>6, <2>1 DEF ReadEvents, E
<1>7. CASE ~sources.opens
  <2>1. ParseLeveldbDir.events = <<>>
    BY <1>7 DEF ParseLeveldbDir, Failure
  <2>2. ToSet(<<>>) = {}
    BY DEF ToSet
  <2> QED  BY <1>7, <2>1, <2>2 DEF ReadEvents
<1> QED  BY <1>6, <1>7

\* Of some records that there are one counts, and none of them is later.
LEMMA LatestIs ==
    ASSUME LedgerSound, NEW S \in SUBSET DOMAIN ldb, S # {}
    PROVE  Latest(S) \in S /\ \A m \in S : m <= Latest(S)
<1>1. S \in SUBSET Nat /\ lastSeq \in Nat /\ \A n \in S : n <= lastSeq
  BY DEF LedgerSound
<1>2. \E n \in S : \A m \in S : m <= n
  BY <1>1, GreatestNat
<1> QED  BY <1>2 DEF Latest

LEMMA ToldIs ==
    ASSUME LedgerSound, NEW S \in SUBSET DOMAIN ldb, NEW otherwise
    PROVE  \/ S = {} /\ Told(S, otherwise) = otherwise
           \/ \E n \in S : Told(S, otherwise) = ldb[n].value /\ \A m \in S : m <= n
BY LatestIs DEF Told, TheOneThatCounts

LEMMA LiveRecords ==
    ASSUME RecordsSound, NEW is
    PROVE  LiveOf(is) = {n \in DOMAIN ldb : ldb[n].key.is = is /\ IsWritten(ldb[n])}
BY LiveIs DEF LiveOf, RecordsSound

\* The last of an item's records that is read is the last that was written.
LEMMA LastIs ==
    ASSUME LedgerSound, sources.opens, NEW n \in DataRecords
    PROVE  \E m \in DataRecords :
              /\ LastOf(ReadEvents, ldb[n].key) = Event(m)
              /\ ldb[m].key = ldb[n].key /\ IsLast(m)
<1> DEFINE key == ldb[n].key
           S == {m \in DOMAIN ldb : ldb[m].key = key}
<1>1. ReadEvents = {Event(m) : m \in DataRecords} /\ n \in DOMAIN ldb
  BY ReadIs DEF DataRecords
<1>2. S \in SUBSET DOMAIN ldb /\ S # {}
  BY <1>1
<1>3. PICK g \in S : \A m \in S : m <= g
  BY <1>2, LatestIs
<1>4. g \in DataRecords /\ ldb[g].key = key
  BY <1>3 DEF DataRecords
<1>5. Event(g) \in ReadEvents /\ Event(g).key = key
  BY <1>1, <1>4, EventIs
<1>6. \A d \in ReadEvents : d.key = key => d.seq <= Event(g).seq
  <2> SUFFICES ASSUME NEW m \in DataRecords, Event(m).key = key PROVE Event(m).seq <= Event(g).seq
    BY <1>1
  <2>1. m \in S /\ Event(m).seq = m /\ Event(g).seq = g
    BY EventIs DEF DataRecords
  <2> QED  BY <1>3, <2>1
<1> DEFINE last == LastOf(ReadEvents, key)
<1> HIDE DEF key, S
<1>7. /\ last \in ReadEvents /\ last.key = key
      /\ \A d \in ReadEvents : d.key = key => d.seq <= last.seq
  BY <1>5, <1>6 DEF LastOf
<1>8. PICK m \in DataRecords : last = Event(m)
  BY <1>1, <1>7
<1>9. ldb[m].key = key /\ m \in DOMAIN ldb /\ last.seq = m
  BY <1>7, <1>8, EventIs DEF DataRecords
<1>10. ASSUME NEW k \in DOMAIN ldb, ldb[k].key = ldb[m].key PROVE k <= m
  <2>1. k \in DataRecords
    BY <1>8, <1>9, <1>10 DEF DataRecords
  <2>2. Event(k) \in ReadEvents /\ Event(k).key = key /\ Event(k).seq = k
    BY <1>1, <1>9, <1>10, <2>1, EventIs
  <2> QED  BY <1>7, <1>9, <2>2
<1> QED  BY <1>8, <1>9, <1>10 DEF IsLast, key, last

LEMMA LastIsWhatThePageGets ==
    ASSUME Ledger, sources.opens, NEW n \in DataRecords, NEW key, key = ldb[n].key
    PROVE  /\ LastOf(ReadEvents, key).deleted = ~IsLive(key)
           /\ IsLive(key) /\ LastOf(ReadEvents, key).value # Opaque =>
                 LastOf(ReadEvents, key).value = items[key]
<1>1. LedgerSound /\ RecordsSound /\ ItemsSound
  BY DEF Ledger
<1>2. PICK m \in DataRecords : /\ LastOf(ReadEvents, key) = Event(m)
                               /\ ldb[m].key = key /\ IsLast(m)
  BY <1>1, LastIs
<1>3. m \in DOMAIN ldb /\ key.is = "data" /\ m \in Nat
  BY <1>1, <1>2 DEF DataRecords, LedgerSound
<1>4. /\ Event(m).deleted = ldb[m].deleted
      /\ Event(m).value = ldb[m].value \/ Event(m).value = Opaque
  BY EventIs
<1>5. CASE IsLive(key)
  <2>1. PICK k \in DOMAIN ldb : ldb[k] = Written(key, items[key]) /\ IsLast(k)
    BY <1>1, <1>5 DEF ItemsSound, IsLive, Says
  <2>2. ldb[k].key = key
    BY <2>1, RecordIs
  <2>3. k <= m /\ m <= k /\ k \in Nat
    BY <1>1, <1>2, <1>3, <2>1, <2>2 DEF IsLast, LedgerSound
  <2>4. k = m
    BY <1>3, <2>3
  <2>5. ldb[m].deleted = FALSE /\ ldb[m].value = items[key]
    BY <2>1, <2>4 DEF Written
  <2> QED  BY <1>2, <1>4, <1>5, <2>5
<1>6. CASE ~IsLive(key)
  <2>1. ~IsWritten(ldb[m])
    BY <1>1, <1>2, <1>3, <1>6 DEF ItemsSound, IsLive
  <2>2. ldb[m] = Tombstone(key)
    BY <1>1, <1>2, <1>3, <2>1 DEF RecordsSound, IsTomb
  <2>3. ldb[m].deleted = TRUE
    BY <2>2 DEF Tombstone
  <2> QED  BY <1>2, <1>4, <1>6, <2>3
<1> QED  BY <1>5, <1>6

LEMMA NoItemIsLeftOut ==
    ASSUME Ledger, sources.opens
    PROVE  DOMAIN items \subseteq {e.key : e \in ReadEvents}
<1> SUFFICES ASSUME NEW key \in DOMAIN items PROVE \E e \in ReadEvents : e.key = key
  OBVIOUS
<1>1. LedgerSound /\ ItemsSound
  BY DEF Ledger
<1>2. PICK n \in DOMAIN ldb : ldb[n] = Written(key, items[key])
  BY <1>1 DEF ItemsSound, Says
<1>3. ldb[n].key = key /\ n \in DataRecords
  BY <1>1, <1>2, RecordIs DEF ItemsSound, DataRecords
<1> QED  BY <1>1, <1>3, ReadIs, EventIs

LEMMA TimesAreTheirOrigins ==
    ASSUME Ledger, LocalSound, NEW n \in DataRecords
    PROVE  TimeIsItsOrigins(Event(n)) /\ Event(n).at \in Nat
<1>1. LedgerSound /\ RecordsSound /\ ItemsSound
  BY DEF Ledger
<1> DEFINE o == ldb[n].key.of
           S == {m \in LiveOf("meta") : ldb[m].key.of = o}
<1>2. n \in DOMAIN ldb /\ o \in Origins
  BY DEF DataRecords, LocalSound
<1>3. Event(n).key = ldb[n].key /\ Event(n).at = Told(S, 0)
  BY EventIs DEF LocalSound
<1>4. changed[o] \in Nat
  BY <1>2 DEF LocalSound
<1>5. S \in SUBSET DOMAIN ldb /\ \A m \in S : IsWritten(ldb[m]) /\ ldb[m].key.is = "meta" /\ ldb[m].key.of = o
  BY <1>1, LiveRecords
<1>6. \A m \in S : ldb[m].key = Meta(o) /\ ldb[m].value \in Nat /\ ldb[m].value <= changed[o]
  BY <1>5 DEF LocalSound
<1>7. \/ S = {} /\ Told(S, 0) = 0
      \/ \E m \in S : Told(S, 0) = ldb[m].value /\ \A k \in S : k <= m
  BY <1>1, <1>5, ToldIs
<1>8. Event(n).at \in Nat /\ Event(n).at <= changed[o]
  BY <1>3, <1>4, <1>6, <1>7
<1>9. ASSUME IsLive(ldb[n].key) PROVE Event(n).at = changed[o]
  <2>1. PICK k \in DOMAIN ldb : ldb[k] = Written(Meta(o), changed[o]) /\ IsLast(k)
    BY <1>9 DEF LocalSound, IsLive, Says
  <2>2. ldb[k].key = Meta(o) /\ ldb[k].value = changed[o] /\ IsWritten(ldb[k])
    BY <2>1, RecordIs
  <2>3. k \in S
    BY <1>1, <2>2, LiveRecords, KeyIs
  <2>4. PICK m \in S : Told(S, 0) = ldb[m].value /\ \A j \in S : j <= m
    BY <1>7, <2>3
  <2>5. k <= m /\ m <= k /\ m \in Nat /\ k \in Nat
    BY <1>1, <1>5, <1>6, <2>1, <2>2, <2>3, <2>4 DEF IsLast, LedgerSound
  <2>6. k = m
    BY <2>5
  <2> QED  BY <1>3, <2>2, <2>4, <2>6
<1> QED  BY <1>3, <1>8, <1>9 DEF TimeIsItsOrigins, IsLive

LEMMA NamesAreTheirDatabases ==
    ASSUME Ledger, IdbSound, NEW n \in DataRecords
    PROVE  NamesWereItsDatabases(Event(n)) /\ Event(n).at \in Nat
<1>1. LedgerSound /\ RecordsSound /\ ItemsSound
  BY DEF Ledger
<1> DEFINE id == ldb[n].key.of
           dbs == {m \in LiveOf("database") : ldb[m].value = id}
           stores == {m \in LiveOf("store") : ldb[m].key.of = id}
           origin == IF dbs = {} THEN Unknown ELSE ldb[TheOneThatCounts(dbs)].key.of
           inStore == Told(stores, Unknown)
<1>2. Event(n).key = ldb[n].key /\ Event(n).at = 0 /\ Event(n).db = NamesOf(id)
  BY EventIs DEF IdbSound
<1>3. Event(n).db = Db(id, origin, inStore) /\ Event(n).db.origin = origin /\ Event(n).db.store = inStore
  BY <1>2 DEF NamesOf, Db
<1>4. PICK was \in calledOnce : was.id = id
  <2>1. n \in DOMAIN ldb /\ ldb[n].key.is = "data"
    BY DEF DataRecords
  <2> QED  BY <2>1, KeyIs DEF IdbSound, RecordOfDatabase
<1>5. \A m \in dbs : /\ m \in DOMAIN ldb /\ ldb[m].key = DbName(ldb[m].key.of)
                     /\ \E c \in calledOnce : c.id = id /\ c.origin = ldb[m].key.of
  BY <1>1, LiveRecords, KeyIs DEF IdbSound, RecordOfDatabase
<1>6. \A m \in stores : /\ m \in DOMAIN ldb /\ ldb[m].key = StoreName(id)
                        /\ \E c \in calledOnce : c.id = id /\ c.store = ldb[m].value
  BY <1>1, LiveRecords, KeyIs DEF IdbSound, RecordOfDatabase
<1>7. CalledSound
  BY DEF IdbSound
<1>8. dbs # {} => TheOneThatCounts(dbs) \in dbs
  <2>1. dbs \in SUBSET DOMAIN ldb
    BY <1>5
  <2> QED  BY <1>1, <2>1, LatestIs DEF TheOneThatCounts
<1>9. \/ stores = {} /\ inStore = Unknown
      \/ \E m \in stores : inStore = ldb[m].value /\ \A k \in stores : k <= m
  <2>1. stores \in SUBSET DOMAIN ldb
    BY <1>6
  <2> QED  BY <1>1, <2>1, ToldIs
<1> HIDE DEF dbs, stores, inStore
<1>10. origin = was.origin \/ origin = Unknown
  BY <1>4, <1>5, <1>7, <1>8 DEF CalledSound
<1>11. inStore = Unknown \/ \E c \in calledOnce : c.id = id /\ c.store = inStore
  BY <1>6, <1>9
<1>12. ASSUME IsLive(ldb[n].key)
       PROVE  \E o \in Origins : databases[o] = id /\ Event(n).db = Db(id, o, storeNames[id])
  <2>1. PICK o \in Origins : databases[o] # NoDb /\ databases[o] = id
    BY <1>12 DEF IdbSound, IsLive
  <2>2. DatabaseOf(o, id)
    BY <2>1 DEF IdbSound
  <2>3. PICK k \in DOMAIN ldb : ldb[k] = Written(DbName(o), id)
    BY <2>2 DEF DatabaseOf, Says
  <2>4. ldb[k].key = DbName(o) /\ ldb[k].value = id /\ IsWritten(ldb[k])
    BY <2>3, RecordIs
  <2>5. k \in dbs
    BY <1>1, <2>4, LiveRecords, KeyIs DEF dbs
  <2>6. \E c \in calledOnce : c.id = id /\ c.origin = o
    BY <2>2 DEF DatabaseOf
  <2>7. origin = o
    BY <1>5, <1>7, <1>8, <2>5, <2>6 DEF CalledSound
  <2>8. PICK j \in DOMAIN ldb : ldb[j] = Written(StoreName(id), storeNames[id]) /\ IsLast(j)
    BY <2>2 DEF DatabaseOf, Says
  <2>9. ldb[j].key = StoreName(id) /\ ldb[j].value = storeNames[id] /\ IsWritten(ldb[j])
    BY <2>8, RecordIs
  <2>10. j \in stores
    BY <1>1, <2>9, LiveRecords, KeyIs DEF stores
  <2>11. PICK m \in stores : inStore = ldb[m].value /\ \A i \in stores : i <= m
    BY <1>9, <2>10
  <2>12. j <= m /\ m <= j /\ m \in Nat /\ j \in Nat
    BY <1>1, <1>6, <2>8, <2>9, <2>10, <2>11 DEF IsLast, LedgerSound
  <2>13. j = m
    BY <2>12
  <2>14. inStore = storeNames[id]
    BY <2>9, <2>11, <2>13
  <2> QED  BY <1>3, <2>1, <2>7, <2>14
<1> HIDE DEF id, origin
<1> QED  BY <1>2, <1>3, <1>4, <1>10, <1>11, <1>12 DEF NamesWereItsDatabases, IsLive, id

\* Whatever the sources, what is shown of a profile is all that is read of each.
LEMMA ProfileShowsAll ==
    ASSUME LedgerSound, StorageTypes, sources.isProfile, \A e \in ReadEvents : e.at \in Nat
    PROVE  ToSet(sources.others) \cup ReadEvents = ToSet(RunStorage.events)
<1> DEFINE E == ParseLeveldbDir.events
           X == sources.others
           T == ReadEvents \cup {Elsewhere}
           C == E \o X
           times == [k \in DOMAIN C |-> C[k].at]
<1>1. E \in Seq(T) /\ ToSet(E) = ReadEvents
  BY ReadIs
<1>2. X \in Seq(T)
  <2>1. Elsewhere \in T
    OBVIOUS
  <2> HIDE DEF T
  <2>2. <<>> \in Seq(T) /\ <<Elsewhere>> \in Seq(T)
    BY <2>1
  <2> QED  BY <2>2 DEF StorageTypes
<1>3. Elsewhere.at = 0
  BY DEF Elsewhere
<1>4. ParsePath.events = C /\ RunStorage.events = SortedByKey(C, times)
  <2>1. ParsePath.events = C
    BY DEF ParsePath, CollectChromiumWebStorage, Failure
  <2> HIDE DEF C
  <2> QED  BY <2>1 DEF RunStorage
<1> HIDE DEF E, X
<1>5. /\ C \in Seq(T) /\ Len(C) = Len(E) + Len(X)
      /\ \A i \in 1 .. Len(E) + Len(X) : C[i] = IF i <= Len(E) THEN E[i] ELSE X[i - Len(E)]
  BY <1>1, <1>2, ConcatProperties
<1>6. /\ Len(E) \in Nat /\ Len(X) \in Nat /\ DOMAIN E = 1..Len(E) /\ DOMAIN X = 1..Len(X)
      /\ DOMAIN C = 1..(Len(E) + Len(X))
  BY <1>1, <1>2, <1>5
<1> HIDE DEF C, T
<1>7. ToSet(C) = ToSet(E) \cup ToSet(X)
  <2>1. \A i \in DOMAIN E : i \in DOMAIN C /\ C[i] = E[i]
    BY <1>5, <1>6
  <2>2. \A i \in DOMAIN X : \E j \in DOMAIN C : C[j] = X[i]
    <3> SUFFICES ASSUME NEW i \in DOMAIN X PROVE Len(E) + i \in DOMAIN C /\ C[Len(E) + i] = X[i]
      OBVIOUS
    <3>1. /\ Len(E) + i \in 1..(Len(E) + Len(X)) /\ ~(Len(E) + i <= Len(E)) /\ (Len(E) + i) - Len(E) = i
      BY <1>6
    <3> QED  BY <1>5, <1>6, <3>1
  <2>3. \A i \in DOMAIN C : (i \in DOMAIN E /\ C[i] = E[i]) \/ (i - Len(E) \in DOMAIN X /\ C[i] = X[i - Len(E)])
    BY <1>5, <1>6
  <2> QED  BY <2>1, <2>2, <2>3 DEF ToSet
<1>8. times \in [DOMAIN C -> Int]
  <2>1. \A i \in DOMAIN C : C[i] \in T
    BY <1>5
  <2>2. \A x \in T : x.at \in Int
    BY <1>3 DEF T
  <2> QED  BY <2>1, <2>2
<1> HIDE DEF times
<1>9. PICK place \in [DOMAIN C -> DOMAIN C] :
         /\ \A a, b \in DOMAIN C : place[a] = place[b] => a = b
         /\ \A i \in DOMAIN C : \E a \in DOMAIN C : place[a] = i
         /\ \A a, b \in DOMAIN C : a < b => GoesBefore(times, place[a], place[b])
         /\ SortedByKey(C, times) \in [DOMAIN C -> {C[i] : i \in DOMAIN C}]
         /\ \A a \in DOMAIN C : SortedByKey(C, times)[a] = C[place[a]]
  BY <1>5, <1>8, SortedIsPermutation
<1>10. ToSet(SortedByKey(C, times)) = ToSet(C)
  <2>1. DOMAIN SortedByKey(C, times) = DOMAIN C
    BY <1>9
  <2>2. \A i \in DOMAIN C : \E a \in DOMAIN C : SortedByKey(C, times)[a] = C[i]
    BY <1>9
  <2>3. \A a \in DOMAIN C : \E i \in DOMAIN C : SortedByKey(C, times)[a] = C[i]
    BY <1>9
  <2> QED  BY <2>1, <2>2, <2>3 DEF ToSet
<1> QED  BY <1>1, <1>4, <1>7, <1>10 DEF X

LEMMA StorageIsAttributed ==
    ASSUME StorageInv
    PROVE  StoredItemsAreAttributed
<1>1. Ledger /\ LedgerSound /\ StorageTypes
  BY DEF StorageInv, Ledger
<1>2. ASSUME NEW n \in DataRecords
      PROVE  /\ Event(n).at \in Nat
             /\ IF format = "local" THEN TimeIsItsOrigins(Event(n)) ELSE NamesWereItsDatabases(Event(n))
  <2>1. CASE LocalSound
    BY <1>1, <2>1, TimesAreTheirOrigins DEF LocalSound
  <2>2. CASE IdbSound
    BY <1>1, <2>2, NamesAreTheirDatabases DEF IdbSound
  <2> QED  BY <2>1, <2>2 DEF StorageInv
<1>3. ASSUME NEW e \in ReadEvents
      PROVE  /\ e.at \in Nat
             /\ LastOf(ReadEvents, e.key).deleted = ~IsLive(e.key)
             /\ IsLive(e.key) /\ LastOf(ReadEvents, e.key).value # Opaque =>
                   LastOf(ReadEvents, e.key).value = items[e.key]
             /\ IF format = "local" THEN TimeIsItsOrigins(e) ELSE NamesWereItsDatabases(e)
  <2>1. sources.opens
    BY <1>1, ReadIs
  <2>2. PICK n \in DataRecords : e = Event(n)
    BY <1>1, <2>1, ReadIs
  <2>3. e.key = ldb[n].key
    BY <2>2, EventIs
  <2> QED  BY <1>1, <1>2, <2>1, <2>2, <2>3, LastIsWhatThePageGets
<1>4. sources.opens => DOMAIN items \subseteq {e.key : e \in ReadEvents}
  BY <1>1, NoItemIsLeftOut
<1>5. sources.isProfile => ToSet(sources.others) \cup ReadEvents = ToSet(RunStorage.events)
  BY <1>1, <1>3, ProfileShowsAll
<1> QED  BY <1>3, <1>4, <1>5 DEF StoredItemsAreAttributed

\* What is kept of an origin's items, of its databases and of their names agrees with the
\* records that are left: of each key that a page has the last record, whatever was
\* compacted (the writers of web storage, as its readers know them: chromium.rs 22-30).
THEOREM StorageInvariant == StorageSpec => []StorageInv
<1>1. StorageInit => StorageInv
  BY StorageInitial
<1>2. StorageInv /\ [StorageNext]_storageVars => StorageInv'
  BY StorageStep
<1> QED  BY <1>1, <1>2, PTL DEF StorageSpec

\* The last that is shown of an item is what the page gets for it, with the time or the
\* names that are its own, and none is left out, of any origins and any records that were
\* written and compacted (chromium.rs 22-30, record.rs 126-128, lib.rs 139-141).
THEOREM StorageCorrect == StorageSpec => []StoredItemsAreAttributed
<1>1. StorageInv => StoredItemsAreAttributed
  BY StorageIsAttributed
<1> QED  BY <1>1, StorageInvariant, PTL

-----------------------------------------------------------------------------
(* The file a parser is given, over any number of rows. *)

\* Rows of a table, as the browser writes them or damage leaves them.
TableRow == [id : Nat, key : Int, at : Int, sound : BOOLEAN, link : Int, sort : BOOLEAN]

\* The shape of the file, and that each of its rows has a number of its own.
RowsOf(l) == store.lists[l].rows
Numbered ==
    /\ \A p \in AllRows(store) : RowAt(store, p).id \in 1..Cardinality(AllRows(store))
    /\ \A p, q \in AllRows(store) : RowAt(store, p).id = RowAt(store, q).id => p = q
RowSound(r) == r \in TableRow /\ (IsRecovery => r.key \in {1, 2})
FileShaped ==
    /\ {"opens", "lists", "utf8"} \subseteq DOMAIN store
    /\ store.opens \in BOOLEAN /\ store.utf8 \in BOOLEAN
    /\ DOMAIN store.lists = ListsOf
    /\ \A l \in ListsOf :
          /\ "rows" \in DOMAIN store.lists[l] /\ store.lists[l].date \in {0, 1}
          /\ IsList(RowsOf(l))
          /\ \A k \in DOMAIN RowsOf(l) : k <= MaxTableRows /\ RowSound(RowsOf(l)[k])
FileInv == reader \in KnownReaders /\ FileShaped /\ Numbered

LEMMA FewAreFinite == \A a, b, c, d : IsFiniteSet({a, b, c, d})
<1> SUFFICES ASSUME NEW a, NEW b, NEW c, NEW d PROVE IsFiniteSet({a, b, c, d})
  OBVIOUS
<1>1. IsFiniteSet({a}) /\ IsFiniteSet({b}) /\ IsFiniteSet({c}) /\ IsFiniteSet({d})
  BY FS_Singleton
<1>2. IsFiniteSet({a} \cup {b}) /\ IsFiniteSet({c} \cup {d})
  BY <1>1, FS_Union
<1>3. IsFiniteSet(({a} \cup {b}) \cup ({c} \cup {d}))
  BY <1>2, FS_Union
<1>4. {a, b, c, d} = ({a} \cup {b}) \cup ({c} \cup {d})
  OBVIOUS
<1> QED  BY <1>3, <1>4

LEMMA ListsAreFinite == ASSUME reader \in KnownReaders PROVE IsFiniteSet(ListsOf)
<1>1. PICK s : s = ListsOf
  OBVIOUS
<1>2. \A w, x, y, z : s \subseteq {w, x, y, z} => IsFiniteSet(s)
  BY FewAreFinite, FS_Subset
<1>3. CASE reader.family = "Chromium" /\ reader.artifact \in DOMAIN ChromiumLists
  <2>1. s = ChromiumLists[reader.artifact]
    BY <1>1, <1>3 DEF ListsOf
  <2>2. \/ s \subseteq {"urls", "visits", "cookies", "roots"}
        \/ s \subseteq {"downloads", "downloads_url_chains", "extensions", "logins"}
        \/ s \subseteq {"autofill", "files", "info_cache", "exceptions"}
        \/ s \subseteq {"scalars", "times", "account_info", "startup_urls"}
        \/ s \subseteq {"tabs", "icon_mapping", "favicons", "favicon_bitmaps"}
        \/ s \subseteq {"credit_cards", "masked_credit_cards", "token_service", "autofill_profiles"}
        \/ s \subseteq {"top_sites", "omni_box_shortcuts", "network_action_predictor", "bounces"}
        \/ s \subseteq {"playback", "playbackSession", "origin", "sts"}
        \/ s \subseteq {"nel_policies", "reporting_endpoints", "policies", "endpoints"}
        \/ s \subseteq {"servers", "broken_alternative_services", "sts", "root"}
    BY <1>3, <2>1 DEF ChromiumLists
  <2> QED  BY <1>1, <1>2, <2>2
<1>4. CASE reader.family = "Firefox" /\ reader.artifact \in DOMAIN FirefoxLists
  <2>1. s = FirefoxLists[reader.artifact]
    BY <1>1, <1>4 DEF ListsOf
  <2>2. \/ s \subseteq {"moz_places", "moz_historyvisits", "moz_cookies", "moz_formhistory"}
        \/ s \subseteq {"moz_places", "moz_bookmarks", "backup_1", "backup_2"}
        \/ s \subseteq {"moz_places", "moz_annos", "moz_anno_attributes", "moz_perms"}
        \/ s \subseteq {"moz_places", "moz_inputhistory", "addons", "logins"}
        \/ s \subseteq {"tabs", "lines", "files", "webappsstore2"}
        \/ s \subseteq {"object_data", "lines", "files", "webappsstore2"}
    BY <1>4, <2>1 DEF FirefoxLists
  <2> QED  BY <1>1, <1>2, <2>2
<1>5. CASE reader.family = "Safari" /\ reader.artifact \in DOMAIN SafariLists
  <2>1. s = SafariLists[reader.artifact]
    BY <1>1, <1>5 DEF ListsOf
  <2>2. \/ s \subseteq {"history_visits", "history_items", "cookies", "Children"}
        \/ s \subseteq {"DownloadHistory", "Installed_Extensions", "TopSites", "Containers"}
        \/ s \subseteq {"Containers", "Container_1", "Container_2", "TopSites"}
    BY <1>5, <2>1 DEF SafariLists
  <2> QED  BY <1>1, <1>2, <2>2
<1> QED  BY <1>3, <1>4, <1>5 DEF KnownReaders

LEMMA AllRowsAre ==
    ASSUME reader \in KnownReaders, FileShaped
    PROVE  /\ IsFiniteSet(AllRows(store)) /\ Cardinality(AllRows(store)) \in Nat
           /\ \A l \in ListsOf : \A k : <<l, k>> \in AllRows(store) <=> k \in DOMAIN RowsOf(l)
           /\ \A p \in AllRows(store) :
                 \E l \in ListsOf : \E k \in DOMAIN RowsOf(l) : p = <<l, k>>
<1>2. AllRows(store) = {p \in ListsOf \X (1..MaxTableRows) : p[2] \in DOMAIN RowsOf(p[1])}
  BY DEF AllRows, RowsOf
<1>3. MaxTableRows \in Nat
  BY ReadersAssumption
<1>4. ASSUME NEW l \in ListsOf, NEW k \in DOMAIN RowsOf(l) PROVE k \in 1..MaxTableRows
  <2>1. IsList(RowsOf(l)) /\ k <= MaxTableRows
    BY DEF FileShaped
  <2>2. k \in 1..Len(RowsOf(l)) /\ Len(RowsOf(l)) \in Nat
    BY <2>1, ListIs
  <2> QED  BY <1>3, <2>1, <2>2
<1>5. IsFiniteSet(ListsOf \X (1..MaxTableRows))
  <2>1. IsFiniteSet(ListsOf)
    BY ListsAreFinite
  <2>2. IsFiniteSet(1..MaxTableRows)
    BY <1>3, FS_Interval
  <2> QED  BY <2>1, <2>2, FS_Product
<1>6. IsFiniteSet(AllRows(store))
  BY <1>2, <1>5, FS_Subset
<1>7. Cardinality(AllRows(store)) \in Nat
  BY <1>6, FS_CardinalityType
<1>8. ASSUME NEW l \in ListsOf, NEW k
      PROVE  <<l, k>> \in AllRows(store) <=> k \in DOMAIN RowsOf(l)
  BY <1>2, <1>4
<1>9. ASSUME NEW p \in AllRows(store)
      PROVE  \E l \in ListsOf : \E k \in DOMAIN RowsOf(l) : p = <<l, k>>
  BY <1>2
<1> QED  BY <1>6, <1>7, <1>8, <1>9

\* A file without rows, and each step that adds or damages one, keeps the invariant.
LEMMA FileInit == ArtifactsInit => FileInv
<1> SUFFICES ASSUME ArtifactsInit PROVE FileInv
  OBVIOUS
<1>1. reader \in KnownReaders
  BY ReadersAssumption DEF ArtifactsInit
<1>2. PICK opens \in BOOLEAN, states \in [ListsOf -> {"here", "absent", "changed"}],
           dates \in [ListsOf -> {0, 1}] :
        store = [opens |-> opens, utf8 |-> TRUE,
                 lists |-> [l \in ListsOf |-> [state |-> states[l], rows |-> <<>>,
                                                date |-> dates[l]]]]
  BY Zenon DEF ArtifactsInit
<1>3. PICK e : e = <<>>
  OBVIOUS
<1>4. IsList(e) /\ DOMAIN e = {}
  <2>1. e \in Seq({}) /\ DOMAIN e = {}
    BY <1>3
  <2> QED  BY <2>1, SeqIsList
<1>5. \A l \in ListsOf :
          RowsOf(l) = e /\ store.lists[l].date \in {0, 1} /\ "rows" \in DOMAIN store.lists[l]
  BY <1>2, <1>3 DEF RowsOf
<1>6. FileShaped
  BY <1>2, <1>4, <1>5 DEF FileShaped
<1>7. AllRows(store) = {}
  <2>1. \A p \in AllRows(store) : \E l \in ListsOf : \E k \in DOMAIN RowsOf(l) : p = <<l, k>>
    BY <1>1, <1>6, AllRowsAre
  <2> QED  BY <1>4, <1>5, <2>1
<1> QED  BY <1>1, <1>6, <1>7 DEF FileInv, Numbered

\* A row that is changed in some columns is still one, of the same number.
SameRow(x, r, key) == x \in TableRow /\ x.id = r.id /\ x.key = key
LEMMA ChangedRow ==
    ASSUME NEW r \in TableRow, NEW n \in Int, NEW x
    PROVE  /\ x = [r EXCEPT !.link = n] => SameRow(x, r, r.key)
           /\ x = [r EXCEPT !.key = n] => SameRow(x, r, n)
           /\ x = [r EXCEPT !.at = n] => SameRow(x, r, r.key)
           /\ x = [r EXCEPT !.sort = FALSE] => SameRow(x, r, r.key)
           /\ x = [r EXCEPT !.sound = FALSE] => SameRow(x, r, r.key)
           /\ x = [r EXCEPT !.sound = FALSE, !.at = n] => SameRow(x, r, r.key)
BY DEF TableRow, SameRow

LEMMA NewRowIs ==
    ASSUME NEW list \in ListsOf, NEW row \in NewRows(list), Cardinality(AllRows(store)) \in Nat
    PROVE  RowSound(row) /\ row.id = 1 + Cardinality(AllRows(store))
<1>1. Stored!Null = -1
  BY DEF Stored!Null
<1>2. PICK n \in Nat : n = 1 + Cardinality(AllRows(store))
  OBVIOUS
<1>3. PICK link \in {0, 1} :
        WholeRow(list, n) = [id |-> n, key |-> 1, at |-> 2, sound |-> TRUE, link |-> link, sort |-> TRUE]
  BY DEF WholeRow
<1>4. LinksOf(list) \subseteq Int
  BY ReadersAssumption DEF LinksOf
<1>5. row \in Wanting(list, n)
  BY <1>2 DEF NewRows
<1>6. PICK recovers \in BOOLEAN : recovers <=> IsRecovery
  OBVIOUS
<1>7. \/ row = WholeRow(list, n)
      \/ \E l \in LinksOf(list) : row = [WholeRow(list, n) EXCEPT !.link = l]
      \/ row = [WholeRow(list, n) EXCEPT !.sort = FALSE]
      \/ recovers /\ row = [WholeRow(list, n) EXCEPT !.key = 2]
      \/ ~recovers /\ \E k \in {Stored!Null, 0} : row = [WholeRow(list, n) EXCEPT !.key = k]
      \/ ~recovers /\ \E k \in {Stored!Null, 0} : row = [WholeRow(list, n) EXCEPT !.at = k]
  <2>1. CASE IsRecovery
    BY <1>5, <1>6, <2>1 DEF Wanting
  <2>2. CASE ~IsRecovery
    BY <1>5, <1>6, <2>2 DEF Wanting
  <2> QED  BY <2>1, <2>2
<1>8. row \in TableRow /\ row.id = n /\ (recovers => row.key \in {1, 2})
  <2>1. PICK whole : whole = WholeRow(list, n)
    OBVIOUS
  <2>2. whole = [id |-> n, key |-> 1, at |-> 2, sound |-> TRUE, link |-> link, sort |-> TRUE]
    BY <1>3, <2>1
  <2>3. whole \in TableRow /\ whole.id = n /\ whole.key = 1
    BY <2>2 DEF TableRow
  <2>4. ASSUME NEW l \in Int, row = [whole EXCEPT !.link = l] PROVE SameRow(row, whole, 1)
    BY ONLY <2>3, <2>4, ChangedRow
  <2>5. ASSUME row = [whole EXCEPT !.sort = FALSE] PROVE SameRow(row, whole, 1)
    BY ONLY <2>3, <2>5, 0 \in Int, ChangedRow
  <2>6. ASSUME NEW k \in Int, row = [whole EXCEPT !.key = k] PROVE SameRow(row, whole, k)
    BY ONLY <2>3, <2>6, ChangedRow
  <2>7. ASSUME NEW k \in Int, row = [whole EXCEPT !.at = k] PROVE SameRow(row, whole, 1)
    BY ONLY <2>3, <2>7, ChangedRow
  <2>8. row = whole \/ \E key \in Int : SameRow(row, whole, key) /\ (recovers => key \in {1, 2})
    BY <1>1, <1>4, <1>7, <2>1, <2>4, <2>5, <2>6, <2>7
  <2> QED  BY <2>3, <2>8 DEF SameRow
<1> QED  BY <1>2, <1>6, <1>8 DEF RowSound

\* No list has as many rows as all of them, so one that a row is added to has room for it.
LEMMA ListFits ==
    ASSUME reader \in KnownReaders, FileShaped, NEW l \in ListsOf
    PROVE  Len(RowsOf(l)) <= Cardinality(AllRows(store))
<1>1. IsList(RowsOf(l))
  BY DEF FileShaped
<1>2. PICK n \in Nat : n = Len(RowsOf(l)) /\ DOMAIN RowsOf(l) = 1..n
  BY <1>1, ListIs
<1> DEFINE f == [k \in 1..n |-> <<l, k>>]
           A == AllRows(store)
<1>3. f \in [1..n -> A]
  <2>1. ASSUME NEW k \in 1..n PROVE <<l, k>> \in A
    <3>1. k \in DOMAIN RowsOf(l)
      BY <1>2
    <3> QED  BY <3>1, AllRowsAre
  <2> QED  BY <2>1
<1>4. \A j, k \in 1..n : f[j] = f[k] => j = k
  OBVIOUS
<1>5. IsFiniteSet(A)
  BY AllRowsAre
<1> HIDE DEF f, A
<1>6. f \in Injection(1..n, A)
  BY <1>3, <1>4 DEF Injection, IsInjective
<1>7. Cardinality(1..n) = n
  BY FS_Interval
<1>8. Cardinality(1..n) <= Cardinality(A)
  BY <1>5, <1>6, FS_Injection
<1> QED  BY <1>2, <1>7, <1>8 DEF A

LEMMA AppendedList ==
    ASSUME NEW s, IsList(s), NEW x
    PROVE  /\ IsList(Append(s, x)) /\ DOMAIN Append(s, x) = 1..(Len(s) + 1)
           /\ Append(s, x)[Len(s) + 1] = x /\ \A k \in DOMAIN s : Append(s, x)[k] = s[k]
<1>1. s \in Seq(ToSet(s) \cup {x}) /\ Len(s) \in Nat /\ DOMAIN s = 1..Len(s)
  <2>1. s \in Seq(ToSet(s)) /\ Len(s) \in Nat /\ DOMAIN s = 1..Len(s)
    BY ListIs
  <2> QED  BY <2>1
<1>2. PICK a : a = Append(s, x)
  OBVIOUS
<1>3. a \in Seq(ToSet(s) \cup {x}) /\ DOMAIN a = 1..(Len(s) + 1)
      /\ a[Len(s) + 1] = x /\ \A k \in DOMAIN s : a[k] = s[k]
  BY <1>1, <1>2
<1>4. IsList(a)
  BY <1>3, SeqIsList
<1> QED  BY <1>2, <1>3, <1>4

LEMMA AddRowSound == FileInv /\ AddRow => FileInv'
<1> SUFFICES ASSUME FileInv, AddRow PROVE FileInv'
  OBVIOUS
<1>1. reader \in KnownReaders /\ FileShaped /\ Numbered /\ reader' = reader
  BY DEF FileInv, AddRow
<1>2. ListsOf' = ListsOf /\ (IsRecovery' <=> IsRecovery) /\ reader' \in KnownReaders
  BY <1>1 DEF ListsOf, IsRecovery
<1>3. PICK list \in ListsOf : \E row \in NewRows(list) :
          /\ row.id <= MaxTableRows
          /\ store' = [store EXCEPT !.lists[list].rows = Append(@, row)]
  BY <1>2 DEF AddRow
<1>4. PICK row \in NewRows(list) :
          /\ row.id <= MaxTableRows
          /\ store' = [store EXCEPT !.lists[list].rows = Append(@, row)]
  BY <1>3
<1>5. PICK c : c = Cardinality(AllRows(store))
  OBVIOUS
<1>6. RowSound(row) /\ row.id = c + 1 /\ c \in Nat /\ c + 1 <= MaxTableRows
  BY <1>1, <1>4, <1>5, NewRowIs, AllRowsAre
<1>7. PICK n \in Nat : n = Len(RowsOf(list)) /\ DOMAIN RowsOf(list) = 1..n /\ n <= c
  BY <1>1, <1>5, ListFits, ListIs DEF FileShaped
<1>8. /\ DOMAIN store' = DOMAIN store /\ DOMAIN store'.lists = DOMAIN store.lists
      /\ store'.lists[list] = [store.lists[list] EXCEPT !.rows = Append(RowsOf(list), row)]
      /\ \A l \in ListsOf : l # list => store'.lists[l] = store.lists[l]
      /\ store'.opens = store.opens /\ store'.utf8 = store.utf8
  BY <1>1, <1>4 DEF FileShaped, RowsOf
<1>9. /\ store'.lists[list].rows = Append(RowsOf(list), row)
      /\ store'.lists[list].date = store.lists[list].date
      /\ DOMAIN store'.lists[list] = DOMAIN store.lists[list]
  BY <1>1, <1>8 DEF FileShaped
<1>10. PICK new : new = Append(RowsOf(list), row)
  OBVIOUS
<1>11. /\ IsList(new) /\ DOMAIN new = 1..(n + 1) /\ new[n + 1] = row
       /\ \A k \in 1..n : new[k] = RowsOf(list)[k]
  BY <1>1, <1>7, <1>10, AppendedList DEF FileShaped
<1>12. FileShaped'
  <2> SUFFICES ASSUME NEW l \in ListsOf
               PROVE  /\ "rows" \in DOMAIN store'.lists[l] /\ store'.lists[l].date \in {0, 1}
                      /\ IsList(store'.lists[l].rows)
                      /\ \A k \in DOMAIN store'.lists[l].rows :
                            k <= MaxTableRows /\ RowSound(store'.lists[l].rows[k])
    BY <1>1, <1>2, <1>8 DEF FileShaped, RowsOf, RowSound
  <2>1. CASE l # list
    BY <1>1, <1>8, <2>1 DEF FileShaped, RowsOf
  <2>2. CASE l = list
    <3>1. \A k \in 1..n : RowSound(new[k])
      BY <1>1, <1>7, <1>11 DEF FileShaped
    <3>2. MaxTableRows \in Nat
      BY ReadersAssumption
    <3>3. \A k \in 1..(n + 1) : k <= MaxTableRows /\ (k \in 1..n \/ k = n + 1)
      BY <1>6, <1>7, <3>2
    <3>4. \A k \in DOMAIN new : k <= MaxTableRows /\ RowSound(new[k])
      BY <1>6, <1>11, <3>1, <3>3
    <3> QED  BY <1>1, <1>9, <1>10, <1>11, <2>2, <3>4 DEF FileShaped
  <2> QED  BY <2>1, <2>2
<1>13. PICK A, B, p : A = AllRows(store) /\ B = (AllRows(store))' /\ p = <<list, n + 1>>
  OBVIOUS
<1>14. B = A \cup {p} /\ p \notin A
  <2>1. \A l \in ListsOf : \A k : <<l, k>> \in A <=> k \in DOMAIN RowsOf(l)
    BY <1>1, <1>13, AllRowsAre
  <2>2. \A q \in A : \E l \in ListsOf : \E k \in DOMAIN RowsOf(l) : q = <<l, k>>
    BY <1>1, <1>13, AllRowsAre
  <2>3. B = {q \in ListsOf \X (1..MaxTableRows) : q[2] \in DOMAIN store'.lists[q[1]].rows}
    BY <1>1, <1>2, <1>13 DEF AllRows, ListsOf
  <2>4. \A k : k \in DOMAIN new <=> k \in DOMAIN RowsOf(list) \/ k = n + 1
    BY <1>7, <1>11
  <2>5. \A l \in ListsOf : \A k \in DOMAIN store'.lists[l].rows : k \in 1..MaxTableRows
    <3> SUFFICES ASSUME NEW l \in ListsOf, NEW k \in DOMAIN store'.lists[l].rows
                 PROVE  k \in 1..MaxTableRows
      OBVIOUS
    <3>1. PICK s : s = store'.lists[l].rows
      OBVIOUS
    <3>2. IsList(s) /\ k <= MaxTableRows
      BY <1>2, <1>12, <3>1 DEF FileShaped, RowsOf
    <3>3. k \in 1..Len(s) /\ Len(s) \in Nat /\ MaxTableRows \in Nat
      BY <3>1, <3>2, ListIs, ReadersAssumption
    <3> QED  BY <3>2, <3>3
  <2>6. \A l \in ListsOf : \A k : <<l, k>> \in B <=> k \in DOMAIN store'.lists[l].rows
    BY <2>3, <2>5
  <2>7. \A q \in B : \E l \in ListsOf : \E k : q = <<l, k>>
    BY <2>3
  <2>8. \A l \in ListsOf : \A k : <<l, k>> \in B <=> <<l, k>> \in A \/ <<l, k>> = p
    <3> SUFFICES ASSUME NEW l \in ListsOf, NEW k
                 PROVE  <<l, k>> \in B <=> <<l, k>> \in A \/ <<l, k>> = p
      OBVIOUS
    <3>1. CASE l = list
      BY <1>9, <1>10, <1>13, <2>1, <2>4, <2>6, <3>1
    <3>2. CASE l # list
      BY <1>8, <1>13, <2>1, <2>6, <3>2 DEF RowsOf
    <3> QED  BY <3>1, <3>2
  <2>9. p \notin A
    BY <1>7, <1>13, <2>1
  <2> QED  BY <1>13, <2>2, <2>7, <2>8, <2>9
<1>15. Cardinality(B) = c + 1
  <2>1. IsFiniteSet(A) /\ Cardinality(A) = c
    BY <1>1, <1>5, <1>13, AllRowsAre
  <2>2. Cardinality(A \cup {p}) = c + 1
    BY <1>14, <2>1, FS_AddElement
  <2> QED  BY <1>14, <2>2
<1>16. RowAt(store', p) = row /\ \A q \in A : RowAt(store', q) = RowAt(store, q)
  <2>1. RowAt(store', p) = row
    BY <1>9, <1>10, <1>11, <1>13 DEF RowAt
  <2>2. ASSUME NEW q \in A PROVE RowAt(store', q) = RowAt(store, q)
    <3>1. PICK l \in ListsOf : \E k \in DOMAIN RowsOf(l) : q = <<l, k>>
      BY <1>1, <1>13, AllRowsAre
    <3>2. CASE l = list
      BY <1>7, <1>9, <1>10, <1>11, <3>1, <3>2 DEF RowAt, RowsOf
    <3>3. CASE l # list
      BY <1>8, <3>1, <3>3 DEF RowAt, RowsOf
    <3> QED  BY <3>2, <3>3
  <2> QED  BY <2>1, <2>2
<1>17. Numbered'
  <2>1. \A q \in A : RowAt(store, q).id \in 1..c
    BY <1>1, <1>5, <1>13 DEF Numbered
  <2>2. \A q, r \in A : RowAt(store, q).id = RowAt(store, r).id => q = r
    BY <1>1, <1>13 DEF Numbered
  <2>3. \A q \in B : RowAt(store', q).id \in 1..(c + 1)
    BY <1>6, <1>14, <1>16, <2>1
  <2>4. \A q, r \in B : RowAt(store', q).id = RowAt(store', r).id => q = r
    <3> SUFFICES ASSUME NEW q \in B, NEW r \in B, RowAt(store', q).id = RowAt(store', r).id
                 PROVE  q = r
      OBVIOUS
    <3>1. \A t \in A : RowAt(store', t).id # c + 1 /\ RowAt(store', t).id = RowAt(store, t).id
      BY <1>6, <1>16, <2>1
    <3>2. RowAt(store', p).id = c + 1
      BY <1>6, <1>16
    <3> QED  BY <1>14, <2>2, <3>1, <3>2
  <2>5. (\A q \in AllRows(store) : RowAt(store, q).id \in 1..Cardinality(AllRows(store)))'
    BY <1>13, <1>15, <2>3
  <2>6. (\A q, r \in AllRows(store) : RowAt(store, q).id = RowAt(store, r).id => q = r)'
    BY <1>13, <2>4
  <2> QED  BY <2>5, <2>6 DEF Numbered
<1> QED  BY <1>1, <1>12, <1>17 DEF FileInv

\* What damage does: one row of a list is another, of the same number, main text and link.
Damages(list, k, row) ==
    /\ list \in ListsOf /\ k \in DOMAIN RowsOf(list)
    /\ RowSound(row) /\ row.id = RowsOf(list)[k].id /\ row.link = RowsOf(list)[k].link
    /\ DOMAIN store' = DOMAIN store /\ DOMAIN store'.lists = DOMAIN store.lists
    /\ store'.lists[list] = [store.lists[list] EXCEPT !.rows = [RowsOf(list) EXCEPT ![k] = row]]
    /\ \A l \in ListsOf : l # list => store'.lists[l] = store.lists[l]
    /\ store'.opens = store.opens /\ store'.utf8 \in BOOLEAN /\ reader' = reader

LEMMA DamagedRow ==
    ASSUME NEW r, RowSound(r), NEW x,
           \/ x = [r EXCEPT !.sound = FALSE, !.at = Stored!Null]
           \/ x = [r EXCEPT !.sound = FALSE]
           \/ x = [r EXCEPT !.at = Stored!Huge]
    PROVE  RowSound(x) /\ x.id = r.id /\ x.link = r.link
<1>1. r \in TableRow /\ (IsRecovery => r.key \in {1, 2})
  BY DEF RowSound
<1>2. PICK n \in Int, m \in Int : n = Stored!Null /\ m = Stored!Huge
  BY DEF Stored!Null, Stored!Huge
<1>3. SameRow(x, r, r.key)
  <2>1. CASE x = [r EXCEPT !.sound = FALSE, !.at = n]
    BY ONLY <1>1, <2>1, ChangedRow
  <2>2. CASE x = [r EXCEPT !.sound = FALSE]
    BY ONLY <1>1, <2>2, 0 \in Int, ChangedRow
  <2>3. CASE x = [r EXCEPT !.at = m]
    BY ONLY <1>1, <2>3, ChangedRow
  <2> QED  BY <1>2, <2>1, <2>2, <2>3
<1>4. x.link = r.link
  BY <1>1 DEF TableRow
<1> QED  BY <1>1, <1>3, <1>4 DEF SameRow, RowSound

LEMMA DamageIs ==
    ASSUME FileInv, SpoilRow \/ GarbleRow \/ StretchRow
    PROVE  \E list, k, row : Damages(list, k, row)
<1>1. reader \in KnownReaders /\ FileShaped /\ reader' = reader
  BY DEF FileInv, SpoilRow, GarbleRow, StretchRow
<1>2. CASE SpoilRow
  <2>1. PICK list \in ListsOf : \E k \in DOMAIN store.lists[list].rows :
            store' = [store EXCEPT !.lists[list].rows[k] =
                                      [@ EXCEPT !.sound = FALSE, !.at = Stored!Null]]
    BY <1>2 DEF SpoilRow
  <2>2. PICK k \in DOMAIN RowsOf(list) :
            store' = [store EXCEPT !.lists[list].rows[k] =
                                      [@ EXCEPT !.sound = FALSE, !.at = Stored!Null]]
    BY <2>1 DEF RowsOf
  <2>3. PICK row : row = [RowsOf(list)[k] EXCEPT !.sound = FALSE, !.at = Stored!Null]
    OBVIOUS
  <2>4. RowSound(row) /\ row.id = RowsOf(list)[k].id /\ row.link = RowsOf(list)[k].link
    BY <1>1, <2>3, DamagedRow DEF FileShaped
  <2>5. /\ DOMAIN store' = DOMAIN store /\ DOMAIN store'.lists = DOMAIN store.lists
        /\ store'.lists[list] = [store.lists[list] EXCEPT !.rows = [RowsOf(list) EXCEPT ![k] = row]]
        /\ \A l \in ListsOf : l # list => store'.lists[l] = store.lists[l]
        /\ store'.opens = store.opens /\ store'.utf8 = store.utf8
    BY <1>1, <2>2, <2>3 DEF FileShaped, RowsOf
  <2>6. Damages(list, k, row)
    BY <1>1, <2>4, <2>5 DEF Damages, FileShaped
  <2> QED  BY <2>6
<1>3. CASE GarbleRow
  <2>1. PICK list \in ListsOf : \E k \in DOMAIN store.lists[list].rows :
            store' = [store EXCEPT !.lists[list].rows[k] = [@ EXCEPT !.sound = FALSE],
                                   !.utf8 = FALSE]
    BY <1>3 DEF GarbleRow
  <2>2. PICK k \in DOMAIN RowsOf(list) :
            store' = [store EXCEPT !.lists[list].rows[k] = [@ EXCEPT !.sound = FALSE],
                                   !.utf8 = FALSE]
    BY <2>1 DEF RowsOf
  <2>3. PICK row : row = [RowsOf(list)[k] EXCEPT !.sound = FALSE]
    OBVIOUS
  <2>4. RowSound(row) /\ row.id = RowsOf(list)[k].id /\ row.link = RowsOf(list)[k].link
    BY <1>1, <2>3, DamagedRow DEF FileShaped
  <2>5. /\ DOMAIN store' = DOMAIN store /\ DOMAIN store'.lists = DOMAIN store.lists
        /\ store'.lists[list] = [store.lists[list] EXCEPT !.rows = [RowsOf(list) EXCEPT ![k] = row]]
        /\ \A l \in ListsOf : l # list => store'.lists[l] = store.lists[l]
        /\ store'.opens = store.opens /\ store'.utf8 = FALSE
    BY <1>1, <2>2, <2>3 DEF FileShaped, RowsOf
  <2>6. Damages(list, k, row)
    BY <1>1, <2>4, <2>5 DEF Damages
  <2> QED  BY <2>6
<1>4. CASE StretchRow
  <2>1. PICK list \in ListsOf : \E k \in DOMAIN store.lists[list].rows :
            store' = [store EXCEPT !.lists[list].rows[k] = [@ EXCEPT !.at = Stored!Huge]]
    BY <1>4 DEF StretchRow
  <2>2. PICK k \in DOMAIN RowsOf(list) :
            store' = [store EXCEPT !.lists[list].rows[k] = [@ EXCEPT !.at = Stored!Huge]]
    BY <2>1 DEF RowsOf
  <2>3. PICK row : row = [RowsOf(list)[k] EXCEPT !.at = Stored!Huge]
    OBVIOUS
  <2>4. RowSound(row) /\ row.id = RowsOf(list)[k].id /\ row.link = RowsOf(list)[k].link
    BY <1>1, <2>3, DamagedRow DEF FileShaped
  <2>5. /\ DOMAIN store' = DOMAIN store /\ DOMAIN store'.lists = DOMAIN store.lists
        /\ store'.lists[list] = [store.lists[list] EXCEPT !.rows = [RowsOf(list) EXCEPT ![k] = row]]
        /\ \A l \in ListsOf : l # list => store'.lists[l] = store.lists[l]
        /\ store'.opens = store.opens /\ store'.utf8 = store.utf8
    BY <1>1, <2>2, <2>3 DEF FileShaped, RowsOf
  <2>6. Damages(list, k, row)
    BY <1>1, <2>4, <2>5 DEF Damages, FileShaped
  <2> QED  BY <2>6
<1> QED  BY <1>2, <1>3, <1>4

LEMMA DamageSound == FileInv /\ (SpoilRow \/ GarbleRow \/ StretchRow) => FileInv'
<1> SUFFICES ASSUME FileInv, SpoilRow \/ GarbleRow \/ StretchRow PROVE FileInv'
  OBVIOUS
<1>1. PICK list, k, row : Damages(list, k, row)
  BY DamageIs
<1>2. /\ reader \in KnownReaders /\ FileShaped /\ Numbered /\ reader' = reader
      /\ ListsOf' = ListsOf /\ (IsRecovery' <=> IsRecovery) /\ reader' \in KnownReaders
  BY <1>1 DEF FileInv, Damages, ListsOf, IsRecovery
<1>3. list \in ListsOf /\ k \in DOMAIN RowsOf(list)
  BY <1>1 DEF Damages
<1>4. PICK new : new = [RowsOf(list) EXCEPT ![k] = row]
  OBVIOUS
<1>5. RowSound(row) /\ row.id = RowsOf(list)[k].id
  BY <1>1 DEF Damages
<1>6. /\ DOMAIN store' = DOMAIN store /\ DOMAIN store'.lists = DOMAIN store.lists
      /\ store'.lists[list] = [store.lists[list] EXCEPT !.rows = new]
      /\ \A l \in ListsOf : l # list => store'.lists[l] = store.lists[l]
      /\ store'.opens = store.opens /\ store'.utf8 \in BOOLEAN
  BY <1>1, <1>4 DEF Damages
<1>7. /\ store'.lists[list].rows = new
      /\ store'.lists[list].date = store.lists[list].date
      /\ DOMAIN store'.lists[list] = DOMAIN store.lists[list]
  BY <1>2, <1>6 DEF FileShaped
<1>8. /\ IsList(new) /\ DOMAIN new = DOMAIN RowsOf(list) /\ new[k] = row
       /\ \A n \in DOMAIN new : n # k => new[n] = RowsOf(list)[n]
  <2>1. PICK s : s = RowsOf(list)
    OBVIOUS
  <2>2. IsList(s) /\ k \in DOMAIN s
    BY <1>2, <1>3, <2>1 DEF FileShaped
  <2>3. PICK n \in Nat : s \in [1..n -> ToSet(s)]
    BY <2>2 DEF IsList
  <2>4. new \in [1..n -> ToSet(s) \cup {row}]
    BY <1>4, <2>1, <2>2, <2>3
  <2>5. new \in Seq(ToSet(s) \cup {row})
    BY <2>4
  <2> QED  BY <1>4, <2>1, <2>2, <2>3, <2>5, SeqIsList
<1>9. \A l \in ListsOf :
          /\ DOMAIN store'.lists[l].rows = DOMAIN RowsOf(l)
          /\ \A n \in DOMAIN RowsOf(l) : store'.lists[l].rows[n].id = RowsOf(l)[n].id
  BY <1>5, <1>6, <1>7, <1>8 DEF RowsOf
<1>10. FileShaped'
  <2> SUFFICES ASSUME NEW l \in ListsOf
               PROVE  /\ "rows" \in DOMAIN store'.lists[l] /\ store'.lists[l].date \in {0, 1}
                      /\ IsList(store'.lists[l].rows)
                      /\ \A n \in DOMAIN store'.lists[l].rows :
                            n <= MaxTableRows /\ RowSound(store'.lists[l].rows[n])
    BY <1>2, <1>6 DEF FileShaped, RowsOf, RowSound
  <2>1. CASE l # list
    BY <1>2, <1>6, <2>1 DEF FileShaped, RowsOf
  <2>2. CASE l = list
    <3>1. \A n \in DOMAIN new : n <= MaxTableRows /\ RowSound(new[n])
      BY <1>2, <1>3, <1>5, <1>8 DEF FileShaped
    <3> QED  BY <1>2, <1>7, <1>8, <2>2, <3>1 DEF FileShaped
  <2> QED  BY <2>1, <2>2
<1>11. (AllRows(store))' = AllRows(store)
  BY <1>2, <1>9 DEF AllRows, ListsOf, RowsOf
<1>12. \A q \in AllRows(store) : RowAt(store', q).id = RowAt(store, q).id
  <2> SUFFICES ASSUME NEW q \in AllRows(store) PROVE RowAt(store', q).id = RowAt(store, q).id
    OBVIOUS
  <2>1. PICK l \in ListsOf : \E n \in DOMAIN RowsOf(l) : q = <<l, n>>
    BY <1>2, AllRowsAre
  <2> QED  BY <1>9, <2>1 DEF RowAt, RowsOf
<1>13. Numbered'
  <2>1. PICK A : A = AllRows(store)
    OBVIOUS
  <2>2. /\ \A q \in A : RowAt(store', q).id \in 1..Cardinality(A)
        /\ \A q, r \in A : RowAt(store', q).id = RowAt(store', r).id => q = r
    BY <1>2, <1>12, <2>1 DEF Numbered
  <2>3. (\A q \in AllRows(store) : RowAt(store, q).id \in 1..Cardinality(AllRows(store)))'
    BY <1>11, <2>1, <2>2
  <2>4. (\A q, r \in AllRows(store) : RowAt(store, q).id = RowAt(store, r).id => q = r)'
    BY <1>11, <2>1, <2>2
  <2> QED  BY <2>3, <2>4 DEF Numbered
<1> QED  BY <1>2, <1>10, <1>13 DEF FileInv

LEMMA FileStep == FileInv /\ [ArtifactsNext]_artifactVars => FileInv'
<1> SUFFICES ASSUME FileInv, [ArtifactsNext]_artifactVars PROVE FileInv'
  OBVIOUS
<1>1. CASE AddRow
  BY <1>1, AddRowSound
<1>2. CASE SpoilRow \/ GarbleRow \/ StretchRow
  BY <1>2, DamageSound
<1>3. CASE UNCHANGED artifactVars
  <2>1. reader' = reader /\ store' = store
    BY <1>3 DEF artifactVars
  <2>2. (AllRows(store))' = AllRows(store)
    BY <2>1 DEF AllRows, ListsOf
  <2>3. ListsOf' = ListsOf /\ (IsRecovery' <=> IsRecovery)
    BY <2>1 DEF ListsOf, IsRecovery
  <2>4. FileShaped => FileShaped'
    BY <2>1, <2>3 DEF FileShaped, RowsOf, RowSound
  <2>5. Numbered => Numbered'
    BY <2>1, <2>2 DEF Numbered, RowAt
  <2> QED  BY <2>1, <2>3, <2>4, <2>5 DEF FileInv
<1> QED  BY <1>1, <1>2, <1>3 DEF ArtifactsNext

-----------------------------------------------------------------------------
(* Deleted bookmarks: the current ones and the backups, over any number of rows. *)

BookmarkLists == {"moz_bookmarks", "backup_1", "backup_2"}

\* The sort of the parsers is the one that is proved about.
LEMMA SameSort == \A s, keys : Firefox!SortedByKey(s, keys) = SortedByKey(s, keys)
BY DEF SortedByKey, Firefox!SortedByKey, GoesBefore, Firefox!GoesBefore, Cardinality,
    Firefox!Cardinality, IsFiniteSet, Firefox!IsFiniteSet

LEMMA RecoveryReads ==
    ASSUME reader \in KnownReaders, IsRecovery
    PROVE  ListsOf = BookmarkLists /\ RunArtifact(store) = Firefox!RecoverDeletedBookmarks(store)
<1>1. reader.artifact = "deleted_bookmarks"
  BY DEF IsRecovery
<1>2. "deleted_bookmarks" \notin DOMAIN ChromiumLists
  BY DEF ChromiumLists
<1>3. "deleted_bookmarks" \notin DOMAIN SafariLists
  BY DEF SafariLists
<1>4. reader.family = "Firefox"
  BY <1>1, <1>2, <1>3 DEF KnownReaders
<1>5. ListsOf = FirefoxLists[reader.artifact]
  BY <1>4 DEF ListsOf
<1>6. FirefoxLists["deleted_bookmarks"] = BookmarkLists
  BY DEF FirefoxLists, BookmarkLists
<1>7. ParseFirefox("deleted_bookmarks", store) = Firefox!RecoverDeletedBookmarks(store)
  BY DEF ParseFirefox
<1>8. RunArtifact(store) = ParseFirefox("deleted_bookmarks", store)
  BY <1>1, <1>4 DEF RunArtifact, ParseArtifact, Unsorted
<1> QED  BY <1>1, <1>5, <1>6, <1>7, <1>8

\* The bookmarks and the backups.
Shaped ==
    \A l \in BookmarkLists :
        /\ store.lists[l].date \in {0, 1} /\ IsList(RowsOf(l))
        /\ \A k \in DOMAIN RowsOf(l) : RowsOf(l)[k].key \in {1, 2} /\ RowsOf(l)[k].at \in Int

LEMMA BookmarksShaped ==
    ASSUME FileInv, IsRecovery
    PROVE  reader \in KnownReaders /\ ListsOf = BookmarkLists /\ Shaped /\ Numbered
<1>1. reader \in KnownReaders /\ FileShaped /\ Numbered
  BY DEF FileInv
<1>2. ListsOf = BookmarkLists
  BY <1>1, RecoveryReads
<1> QED  BY <1>1, <1>2 DEF Shaped, FileShaped, RowSound, TableRow

LEMMA HeldIs ==
    ASSUME Shaped, NEW b \in Firefox!Backups, NEW u
    PROVE  \A k \in Firefox!BackedUp(store, b, u) :
              /\ k \in DOMAIN RowsOf(b) /\ Firefox!RowsIn(store, b)[k] = RowsOf(b)[k]
              /\ RowsOf(b)[k].key = u
<1>1. \/ Firefox!RowsIn(store, b) = RowsOf(b)
      \/ Firefox!RowsIn(store, b) = <<>>
  BY DEF Firefox!RowsIn, RowsOf
<1>2. DOMAIN <<>> = {}
  OBVIOUS
<1> QED  BY <1>1, <1>2 DEF Firefox!BackedUp

\* Of the backups that hold a bookmark one is the newest.
LEMMA NewestHolds ==
    ASSUME Shaped, NEW u, Firefox!Holding(store, u) # {}
    PROVE  Firefox!RecoveredFrom(store, u) \in Firefox!Holding(store, u)
<1>1. PICK H : H = Firefox!Holding(store, u)
  OBVIOUS
<1>2. H \in SUBSET {"backup_1", "backup_2"} /\ H # {}
  BY <1>1 DEF Firefox!Holding, Firefox!Backups
<1>3. \A b \in {"backup_1", "backup_2"} : store.lists[b].date \in {0, 1}
  BY DEF Shaped, BookmarkLists
<1>4. \/ Firefox!Later(store, "backup_1", "backup_2")
      \/ Firefox!Later(store, "backup_2", "backup_1")
  <2>1. PICK one, two : one = store.lists["backup_1"].date /\ two = store.lists["backup_2"].date
    OBVIOUS
  <2>2. one > two \/ two > one \/ one = two
    <3>1. one \in {0, 1}
      BY <1>3, <2>1
    <3>2. two \in {0, 1}
      BY <1>3, <2>1
    <3> QED  BY <3>1, <3>2
  <2>3. one > two => Firefox!Later(store, "backup_1", "backup_2")
    BY <2>1 DEF Firefox!Later
  <2>4. two > one \/ one = two => Firefox!Later(store, "backup_2", "backup_1")
    BY <2>1 DEF Firefox!Later
  <2> QED  BY <2>2, <2>3, <2>4
<1>5. \E b \in H : \A c \in H \ {b} : Firefox!Later(store, b, c)
  <2>1. CASE "backup_1" \notin H
    BY <1>2, <2>1
  <2>2. CASE "backup_2" \notin H
    BY <1>2, <2>2
  <2>3. CASE "backup_1" \in H /\ "backup_2" \in H
    BY <1>2, <1>4, <2>3
  <2> QED  BY <2>1, <2>2, <2>3
<1> QED  BY <1>1, <1>5 DEF Firefox!RecoveredFrom

LEMMA RecoveredRow ==
    ASSUME Shaped, NEW u, Firefox!Holding(store, u) # {}
    PROVE  \E b \in BookmarkLists : \E k \in DOMAIN RowsOf(b) :
              Firefox!RecoveredBookmark(store, u) = RowsOf(b)[k] /\ RowsOf(b)[k].key = u
<1>1. PICK b : b = Firefox!RecoveredFrom(store, u)
  OBVIOUS
<1>2. b \in Firefox!Backups /\ Firefox!BackedUp(store, b, u) # {}
  BY <1>1, NewestHolds DEF Firefox!Holding
<1>3. b \in BookmarkLists
  BY <1>2 DEF Firefox!Backups, BookmarkLists
<1>4. PICK places : places = Firefox!BackedUp(store, b, u)
  OBVIOUS
<1>5. IsList(RowsOf(b))
  BY <1>3 DEF Shaped
<1>6. PICK n \in Nat : DOMAIN RowsOf(b) = 1..n
  BY <1>5, ListIs
<1>7. places \in SUBSET (1..n) /\ places # {}
  BY <1>2, <1>4, <1>6, HeldIs
<1>8. \E k \in places : \A m \in places : m <= k
  <2>1. places \in SUBSET Nat /\ \A m \in places : m <= n
    BY <1>7
  <2> QED  BY <1>7, <2>1, GreatestNat
<1>9. PICK k : k = CHOOSE j \in places : \A m \in places : m <= j
  OBVIOUS
<1>10. k \in places
  BY <1>8, <1>9
<1>11. Firefox!RecoveredBookmark(store, u) = Firefox!RowsIn(store, b)[k]
  BY <1>1, <1>4, <1>9 DEF Firefox!RecoveredBookmark
<1>12. k \in DOMAIN RowsOf(b) /\ Firefox!RowsIn(store, b)[k] = RowsOf(b)[k] /\ RowsOf(b)[k].key = u
  BY <1>2, <1>4, <1>10, HeldIs
<1> QED  BY <1>3, <1>11, <1>12

\* Events are those of the rows, one of each row, in another order.
Shuffled(events, rows) ==
    /\ DOMAIN events = DOMAIN rows
    /\ \E place \in [DOMAIN rows -> DOMAIN rows] :
          /\ \A a, b \in DOMAIN rows : place[a] = place[b] => a = b
          /\ \A i \in DOMAIN rows : \E a \in DOMAIN rows : place[a] = i
          /\ \A a \in DOMAIN rows : events[a].row = rows[place[a]].id
\* A bookmark is in a list in one place.
OnceIn(rows, url) ==
    \E n \in DOMAIN rows : rows[n].key = url /\ \A m \in DOMAIN rows : rows[m].key = url => m = n
Lost(url) == Firefox!Holding(store, url) # {} /\ url \notin Firefox!CurrentBookmarkUrls(store)
DeletedRows == Firefox!Deleted(store, 0) \o Firefox!Deleted(store, 1) \o Firefox!Deleted(store, 2)

\* The events of a list that is sorted are those of its rows, each once.
LEMMA SortedOnce ==
    ASSUME NEW R, NEW D \in Seq(R), \A r \in R : r.at \in Int
    PROVE  Shuffled(Firefox!Events(Firefox!OrderedByTime(D), "unix"), D)
<1>1. PICK keys : keys = [k \in DOMAIN D |-> D[k].at]
  OBVIOUS
<1>2. keys \in [DOMAIN D -> Int]
  <2>1. \A k \in DOMAIN D : D[k] \in R
    OBVIOUS
  <2> QED  BY <1>1, <2>1
<1>3. PICK sorted : sorted = Firefox!OrderedByTime(D)
  OBVIOUS
<1>4. sorted = SortedByKey(D, keys)
  <2>1. sorted = Firefox!SortedByKey(D, keys)
    BY <1>1, <1>3 DEF Firefox!OrderedByTime
  <2> QED  BY <2>1, SameSort
<1>5. PICK place \in [DOMAIN D -> DOMAIN D] :
          /\ \A a, b \in DOMAIN D : place[a] = place[b] => a = b
          /\ \A i \in DOMAIN D : \E a \in DOMAIN D : place[a] = i
          /\ \A a, b \in DOMAIN D : a < b => GoesBefore(keys, place[a], place[b])
          /\ SortedByKey(D, keys) \in [DOMAIN D -> {D[i] : i \in DOMAIN D}]
          /\ \A a \in DOMAIN D : SortedByKey(D, keys)[a] = D[place[a]]
  BY <1>2, SortedIsPermutation
<1>6. DOMAIN sorted = DOMAIN D /\ \A a \in DOMAIN D : sorted[a] = D[place[a]]
  BY <1>4, <1>5
<1>7. PICK events : events = Firefox!Events(sorted, "unix")
  OBVIOUS
<1>8. DOMAIN events = DOMAIN D /\ \A a \in DOMAIN D : events[a].row = D[place[a]].id
  BY <1>6, <1>7 DEF Firefox!Events
<1>9. Shuffled(events, D)
  BY <1>5, <1>8 DEF Shuffled
<1> QED  BY <1>3, <1>7, <1>9

\* Each deleted bookmark is in the list of them once.
LEMMA DeletedOnce ==
    ASSUME Shaped,
           NEW R, \A b \in BookmarkLists : \A k \in DOMAIN RowsOf(b) : RowsOf(b)[k] \in R
    PROVE  DeletedRows \in Seq(R) /\ \A u \in {1, 2} : Lost(u) => OnceIn(DeletedRows, u)
<1>1. \A b \in BookmarkLists : \A k \in DOMAIN RowsOf(b) : RowsOf(b)[k] \in R
  OBVIOUS
<1>2. PICK d0, d1, d2 : /\ d0 = Firefox!Deleted(store, 0) /\ d1 = Firefox!Deleted(store, 1)
                        /\ d2 = Firefox!Deleted(store, 2)
  OBVIOUS
<1>3. d0 = <<>>
  <2>1. Firefox!Holding(store, 0) = {}
    <3> SUFFICES ASSUME Firefox!Holding(store, 0) # {} PROVE FALSE
      OBVIOUS
    <3>1. PICK b \in BookmarkLists : \E k \in DOMAIN RowsOf(b) : RowsOf(b)[k].key = 0
      BY RecoveredRow
    <3>2. \A k \in DOMAIN RowsOf(b) : RowsOf(b)[k].key \in {1, 2}
      BY DEF Shaped
    <3> QED  BY <3>1, <3>2
  <2> QED  BY <1>2, <2>1 DEF Firefox!Deleted
<1>4. PICK r1, r2 : /\ r1 = Firefox!RecoveredBookmark(store, 1)
                    /\ r2 = Firefox!RecoveredBookmark(store, 2)
  OBVIOUS
<1>5. PICK gone1, gone2 \in BOOLEAN : (gone1 <=> Lost(1)) /\ (gone2 <=> Lost(2))
  OBVIOUS
<1>6. (gone1 => d1 = <<r1>> /\ r1 \in R /\ r1.key = 1) /\ (~gone1 => d1 = <<>>)
  BY <1>1, <1>2, <1>4, <1>5, RecoveredRow DEF Firefox!Deleted, Lost
<1>7. (gone2 => d2 = <<r2>> /\ r2 \in R /\ r2.key = 2) /\ (~gone2 => d2 = <<>>)
  BY <1>1, <1>2, <1>4, <1>5, RecoveredRow DEF Firefox!Deleted, Lost
<1>8. PICK D : D = d1 \o d2
  OBVIOUS
<1>9. d1 \in Seq(R) /\ d2 \in Seq(R)
  <2>1. <<>> \in Seq(R) /\ (r1 \in R => <<r1>> \in Seq(R)) /\ (r2 \in R => <<r2>> \in Seq(R))
    OBVIOUS
  <2> QED  BY <1>6, <1>7, <2>1
<1>10. DeletedRows = D
  <2>1. <<>> \o d1 = d1
    BY <1>9, ConcatEmptySeq
  <2> QED  BY <1>2, <1>3, <1>8, <2>1 DEF DeletedRows
<1>11. PICK n1, n2 \in Nat : n1 = Len(d1) /\ n2 = Len(d2)
  BY <1>9
<1>12. /\ D \in Seq(R) /\ Len(D) = n1 + n2
       /\ \A i \in 1..(n1 + n2) : D[i] = IF i <= n1 THEN d1[i] ELSE d2[i - n1]
  <2>1. /\ d1 \o d2 \in Seq(R) /\ Len(d1 \o d2) = Len(d1) + Len(d2)
        /\ \A i \in 1..(Len(d1) + Len(d2)) :
              (d1 \o d2)[i] = IF i <= Len(d1) THEN d1[i] ELSE d2[i - Len(d1)]
    BY ONLY <1>9, ConcatProperties
  <2> QED  BY <1>8, <1>11, <2>1
<1>13. DOMAIN D = 1..(n1 + n2)
  BY <1>12
<1>14. (gone1 => n1 = 1 /\ d1[1] = r1) /\ (~gone1 => n1 = 0)
  BY <1>6, <1>11
<1>15. (gone2 => n2 = 1 /\ d2[1] = r2) /\ (~gone2 => n2 = 0)
  BY <1>7, <1>11
<1>16. (gone1 => OnceIn(D, 1)) /\ (gone2 => OnceIn(D, 2))
  <2>1. CASE gone1 /\ gone2
    <3>1. \A i : i \in DOMAIN D <=> i = 1 \/ i = 2
      BY <1>13, <1>14, <1>15, <2>1
    <3>2. D[1] = r1 /\ D[2] = r2
      BY <1>12, <1>14, <1>15, <2>1
    <3> QED  BY <1>6, <1>7, <2>1, <3>1, <3>2 DEF OnceIn
  <2>2. CASE gone1 /\ ~gone2
    <3>1. \A i : i \in DOMAIN D <=> i = 1
      BY <1>13, <1>14, <1>15, <2>2
    <3>2. D[1] = r1
      BY <1>12, <1>14, <1>15, <2>2
    <3> QED  BY <1>6, <2>2, <3>1, <3>2 DEF OnceIn
  <2>3. CASE ~gone1 /\ gone2
    <3>1. \A i : i \in DOMAIN D <=> i = 1
      BY <1>13, <1>14, <1>15, <2>3
    <3>2. D[1] = r2
      BY <1>12, <1>14, <1>15, <2>3
    <3> QED  BY <1>7, <2>3, <3>1, <3>2 DEF OnceIn
  <2> QED  BY <2>1, <2>2, <2>3
<1>17. \A u \in {1, 2} : Lost(u) => OnceIn(D, u)
  BY <1>5, <1>16
<1> QED  BY <1>10, <1>12, <1>17

\* One backup that holds the bookmark is the newest, and the sorted list has its row once.
LEMMA BookmarksAreKept == FileInv => BackedUpBookmarksAreKept
<1> SUFFICES ASSUME FileInv, IsRecovery, RunArtifact(store).ok, NEW url \in {1, 2}, Lost(url)
             PROVE  Cardinality({k \in DOMAIN RunArtifact(store).events :
                        \E p \in AllRows(store) :
                            RowAt(store, p).key = url /\ RowAt(store, p).id = RunArtifact(store).events[k].row}) = 1
  BY DEF BackedUpBookmarksAreKept, Lost
<1>1. /\ reader \in KnownReaders /\ FileShaped /\ ListsOf = BookmarkLists
      /\ Shaped /\ Numbered
  BY BookmarksShaped DEF FileInv
<1>2. PICK D, R : D = DeletedRows /\ R = {RowAt(store, p) : p \in AllRows(store)}
  OBVIOUS
<1>3. D \in Seq(R) /\ OnceIn(D, url)
  <2>1. \A b \in BookmarkLists : \A k \in DOMAIN RowsOf(b) : RowsOf(b)[k] \in R
    <3> SUFFICES ASSUME NEW b \in BookmarkLists, NEW k \in DOMAIN RowsOf(b)
                 PROVE  RowsOf(b)[k] \in R
      OBVIOUS
    <3>1. <<b, k>> \in AllRows(store)
      BY <1>1, AllRowsAre
    <3>2. RowsOf(b)[k] = RowAt(store, <<b, k>>)
      BY DEF RowAt, RowsOf
    <3> QED  BY <1>2, <3>1, <3>2
  <2>2. D \in Seq(R) /\ \A u \in {1, 2} : Lost(u) => OnceIn(D, u)
    BY <1>1, <1>2, <2>1, DeletedOnce
  <2> QED  BY <2>2
<1>4. PICK n \in DOMAIN D : D[n].key = url /\ \A m \in DOMAIN D : D[m].key = url => m = n
  BY <1>3 DEF OnceIn
<1>5. \A r \in R : r.at \in Int /\ \E p \in AllRows(store) : r = RowAt(store, p)
  <2> SUFFICES ASSUME NEW p \in AllRows(store) PROVE RowAt(store, p).at \in Int
    BY <1>2
  <2>1. PICK b \in BookmarkLists : \E k \in DOMAIN RowsOf(b) : p = <<b, k>>
    BY <1>1, AllRowsAre
  <2>2. PICK k \in DOMAIN RowsOf(b) : p = <<b, k>>
    BY <2>1
  <2>3. RowAt(store, p) = RowsOf(b)[k]
    BY <2>2 DEF RowAt, RowsOf
  <2>4. RowsOf(b)[k].at \in Int
    BY <1>1, <2>2 DEF Shaped
  <2> QED  BY <2>3, <2>4
<1>6. PICK events : events = Firefox!Events(Firefox!OrderedByTime(D), "unix")
  OBVIOUS
<1>7. RunArtifact(store).events = events
  <2>1. RunArtifact(store) = Firefox!RecoverDeletedBookmarks(store)
    BY <1>1, RecoveryReads
  <2>2. Firefox!Failed.ok = FALSE
    BY DEF Firefox!Failed
  <2>3. RunArtifact(store) = Firefox!Parsed(events)
    BY <1>2, <1>6, <2>1, <2>2 DEF Firefox!RecoverDeletedBookmarks, DeletedRows
  <2> QED  BY <2>3 DEF Firefox!Parsed
<1>8. Shuffled(events, D)
  <2>1. \A r \in R : r.at \in Int
    BY <1>5
  <2> QED  BY <1>3, <1>6, <2>1, SortedOnce
<1>9. DOMAIN events = DOMAIN D
  BY <1>8 DEF Shuffled
<1>10. PICK place \in [DOMAIN D -> DOMAIN D] :
          /\ \A a, b \in DOMAIN D : place[a] = place[b] => a = b
          /\ \A i \in DOMAIN D : \E a \in DOMAIN D : place[a] = i
          /\ \A a \in DOMAIN D : events[a].row = D[place[a]].id
  BY <1>8 DEF Shuffled
<1>11. PICK a \in DOMAIN D : place[a] = n
  BY <1>4, <1>10
<1>12. PICK K : K = {k \in DOMAIN events :
                        \E p \in AllRows(store) :
                            RowAt(store, p).key = url /\ RowAt(store, p).id = events[k].row}
  OBVIOUS
<1>13. \A i \in DOMAIN D : \E p \in AllRows(store) : D[i] = RowAt(store, p)
  <2>1. \A i \in DOMAIN D : D[i] \in R
    BY <1>3
  <2> QED  BY <1>5, <2>1
<1>14. a \in K
  <2>1. PICK p \in AllRows(store) : D[n] = RowAt(store, p)
    BY <1>4, <1>13
  <2>2. RowAt(store, p).key = url /\ RowAt(store, p).id = events[a].row
    BY <1>4, <1>10, <1>11, <2>1
  <2> QED  BY <1>9, <1>11, <1>12, <2>2
<1>15. ASSUME NEW k \in K PROVE k = a
  <2>1. k \in DOMAIN D /\ place[k] \in DOMAIN D /\ events[k].row = D[place[k]].id
    BY <1>9, <1>10, <1>12
  <2>2. PICK p \in AllRows(store) : RowAt(store, p).key = url /\ RowAt(store, p).id = events[k].row
    BY <1>12
  <2>3. PICK q \in AllRows(store) : D[place[k]] = RowAt(store, q)
    BY <1>13, <2>1
  <2>4. p = q
    BY <1>1, <2>1, <2>2, <2>3 DEF Numbered
  <2>5. place[k] = n
    BY <1>4, <2>1, <2>2, <2>3, <2>4
  <2> QED  BY <1>10, <1>11, <2>1, <2>5
<1>16. K = {a}
  BY <1>14, <1>15
<1>17. Cardinality(K) = 1
  BY <1>16, FS_Singleton
<1> QED  BY <1>7, <1>12, <1>17

\* Whatever the backups are like, however their rows came and were damaged, a bookmark
\* that a readable one holds is among the bookmarks, or is reported as deleted, once.
THEOREM BookmarksCorrect == ArtifactsSpec => []BackedUpBookmarksAreKept
<1>1. ArtifactsInit => FileInv
  BY FileInit
<1>2. FileInv /\ [ArtifactsNext]_artifactVars => FileInv'
  BY FileStep
<1>3. FileInv => BackedUpBookmarksAreKept
  BY BookmarksAreKept
<1> QED  BY <1>1, <1>2, <1>3, PTL DEF ArtifactsSpec

-----------------------------------------------------------------------------
(* Rows stand alone: files that agree but for some rows are reported alike but for *)
(* the events of these rows, by each parser.                                       *)

\* What is reported of rows, and those rows and events whose numbers are not of D.
EventShown == [row : Nat, at : Int]
RowsBut(D) == {r \in TableRow : r.id \notin D}
EventsBut(D) == {e \in EventShown : e.row \notin D}

RowsAgree(s, t, D) == s \in Seq(TableRow) /\ t \in Seq(TableRow) /\ Agree(s, t, RowsBut(D))
EventsAgree(s, t, D) == s \in Seq(EventShown) /\ t \in Seq(EventShown) /\ Agree(s, t, EventsBut(D))
ParseOutcome == [ok : BOOLEAN, events : Seq(EventShown)]
OutcomesAgree(x, y, D) ==
    x \in ParseOutcome /\ y \in ParseOutcome /\ x.ok = y.ok /\ EventsAgree(x.events, y.events, D)

\* Files for the reader that have the same tables, in them the same rows but those of D,
\* the same leaves of trees, and containers that name the same but tables of D; and that
\* are text or not alike, where this matters, and have no time that ends the parser.
AllOf(s, D) == \A k \in DOMAIN s : s[k].id \in D
ContainersAgree(f, g, D) ==
    LET s == f.lists["Containers"].rows
        t == g.lists["Containers"].rows
    IN  /\ DOMAIN s \subseteq DOMAIN t
        /\ \A k \in DOMAIN t :
              \/ k \in DOMAIN s /\ s[k] = t[k]
              \/ /\ AllOf(g.lists[Safari!TableOf(t[k])].rows, D)
                 /\ k \in DOMAIN s => AllOf(f.lists[Safari!TableOf(s[k])].rows, D)
FilesAgree(f, g, D) ==
    /\ f.opens \in BOOLEAN /\ g.opens = f.opens
    /\ ReadAsText => f.utf8 \in BOOLEAN /\ g.utf8 = f.utf8
    /\ ~MayOverflow(f) /\ ~MayOverflow(g)
    /\ \A l \in ListsOf :
          /\ g.lists[l].state = f.lists[l].state
          /\ RowsAgree(f.lists[l].rows, g.lists[l].rows, D)
    /\ \A l \in ListsOf \cap Trees :
          RowsAgree(Stored!Leaves(f.lists[l].rows), Stored!Leaves(g.lists[l].rows), D)
    /\ "Containers" \in ListsOf => ContainersAgree(f, g, D)

ClockNames == {"webkit", "core_data", "unix", "unix_unchecked", "webkit_if_any", "none"}

LEMMA TimesAreNumbers ==
    ASSUME NEW c \in ClockNames, NEW n \in Int
    PROVE  Stored!Timestamp(c, n) \in Int
<1>1. WEBKIT_EPOCH_OFFSET \in Int /\ CORE_DATA_EPOCH_OFFSET \in Int
  BY OffsetsAssumption
<1>2. Stored!LastTime \in Int
  BY <1>1 DEF Stored!LastTime, Stored!Huge
<1>3. \A m \in Int : Stored!Saturated(n, m) \in Int
  BY <1>2 DEF Stored!Saturated
<1>4. Stored!Wrapped(n) \in Int
  BY DEF Stored!Wrapped
<1>5. CASE c = "webkit"
  BY <1>1, <1>3, <1>5 DEF Stored!Timestamp
<1>6. CASE c = "core_data"
  BY <1>1, <1>3, <1>6 DEF Stored!Timestamp
<1>7. CASE c = "unix"
  BY <1>3, <1>7 DEF Stored!Timestamp
<1>8. CASE c = "unix_unchecked"
  BY <1>4, <1>8 DEF Stored!Timestamp
<1>9. CASE c = "webkit_if_any"
  <2>1. (IF n > 0 THEN n - WEBKIT_EPOCH_OFFSET ELSE 0) \in Int
    BY <1>1
  <2> QED  BY <1>3, <1>9, <2>1 DEF Stored!Timestamp
<1>10. CASE c = "none"
  BY <1>10 DEF Stored!Timestamp
<1> QED  BY <1>5, <1>6, <1>7, <1>8, <1>9, <1>10 DEF ClockNames

LEMMA AgreeEmpty == \A E : Agree(<<>>, <<>>, E)
<1> SUFFICES ASSUME NEW E PROVE Agree(<<>>, <<>>, E)
  OBVIOUS
<1>1. PICK e : e = <<>>
  OBVIOUS
<1>2. Agree(e, e, E)
  BY AgreeInPlace
<1> QED  BY <1>1, <1>2

LEMMA NoRowsAgree == \A D : RowsAgree(<<>>, <<>>, D) /\ EventsAgree(<<>>, <<>>, D)
BY AgreeEmpty DEF RowsAgree, EventsAgree

LEMMA TablesAgree ==
    ASSUME NEW f, NEW g, NEW D, FilesAgree(f, g, D), NEW l \in ListsOf
    PROVE  /\ RowsAgree(Stored!RowsIn(f, l), Stored!RowsIn(g, l), D)
           /\ Stored!Here(f, l) \in BOOLEAN /\ Stored!Here(g, l) = Stored!Here(f, l)
<1>1. Stored!Here(f, l) \in BOOLEAN /\ Stored!Here(g, l) = Stored!Here(f, l)
  BY DEF FilesAgree, Stored!Here
<1>2. CASE Stored!Here(f, l)
  BY <1>1, <1>2 DEF FilesAgree, Stored!RowsIn
<1>3. CASE ~Stored!Here(f, l)
  BY <1>1, <1>3, NoRowsAgree DEF Stored!RowsIn
<1> QED  BY <1>1, <1>2, <1>3

\* Picking rows by a test keeps rows in agreement.
LEMMA PickedAgree ==
    ASSUME NEW s, NEW t, NEW D, RowsAgree(s, t, D),
           NEW K \in SUBSET (DOMAIN s), NEW L \in SUBSET (DOMAIN t),
           \A x \in DOMAIN s, y \in DOMAIN t : s[x] = t[y] => (x \in K <=> y \in L)
    PROVE  RowsAgree(Picked(s, K), Picked(t, L), D)
<1>1. s \in Seq(TableRow) /\ t \in Seq(TableRow) /\ Agree(s, t, RowsBut(D))
  BY DEF RowsAgree
<1>2. Picked(s, K) \in Seq(TableRow) /\ Picked(t, L) \in Seq(TableRow)
  BY <1>1, PickedIs
<1>3. \A x \in Where(s, RowsBut(D)), y \in Where(t, RowsBut(D)) : s[x] = t[y] => (x \in K <=> y \in L)
  BY DEF Where
<1>4. Agree(Picked(s, K), Picked(t, L), RowsBut(D))
  BY <1>1, <1>3, AgreePicked
<1> QED  BY <1>2, <1>4 DEF RowsAgree

LEMMA SortsAre ==
    /\ \A s, keys : Stored!SortedByKey(s, keys) = SortedByKey(s, keys)
    /\ \A s, places : Stored!Picked(s, places) = Picked(s, places)
BY DEF SortedByKey, Stored!SortedByKey, GoesBefore, Stored!GoesBefore, Cardinality,
    Stored!Cardinality, IsFiniteSet, Stored!IsFiniteSet, Picked, Stored!Picked

LEMMA OrderedAgree ==
    ASSUME NEW s, NEW t, NEW D, RowsAgree(s, t, D)
    PROVE  RowsAgree(Stored!OrderedByTime(s), Stored!OrderedByTime(t), D)
<1>1. s \in Seq(TableRow) /\ t \in Seq(TableRow) /\ Agree(s, t, RowsBut(D))
  BY DEF RowsAgree
<1>2. PICK ks, kt : ks = [k \in DOMAIN s |-> s[k].at] /\ kt = [k \in DOMAIN t |-> t[k].at]
  OBVIOUS
<1>3. ks \in [DOMAIN s -> Int] /\ kt \in [DOMAIN t -> Int]
  <2>1. (\A k \in DOMAIN s : s[k] \in TableRow) /\ (\A k \in DOMAIN t : t[k] \in TableRow)
    BY <1>1
  <2> QED  BY <1>2, <2>1 DEF TableRow
<1>4. \A x \in DOMAIN s, y \in DOMAIN t : s[x] = t[y] => ks[x] = kt[y]
  BY <1>2
<1>5. SortedByKey(s, ks) \in Seq(TableRow) /\ SortedByKey(t, kt) \in Seq(TableRow)
  BY <1>1, <1>3, SortedElements
<1>6. Agree(SortedByKey(s, ks), SortedByKey(t, kt), RowsBut(D))
  BY <1>1, <1>3, <1>4, AgreeSorted
<1>7. Stored!OrderedByTime(s) = SortedByKey(s, ks) /\ Stored!OrderedByTime(t) = SortedByKey(t, kt)
  BY <1>2, SortsAre DEF Stored!OrderedByTime
<1> QED  BY <1>5, <1>6, <1>7 DEF RowsAgree

LEMMA EventsAre ==
    ASSUME NEW s \in Seq(TableRow), NEW c \in ClockNames
    PROVE  /\ Stored!Events(s, c) \in Seq(EventShown) /\ DOMAIN Stored!Events(s, c) = DOMAIN s
           /\ \A k \in DOMAIN s :
                 Stored!Events(s, c)[k] =
                     [row |-> s[k].id, at |-> Stored!Timestamp(c, Stored!Recorded(s[k]))]
<1>1. PICK e : e = Stored!Events(s, c)
  OBVIOUS
<1>2. DOMAIN e = DOMAIN s /\ \A k \in DOMAIN s :
          e[k] = [row |-> s[k].id, at |-> Stored!Timestamp(c, Stored!Recorded(s[k]))]
  BY <1>1 DEF Stored!Events
<1>3. ASSUME NEW k \in DOMAIN s PROVE e[k] \in EventShown
  <2>1. s[k] \in TableRow
    OBVIOUS
  <2>2. s[k].id \in Nat /\ Stored!Recorded(s[k]) \in Int
    BY <2>1 DEF TableRow, Stored!Recorded
  <2>3. Stored!Timestamp(c, Stored!Recorded(s[k])) \in Int
    BY <2>2, TimesAreNumbers
  <2> QED  BY <1>2, <2>2, <2>3 DEF EventShown
<1>4. PICK n \in Nat : DOMAIN s = 1..n
  OBVIOUS
<1>5. e = [k \in DOMAIN s |-> [row |-> s[k].id, at |-> Stored!Timestamp(c, Stored!Recorded(s[k]))]]
  BY <1>1 DEF Stored!Events
<1>6. e \in [1..n -> EventShown]
  BY <1>2, <1>3, <1>4, <1>5
<1>7. e \in Seq(EventShown)
  BY <1>6
<1> QED  BY <1>1, <1>2, <1>7

LEMMA ReportsAgree ==
    ASSUME NEW s, NEW t, NEW D, RowsAgree(s, t, D), NEW c \in ClockNames
    PROVE  EventsAgree(Stored!Events(s, c), Stored!Events(t, c), D)
<1>1. s \in Seq(TableRow) /\ t \in Seq(TableRow) /\ Agree(s, t, RowsBut(D))
  BY DEF RowsAgree
<1>2. PICK u, v : u = Stored!Events(s, c) /\ v = Stored!Events(t, c)
  OBVIOUS
<1>3. /\ u \in Seq(EventShown) /\ DOMAIN u = DOMAIN s
      /\ \A k \in DOMAIN s : u[k] = [row |-> s[k].id, at |-> Stored!Timestamp(c, Stored!Recorded(s[k]))]
  BY <1>1, <1>2, EventsAre
<1>4. /\ v \in Seq(EventShown) /\ DOMAIN v = DOMAIN t
      /\ \A k \in DOMAIN t : v[k] = [row |-> t[k].id, at |-> Stored!Timestamp(c, Stored!Recorded(t[k]))]
  BY <1>1, <1>2, EventsAre
<1>5. \A n \in DOMAIN s : u[n] \in EventsBut(D) <=> s[n] \in RowsBut(D)
  <2> SUFFICES ASSUME NEW n \in DOMAIN s PROVE u[n] \in EventsBut(D) <=> s[n] \in RowsBut(D)
    OBVIOUS
  <2>1. s[n] \in TableRow /\ u[n] \in EventShown
    BY <1>1, <1>3
  <2>2. u[n].row = s[n].id
    BY <1>3
  <2> QED  BY <2>1, <2>2 DEF EventsBut, RowsBut
<1>6. \A n \in DOMAIN t : v[n] \in EventsBut(D) <=> t[n] \in RowsBut(D)
  <2> SUFFICES ASSUME NEW n \in DOMAIN t PROVE v[n] \in EventsBut(D) <=> t[n] \in RowsBut(D)
    OBVIOUS
  <2>1. t[n] \in TableRow /\ v[n] \in EventShown
    BY <1>1, <1>4
  <2>2. v[n].row = t[n].id
    BY <1>4
  <2> QED  BY <2>1, <2>2 DEF EventsBut, RowsBut
<1>7. \A x \in Where(s, RowsBut(D)), y \in Where(t, RowsBut(D)) : s[x] = t[y] => u[x] = v[y]
  BY <1>3, <1>4 DEF Where
<1>8. Agree(u, v, EventsBut(D))
  BY <1>1, <1>3, <1>4, <1>5, <1>6, <1>7, AgreeMapped
<1> QED  BY <1>2, <1>3, <1>4, <1>8 DEF EventsAgree

LEMMA ParsedAgree ==
    ASSUME NEW u, NEW v, NEW D, EventsAgree(u, v, D)
    PROVE  OutcomesAgree(Stored!Parsed(u), Stored!Parsed(v), D)
BY DEF EventsAgree, OutcomesAgree, ParseOutcome, Stored!Parsed

LEMMA FailedAgree == \A D : OutcomesAgree(Stored!Failed, Stored!Failed, D)
<1>1. <<>> \in Seq(EventShown)
  OBVIOUS
<1> QED  BY <1>1, NoRowsAgree DEF OutcomesAgree, ParseOutcome, Stored!Failed

LEMMA PreparedAgree ==
    ASSUME NEW f, NEW g, NEW D, FilesAgree(f, g, D), NEW ls \in SUBSET ListsOf
    PROVE  /\ Stored!Prepared(f, ls) \in BOOLEAN /\ Stored!Prepared(g, ls) = Stored!Prepared(f, ls)
           /\ f.opens \in BOOLEAN /\ g.opens = f.opens
<1>1. \A l \in ls : Stored!Here(f, l) \in BOOLEAN /\ Stored!Here(g, l) = Stored!Here(f, l)
  BY TablesAgree
<1>2. Stored!Prepared(f, ls) \in BOOLEAN /\ Stored!Prepared(g, ls) = Stored!Prepared(f, ls)
  BY <1>1 DEF Stored!Prepared
<1> QED  BY <1>2 DEF FilesAgree

LEMMA DecodedAgree ==
    ASSUME NEW s, NEW t, NEW D, RowsAgree(s, t, D)
    PROVE  RowsAgree(Stored!Decoded(s), Stored!Decoded(t), D)
<1>1. PICK K, L : K = {k \in DOMAIN s : s[k].sound} /\ L = {k \in DOMAIN t : t[k].sound}
  OBVIOUS
<1>2. RowsAgree(Picked(s, K), Picked(t, L), D)
  BY <1>1, PickedAgree
<1>3. Stored!Decoded(s) = Picked(s, K) /\ Stored!Decoded(t) = Picked(t, L)
  BY <1>1, SortsAre DEF Stored!Decoded, Stored!Those
<1> QED  BY <1>2, <1>3

\* What a query, a walk or two parsers find is in agreement if the rows are.
LEMMA QueriesAgree ==
    ASSUME NEW f, NEW g, NEW D, FilesAgree(f, g, D), NEW s, NEW t, RowsAgree(s, t, D),
           NEW c \in ClockNames, NEW ls \in SUBSET ListsOf
    PROVE  /\ OutcomesAgree(Stored!Query(f, ls, s, c), Stored!Query(g, ls, t, c), D)
           /\ OutcomesAgree(Stored!QueryIfAny(f, ls, s, c), Stored!QueryIfAny(g, ls, t, c), D)
<1>1. PICK u, v : u = Stored!Events(Stored!Decoded(s), c) /\ v = Stored!Events(Stored!Decoded(t), c)
  OBVIOUS
<1>2. OutcomesAgree(Stored!Parsed(u), Stored!Parsed(v), D)
  BY <1>1, DecodedAgree, ReportsAgree, ParsedAgree
<1>3. OutcomesAgree(Stored!Failed, Stored!Failed, D)
  BY FailedAgree
<1>4. OutcomesAgree(Stored!Parsed(<<>>), Stored!Parsed(<<>>), D)
  BY NoRowsAgree, ParsedAgree
<1>5. PICK there, opens \in BOOLEAN :
          /\ Stored!Prepared(f, ls) = there /\ Stored!Prepared(g, ls) = there
          /\ f.opens = opens /\ g.opens = opens
  BY PreparedAgree
<1>6. /\ Stored!Query(f, ls, s, c) = (IF opens /\ there THEN Stored!Parsed(u) ELSE Stored!Failed)
      /\ Stored!Query(g, ls, t, c) = (IF opens /\ there THEN Stored!Parsed(v) ELSE Stored!Failed)
  BY <1>1, <1>5 DEF Stored!Query
<1>7. OutcomesAgree(Stored!Query(f, ls, s, c), Stored!Query(g, ls, t, c), D)
  BY <1>2, <1>3, <1>6, Zenon
<1>8. /\ Stored!QueryIfAny(f, ls, s, c) =
             (IF opens /\ ~there THEN Stored!Parsed(<<>>) ELSE Stored!Query(f, ls, s, c))
      /\ Stored!QueryIfAny(g, ls, t, c) =
             (IF opens /\ ~there THEN Stored!Parsed(<<>>) ELSE Stored!Query(g, ls, t, c))
  BY <1>5 DEF Stored!QueryIfAny
<1> QED  BY <1>4, <1>7, <1>8, Zenon

LEMMA ByteWalksAgree ==
    ASSUME NEW f, NEW g, NEW D, FilesAgree(f, g, D), NEW s, NEW t, RowsAgree(s, t, D),
           NEW c \in ClockNames
    PROVE  OutcomesAgree(Stored!WalkBytes(f, s, c), Stored!WalkBytes(g, t, c), D)
<1>1. OutcomesAgree(Stored!Parsed(Stored!Events(s, c)), Stored!Parsed(Stored!Events(t, c)), D)
  BY ReportsAgree, ParsedAgree
<1>2. OutcomesAgree(Stored!Failed, Stored!Failed, D)
  BY FailedAgree
<1>3. PICK opens \in BOOLEAN : f.opens = opens /\ g.opens = opens
  BY DEF FilesAgree
<1>4. /\ Stored!WalkBytes(f, s, c) =
             (IF opens THEN Stored!Parsed(Stored!Events(s, c)) ELSE Stored!Failed)
      /\ Stored!WalkBytes(g, t, c) =
             (IF opens THEN Stored!Parsed(Stored!Events(t, c)) ELSE Stored!Failed)
  BY <1>3 DEF Stored!WalkBytes
<1> QED  BY <1>1, <1>2, <1>4, Zenon

LEMMA WalksAgree ==
    ASSUME NEW f, NEW g, NEW D, FilesAgree(f, g, D), NEW s, NEW t, RowsAgree(s, t, D),
           NEW c \in ClockNames, ReadAsText
    PROVE  OutcomesAgree(Stored!Walk(f, s, c), Stored!Walk(g, t, c), D)
<1>1. OutcomesAgree(Stored!WalkBytes(f, s, c), Stored!WalkBytes(g, t, c), D)
  BY ByteWalksAgree
<1>2. OutcomesAgree(Stored!Failed, Stored!Failed, D)
  BY FailedAgree
<1>3. PICK text \in BOOLEAN : f.utf8 = text /\ g.utf8 = text
  BY DEF FilesAgree
<1>4. /\ Stored!Walk(f, s, c) = (IF text THEN Stored!WalkBytes(f, s, c) ELSE Stored!Failed)
      /\ Stored!Walk(g, t, c) = (IF text THEN Stored!WalkBytes(g, t, c) ELSE Stored!Failed)
  BY <1>3 DEF Stored!Walk
<1> QED  BY <1>1, <1>2, <1>4, Zenon

\* Rows that come from a list of a file without such a time convert without a panic.
LEMMA NothingOverflows ==
    ASSUME NEW f, ~MayOverflow(f), reader.artifact \in {"transport_security", "site_security"},
           NEW l \in ListsOf, NEW r, r = Stored!RowsIn(f, l), r \in Seq(TableRow),
           NEW K \in SUBSET (DOMAIN r), NEW x
    PROVE  Stored!Unchecked(Picked(r, K), x) = x
<1>1. PICK t : t = Picked(r, K)
  OBVIOUS
<1>2. PICK p : IsPick(p, t, r, K)
  BY <1>1, PickedIs
<1>3. \A k \in DOMAIN t : \E n \in DOMAIN r : t[k] = r[n]
  BY <1>2 DEF IsPick
<1>4. CASE Stored!Here(f, l)
  <2>1. r = f.lists[l].rows
    BY <1>4 DEF Stored!RowsIn
  <2>2. ~(OverflowChecks /\ \E k \in DOMAIN t : t[k].at = Stored!Huge)
    BY <1>3, <2>1 DEF MayOverflow
  <2> QED  BY <1>1, <2>2 DEF Stored!Unchecked
<1>5. CASE ~Stored!Here(f, l)
  <2>1. r = <<>>
    BY <1>5 DEF Stored!RowsIn
  <2>2. DOMAIN t = {}
    BY <1>3, <2>1
  <2> QED  BY <1>1, <2>2 DEF Stored!Unchecked
<1> QED  BY <1>4, <1>5

LEMMA BothAgree ==
    ASSUME NEW x, NEW y, NEW D, OutcomesAgree(x, y, D), NEW a, NEW b, OutcomesAgree(a, b, D)
    PROVE  OutcomesAgree(Stored!Then(x, a), Stored!Then(y, b), D)
<1>1. /\ x.ok \in BOOLEAN /\ y.ok = x.ok /\ a.ok \in BOOLEAN /\ b.ok = a.ok
      /\ EventsAgree(x.events, y.events, D) /\ EventsAgree(a.events, b.events, D)
  BY DEF OutcomesAgree, ParseOutcome
<1>2. PICK u, v, m, n : u = x.events /\ v = y.events /\ m = a.events /\ n = b.events
  OBVIOUS
<1>3. u \in Seq(EventShown) /\ v \in Seq(EventShown) /\ m \in Seq(EventShown) /\ n \in Seq(EventShown)
  BY <1>1, <1>2 DEF EventsAgree
<1>4. u \o m \in Seq(EventShown) /\ v \o n \in Seq(EventShown)
  BY <1>3
<1>5. Agree(u \o m, v \o n, EventsBut(D))
  BY <1>1, <1>2, <1>3, AgreeJoined DEF EventsAgree
<1>6. EventsAgree(u \o m, v \o n, D)
  BY <1>4, <1>5 DEF EventsAgree
<1>7. OutcomesAgree(Stored!Parsed(u \o m), Stored!Parsed(v \o n), D)
  BY <1>6, ParsedAgree
<1>8. OutcomesAgree(Stored!Failed, Stored!Failed, D)
  BY FailedAgree
<1>9. /\ Stored!Then(x, a) = (IF x.ok /\ a.ok THEN Stored!Parsed(u \o m) ELSE Stored!Failed)
      /\ Stored!Then(y, b) = (IF x.ok /\ a.ok THEN Stored!Parsed(v \o n) ELSE Stored!Failed)
  BY <1>1, <1>2 DEF Stored!Then
<1> QED  BY <1>7, <1>8, <1>9, Zenon

\* What the parsers pick from a table.
DatedRows(s) == Picked(s, {k \in DOMAIN s : s[k].at > 0})
DatedTexts(s) == Picked(s, {k \in DOMAIN s : s[k].at > 0 /\ s[k].key # -1})
StampedRows(s) == Picked(s, {k \in DOMAIN s : s[k].at # -1})
UnstampedRows(s) == Picked(s, {k \in DOMAIN s : ~(s[k].at # -1)})
StampedTexts(s) == Picked(s, {k \in DOMAIN s : s[k].at # -1 /\ s[k].key # -1})
TextedRows(s) == Picked(s, {k \in DOMAIN s : s[k].key # -1})
NamedRows(s) == Picked(s, {k \in DOMAIN s : s[k].key > 0})
SoundTexts(s) == Picked(s, {k \in DOMAIN s : s[k].sound /\ s[k].key # -1})
SoundNames(s) == Picked(s, {k \in DOMAIN s : s[k].sound /\ s[k].key > 0})
JoinedRows(s) == Picked(s, {k \in DOMAIN s : s[k].link # 0})
JoinedTexts(s) == Picked(s, {k \in DOMAIN s : s[k].link # 0 /\ s[k].key # -1})
JoinedNames(s) == Picked(s, {k \in DOMAIN s : s[k].link # 0 /\ s[k].key > 0})
DatedJoinedTexts(s) == Picked(s, {k \in DOMAIN s : s[k].link # 0 /\ s[k].key # -1 /\ s[k].at > 0})
LoginRows(s) ==
    Picked(s, {k \in DOMAIN s :
        (s[k].at > 0 \/ (s[k].sort /\ s[k].at # -1)) /\ s[k].key # -1})
BookmarkRows(s) ==
    Picked(s, {k \in DOMAIN s : s[k].sort /\ s[k].at > 0 /\ s[k].link # 0 /\ s[k].key # -1})
DownloadRows(s) ==
    Picked(s, {k \in DOMAIN s : s[k].sort /\ s[k].at # -1 /\ s[k].link # 0 /\ s[k].key # -1})
NamedLines(s) == Picked(s, {k \in DOMAIN s : s[k].sort /\ s[k].key > 0})

LEMMA SelectionsAgree ==
    ASSUME NEW s, NEW t, NEW D, RowsAgree(s, t, D)
    PROVE  /\ RowsAgree(DatedRows(s), DatedRows(t), D)
           /\ RowsAgree(DatedTexts(s), DatedTexts(t), D)
           /\ RowsAgree(StampedRows(s), StampedRows(t), D)
           /\ RowsAgree(UnstampedRows(s), UnstampedRows(t), D)
           /\ RowsAgree(StampedTexts(s), StampedTexts(t), D)
           /\ RowsAgree(TextedRows(s), TextedRows(t), D)
           /\ RowsAgree(NamedRows(s), NamedRows(t), D)
           /\ RowsAgree(SoundTexts(s), SoundTexts(t), D)
           /\ RowsAgree(SoundNames(s), SoundNames(t), D)
           /\ RowsAgree(JoinedRows(s), JoinedRows(t), D)
           /\ RowsAgree(JoinedTexts(s), JoinedTexts(t), D)
           /\ RowsAgree(JoinedNames(s), JoinedNames(t), D)
           /\ RowsAgree(DatedJoinedTexts(s), DatedJoinedTexts(t), D)
           /\ RowsAgree(LoginRows(s), LoginRows(t), D)
           /\ RowsAgree(BookmarkRows(s), BookmarkRows(t), D)
           /\ RowsAgree(DownloadRows(s), DownloadRows(t), D)
           /\ RowsAgree(NamedLines(s), NamedLines(t), D)
<1>1. RowsAgree(DatedRows(s), DatedRows(t), D)
  BY PickedAgree DEF DatedRows
<1>2. RowsAgree(DatedTexts(s), DatedTexts(t), D)
  BY PickedAgree DEF DatedTexts
<1>3. RowsAgree(StampedRows(s), StampedRows(t), D)
  BY PickedAgree DEF StampedRows
<1>4. RowsAgree(UnstampedRows(s), UnstampedRows(t), D)
  BY PickedAgree DEF UnstampedRows
<1>5. RowsAgree(StampedTexts(s), StampedTexts(t), D)
  BY PickedAgree DEF StampedTexts
<1>6. RowsAgree(TextedRows(s), TextedRows(t), D)
  BY PickedAgree DEF TextedRows
<1>7. RowsAgree(NamedRows(s), NamedRows(t), D)
  BY PickedAgree DEF NamedRows
<1>8. RowsAgree(SoundTexts(s), SoundTexts(t), D)
  BY PickedAgree DEF SoundTexts
<1>9. RowsAgree(SoundNames(s), SoundNames(t), D)
  BY PickedAgree DEF SoundNames
<1>10. RowsAgree(JoinedRows(s), JoinedRows(t), D)
  BY PickedAgree DEF JoinedRows
<1>11. RowsAgree(JoinedTexts(s), JoinedTexts(t), D)
  BY PickedAgree DEF JoinedTexts
<1>12. RowsAgree(JoinedNames(s), JoinedNames(t), D)
  BY PickedAgree DEF JoinedNames
<1>13. RowsAgree(DatedJoinedTexts(s), DatedJoinedTexts(t), D)
  BY PickedAgree DEF DatedJoinedTexts
<1>14. RowsAgree(LoginRows(s), LoginRows(t), D)
  BY PickedAgree DEF LoginRows
<1>15. RowsAgree(BookmarkRows(s), BookmarkRows(t), D)
  BY PickedAgree DEF BookmarkRows
<1>16. RowsAgree(DownloadRows(s), DownloadRows(t), D)
  BY PickedAgree DEF DownloadRows
<1>17. RowsAgree(NamedLines(s), NamedLines(t), D)
  BY PickedAgree DEF NamedLines
<1> QED
  BY <1>1, <1>2, <1>3, <1>4, <1>5, <1>6, <1>7, <1>8, <1>9, <1>10, <1>11, <1>12, <1>13, <1>14, <1>15, <1>16, <1>17

LEMMA ChromiumStores ==
    /\ \A f, ls, rows, c : Chromium!Query(f, ls, rows, c) = Stored!Query(f, ls, rows, c)
    /\ \A f, ls, rows, c : Chromium!QueryIfAny(f, ls, rows, c) = Stored!QueryIfAny(f, ls, rows, c)
    /\ \A f, rows, c : Chromium!Walk(f, rows, c) = Stored!Walk(f, rows, c)
    /\ \A f, rows, c : Chromium!WalkBytes(f, rows, c) = Stored!WalkBytes(f, rows, c)
    /\ \A rows, x : Chromium!Unchecked(rows, x) = Stored!Unchecked(rows, x)
    /\ \A x, y : Chromium!Then(x, y) = Stored!Then(x, y)
    /\ \A rows, c : Chromium!Events(rows, c) = Stored!Events(rows, c)
    /\ \A events : Chromium!Parsed(events) = Stored!Parsed(events)
    /\ Chromium!Failed = Stored!Failed
    /\ \A f, l : Chromium!RowsIn(f, l) = Stored!RowsIn(f, l)
    /\ \A f, l : Chromium!Here(f, l) = Stored!Here(f, l)
    /\ \A rows : Chromium!OrderedByTime(rows) = Stored!OrderedByTime(rows)
    /\ \A rows : Chromium!Decoded(rows) = Stored!Decoded(rows)
    /\ \A rows : Chromium!Leaves(rows) = Stored!Leaves(rows)
    /\ \A rows, places : Chromium!Picked(rows, places) = Picked(rows, places)
    /\ \A c, n : Chromium!Timestamp(c, n) = Stored!Timestamp(c, n)
<1>1. \A f, l : Chromium!Here(f, l) = Stored!Here(f, l)
  BY DEF Chromium!Here, Stored!Here
<1>2. \A f, l : Chromium!RowsIn(f, l) = Stored!RowsIn(f, l)
  BY <1>1 DEF Chromium!RowsIn, Stored!RowsIn
<1>3. \A rows, places : Chromium!Picked(rows, places) = Picked(rows, places)
  BY DEF Chromium!Picked, Picked
<1>4. \A rows, places : Stored!Picked(rows, places) = Picked(rows, places)
  BY DEF Stored!Picked, Picked
<1>5. \A c, n : Chromium!Timestamp(c, n) = Stored!Timestamp(c, n)
  BY DEF Chromium!Timestamp, Stored!Timestamp, Chromium!Saturated, Stored!Saturated,
      Chromium!Wrapped, Stored!Wrapped, Chromium!LastTime, Stored!LastTime, Chromium!Huge, Stored!Huge
<1>6. \A rows, c : Chromium!Events(rows, c) = Stored!Events(rows, c)
  BY <1>5 DEF Chromium!Events, Stored!Events, Chromium!Recorded, Stored!Recorded, Chromium!Null, Stored!Null
<1>7. Chromium!Failed = Stored!Failed /\ \A events : Chromium!Parsed(events) = Stored!Parsed(events)
  BY DEF Chromium!Failed, Stored!Failed, Chromium!Parsed, Stored!Parsed
<1>8. \A f, ls : Chromium!Prepared(f, ls) = Stored!Prepared(f, ls)
  BY <1>1 DEF Chromium!Prepared, Stored!Prepared
<1>9. \A rows : Chromium!Decoded(rows) = Stored!Decoded(rows)
  BY <1>3, <1>4 DEF Chromium!Decoded, Stored!Decoded, Chromium!Those, Stored!Those
<1>10. \A f, ls, rows, c : Chromium!Query(f, ls, rows, c) = Stored!Query(f, ls, rows, c)
  BY <1>6, <1>7, <1>8, <1>9 DEF Chromium!Query, Stored!Query
<1>11. \A f, ls, rows, c : Chromium!QueryIfAny(f, ls, rows, c) = Stored!QueryIfAny(f, ls, rows, c)
  BY <1>7, <1>8, <1>10 DEF Chromium!QueryIfAny, Stored!QueryIfAny
<1>12. /\ \A f, rows, c : Chromium!WalkBytes(f, rows, c) = Stored!WalkBytes(f, rows, c)
       /\ \A f, rows, c : Chromium!Walk(f, rows, c) = Stored!Walk(f, rows, c)
       /\ \A rows, x : Chromium!Unchecked(rows, x) = Stored!Unchecked(rows, x)
  <2>1. \A f, rows, c : Chromium!WalkBytes(f, rows, c) = Stored!WalkBytes(f, rows, c)
    BY <1>6, <1>7 DEF Chromium!WalkBytes, Stored!WalkBytes
  <2>2. \A f, rows, c : Chromium!Walk(f, rows, c) = Stored!Walk(f, rows, c)
    BY <1>7, <2>1 DEF Chromium!Walk, Stored!Walk
  <2>3. \A rows, x : Chromium!Unchecked(rows, x) = Stored!Unchecked(rows, x)
    BY <1>7 DEF Chromium!Unchecked, Stored!Unchecked, Chromium!Huge, Stored!Huge, Chromium!Panicked, Stored!Panicked
  <2> QED  BY <2>1, <2>2, <2>3
<1>13. \A x, y : Chromium!Then(x, y) = Stored!Then(x, y)
  BY <1>7 DEF Chromium!Then, Stored!Then
<1>14. \A s, keys : Chromium!SortedByKey(s, keys) = Stored!SortedByKey(s, keys)
  BY DEF Chromium!SortedByKey, Stored!SortedByKey, Chromium!GoesBefore, Stored!GoesBefore,
      Chromium!Cardinality, Stored!Cardinality, Chromium!IsFiniteSet, Stored!IsFiniteSet
<1>15. \A rows : Chromium!OrderedByTime(rows) = Stored!OrderedByTime(rows)
  BY <1>14 DEF Chromium!OrderedByTime, Stored!OrderedByTime
<1>16. \A rows : Chromium!Reached(rows) = Stored!Reached(rows)
  BY DEF Chromium!Reached, Stored!Reached, Chromium!IsFolder, Stored!IsFolder
<1>17. \A rows : Chromium!Leaves(rows) = Stored!Leaves(rows)
  BY <1>3, <1>4, <1>16 DEF Chromium!Leaves, Stored!Leaves
<1> QED
  BY <1>1, <1>2, <1>3, <1>5, <1>6, <1>7, <1>9, <1>10, <1>11, <1>12, <1>13, <1>15, <1>17

LEMMA FirefoxStores ==
    /\ \A f, ls, rows, c : Firefox!Query(f, ls, rows, c) = Stored!Query(f, ls, rows, c)
    /\ \A f, ls, rows, c : Firefox!QueryIfAny(f, ls, rows, c) = Stored!QueryIfAny(f, ls, rows, c)
    /\ \A f, rows, c : Firefox!Walk(f, rows, c) = Stored!Walk(f, rows, c)
    /\ \A f, rows, c : Firefox!WalkBytes(f, rows, c) = Stored!WalkBytes(f, rows, c)
    /\ \A rows, x : Firefox!Unchecked(rows, x) = Stored!Unchecked(rows, x)
    /\ \A x, y : Firefox!Then(x, y) = Stored!Then(x, y)
    /\ \A rows, c : Firefox!Events(rows, c) = Stored!Events(rows, c)
    /\ \A events : Firefox!Parsed(events) = Stored!Parsed(events)
    /\ Firefox!Failed = Stored!Failed
    /\ \A f, l : Firefox!RowsIn(f, l) = Stored!RowsIn(f, l)
    /\ \A f, l : Firefox!Here(f, l) = Stored!Here(f, l)
    /\ \A rows : Firefox!OrderedByTime(rows) = Stored!OrderedByTime(rows)
    /\ \A rows : Firefox!Decoded(rows) = Stored!Decoded(rows)
    /\ \A rows : Firefox!Leaves(rows) = Stored!Leaves(rows)
    /\ \A rows, places : Firefox!Picked(rows, places) = Picked(rows, places)
    /\ \A c, n : Firefox!Timestamp(c, n) = Stored!Timestamp(c, n)
<1>1. \A f, l : Firefox!Here(f, l) = Stored!Here(f, l)
  BY DEF Firefox!Here, Stored!Here
<1>2. \A f, l : Firefox!RowsIn(f, l) = Stored!RowsIn(f, l)
  BY <1>1 DEF Firefox!RowsIn, Stored!RowsIn
<1>3. \A rows, places : Firefox!Picked(rows, places) = Picked(rows, places)
  BY DEF Firefox!Picked, Picked
<1>4. \A rows, places : Stored!Picked(rows, places) = Picked(rows, places)
  BY DEF Stored!Picked, Picked
<1>5. \A c, n : Firefox!Timestamp(c, n) = Stored!Timestamp(c, n)
  BY DEF Firefox!Timestamp, Stored!Timestamp, Firefox!Saturated, Stored!Saturated,
      Firefox!Wrapped, Stored!Wrapped, Firefox!LastTime, Stored!LastTime, Firefox!Huge, Stored!Huge
<1>6. \A rows, c : Firefox!Events(rows, c) = Stored!Events(rows, c)
  BY <1>5 DEF Firefox!Events, Stored!Events, Firefox!Recorded, Stored!Recorded, Firefox!Null, Stored!Null
<1>7. Firefox!Failed = Stored!Failed /\ \A events : Firefox!Parsed(events) = Stored!Parsed(events)
  BY DEF Firefox!Failed, Stored!Failed, Firefox!Parsed, Stored!Parsed
<1>8. \A f, ls : Firefox!Prepared(f, ls) = Stored!Prepared(f, ls)
  BY <1>1 DEF Firefox!Prepared, Stored!Prepared
<1>9. \A rows : Firefox!Decoded(rows) = Stored!Decoded(rows)
  BY <1>3, <1>4 DEF Firefox!Decoded, Stored!Decoded, Firefox!Those, Stored!Those
<1>10. \A f, ls, rows, c : Firefox!Query(f, ls, rows, c) = Stored!Query(f, ls, rows, c)
  BY <1>6, <1>7, <1>8, <1>9 DEF Firefox!Query, Stored!Query
<1>11. \A f, ls, rows, c : Firefox!QueryIfAny(f, ls, rows, c) = Stored!QueryIfAny(f, ls, rows, c)
  BY <1>7, <1>8, <1>10 DEF Firefox!QueryIfAny, Stored!QueryIfAny
<1>12. /\ \A f, rows, c : Firefox!WalkBytes(f, rows, c) = Stored!WalkBytes(f, rows, c)
       /\ \A f, rows, c : Firefox!Walk(f, rows, c) = Stored!Walk(f, rows, c)
       /\ \A rows, x : Firefox!Unchecked(rows, x) = Stored!Unchecked(rows, x)
  <2>1. \A f, rows, c : Firefox!WalkBytes(f, rows, c) = Stored!WalkBytes(f, rows, c)
    BY <1>6, <1>7 DEF Firefox!WalkBytes, Stored!WalkBytes
  <2>2. \A f, rows, c : Firefox!Walk(f, rows, c) = Stored!Walk(f, rows, c)
    BY <1>7, <2>1 DEF Firefox!Walk, Stored!Walk
  <2>3. \A rows, x : Firefox!Unchecked(rows, x) = Stored!Unchecked(rows, x)
    BY <1>7 DEF Firefox!Unchecked, Stored!Unchecked, Firefox!Huge, Stored!Huge, Firefox!Panicked, Stored!Panicked
  <2> QED  BY <2>1, <2>2, <2>3
<1>13. \A x, y : Firefox!Then(x, y) = Stored!Then(x, y)
  BY <1>7 DEF Firefox!Then, Stored!Then
<1>14. \A s, keys : Firefox!SortedByKey(s, keys) = Stored!SortedByKey(s, keys)
  BY DEF Firefox!SortedByKey, Stored!SortedByKey, Firefox!GoesBefore, Stored!GoesBefore,
      Firefox!Cardinality, Stored!Cardinality, Firefox!IsFiniteSet, Stored!IsFiniteSet
<1>15. \A rows : Firefox!OrderedByTime(rows) = Stored!OrderedByTime(rows)
  BY <1>14 DEF Firefox!OrderedByTime, Stored!OrderedByTime
<1>16. \A rows : Firefox!Reached(rows) = Stored!Reached(rows)
  BY DEF Firefox!Reached, Stored!Reached, Firefox!IsFolder, Stored!IsFolder
<1>17. \A rows : Firefox!Leaves(rows) = Stored!Leaves(rows)
  BY <1>3, <1>4, <1>16 DEF Firefox!Leaves, Stored!Leaves
<1> QED
  BY <1>1, <1>2, <1>3, <1>5, <1>6, <1>7, <1>9, <1>10, <1>11, <1>12, <1>13, <1>15, <1>17

LEMMA SafariStores ==
    /\ \A f, ls, rows, c : Safari!Query(f, ls, rows, c) = Stored!Query(f, ls, rows, c)
    /\ \A f, ls, rows, c : Safari!QueryIfAny(f, ls, rows, c) = Stored!QueryIfAny(f, ls, rows, c)
    /\ \A f, rows, c : Safari!Walk(f, rows, c) = Stored!Walk(f, rows, c)
    /\ \A f, rows, c : Safari!WalkBytes(f, rows, c) = Stored!WalkBytes(f, rows, c)
    /\ \A rows, x : Safari!Unchecked(rows, x) = Stored!Unchecked(rows, x)
    /\ \A x, y : Safari!Then(x, y) = Stored!Then(x, y)
    /\ \A rows, c : Safari!Events(rows, c) = Stored!Events(rows, c)
    /\ \A events : Safari!Parsed(events) = Stored!Parsed(events)
    /\ Safari!Failed = Stored!Failed
    /\ \A f, l : Safari!RowsIn(f, l) = Stored!RowsIn(f, l)
    /\ \A f, l : Safari!Here(f, l) = Stored!Here(f, l)
    /\ \A rows : Safari!OrderedByTime(rows) = Stored!OrderedByTime(rows)
    /\ \A rows : Safari!Decoded(rows) = Stored!Decoded(rows)
    /\ \A rows : Safari!Leaves(rows) = Stored!Leaves(rows)
    /\ \A rows, places : Safari!Picked(rows, places) = Picked(rows, places)
    /\ \A c, n : Safari!Timestamp(c, n) = Stored!Timestamp(c, n)
<1>1. \A f, l : Safari!Here(f, l) = Stored!Here(f, l)
  BY DEF Safari!Here, Stored!Here
<1>2. \A f, l : Safari!RowsIn(f, l) = Stored!RowsIn(f, l)
  BY <1>1 DEF Safari!RowsIn, Stored!RowsIn
<1>3. \A rows, places : Safari!Picked(rows, places) = Picked(rows, places)
  BY DEF Safari!Picked, Picked
<1>4. \A rows, places : Stored!Picked(rows, places) = Picked(rows, places)
  BY DEF Stored!Picked, Picked
<1>5. \A c, n : Safari!Timestamp(c, n) = Stored!Timestamp(c, n)
  BY DEF Safari!Timestamp, Stored!Timestamp, Safari!Saturated, Stored!Saturated,
      Safari!Wrapped, Stored!Wrapped, Safari!LastTime, Stored!LastTime, Safari!Huge, Stored!Huge
<1>6. \A rows, c : Safari!Events(rows, c) = Stored!Events(rows, c)
  BY <1>5 DEF Safari!Events, Stored!Events, Safari!Recorded, Stored!Recorded, Safari!Null, Stored!Null
<1>7. Safari!Failed = Stored!Failed /\ \A events : Safari!Parsed(events) = Stored!Parsed(events)
  BY DEF Safari!Failed, Stored!Failed, Safari!Parsed, Stored!Parsed
<1>8. \A f, ls : Safari!Prepared(f, ls) = Stored!Prepared(f, ls)
  BY <1>1 DEF Safari!Prepared, Stored!Prepared
<1>9. \A rows : Safari!Decoded(rows) = Stored!Decoded(rows)
  BY <1>3, <1>4 DEF Safari!Decoded, Stored!Decoded, Safari!Those, Stored!Those
<1>10. \A f, ls, rows, c : Safari!Query(f, ls, rows, c) = Stored!Query(f, ls, rows, c)
  BY <1>6, <1>7, <1>8, <1>9 DEF Safari!Query, Stored!Query
<1>11. \A f, ls, rows, c : Safari!QueryIfAny(f, ls, rows, c) = Stored!QueryIfAny(f, ls, rows, c)
  BY <1>7, <1>8, <1>10 DEF Safari!QueryIfAny, Stored!QueryIfAny
<1>12. /\ \A f, rows, c : Safari!WalkBytes(f, rows, c) = Stored!WalkBytes(f, rows, c)
       /\ \A f, rows, c : Safari!Walk(f, rows, c) = Stored!Walk(f, rows, c)
       /\ \A rows, x : Safari!Unchecked(rows, x) = Stored!Unchecked(rows, x)
  <2>1. \A f, rows, c : Safari!WalkBytes(f, rows, c) = Stored!WalkBytes(f, rows, c)
    BY <1>6, <1>7 DEF Safari!WalkBytes, Stored!WalkBytes
  <2>2. \A f, rows, c : Safari!Walk(f, rows, c) = Stored!Walk(f, rows, c)
    BY <1>7, <2>1 DEF Safari!Walk, Stored!Walk
  <2>3. \A rows, x : Safari!Unchecked(rows, x) = Stored!Unchecked(rows, x)
    BY <1>7 DEF Safari!Unchecked, Stored!Unchecked, Safari!Huge, Stored!Huge, Safari!Panicked, Stored!Panicked
  <2> QED  BY <2>1, <2>2, <2>3
<1>13. \A x, y : Safari!Then(x, y) = Stored!Then(x, y)
  BY <1>7 DEF Safari!Then, Stored!Then
<1>14. \A s, keys : Safari!SortedByKey(s, keys) = Stored!SortedByKey(s, keys)
  BY DEF Safari!SortedByKey, Stored!SortedByKey, Safari!GoesBefore, Stored!GoesBefore,
      Safari!Cardinality, Stored!Cardinality, Safari!IsFiniteSet, Stored!IsFiniteSet
<1>15. \A rows : Safari!OrderedByTime(rows) = Stored!OrderedByTime(rows)
  BY <1>14 DEF Safari!OrderedByTime, Stored!OrderedByTime
<1>16. \A rows : Safari!Reached(rows) = Stored!Reached(rows)
  BY DEF Safari!Reached, Stored!Reached, Safari!IsFolder, Stored!IsFolder
<1>17. \A rows : Safari!Leaves(rows) = Stored!Leaves(rows)
  BY <1>3, <1>4, <1>16 DEF Safari!Leaves, Stored!Leaves
<1> QED
  BY <1>1, <1>2, <1>3, <1>5, <1>6, <1>7, <1>9, <1>10, <1>11, <1>12, <1>13, <1>15, <1>17

\* What the parsers read apart from a query: the leaves of a tree, and a directory that
\* may not be listed.
LEMMA LeavesAgree ==
    ASSUME NEW f, NEW g, NEW D, FilesAgree(f, g, D), NEW l \in ListsOf \cap Trees
    PROVE  RowsAgree(Stored!Leaves(Stored!RowsIn(f, l)), Stored!Leaves(Stored!RowsIn(g, l)), D)
<1>1. Stored!Here(g, l) = Stored!Here(f, l) /\ Stored!Here(f, l) \in BOOLEAN
  BY TablesAgree
<1>2. CASE Stored!Here(f, l)
  BY <1>1, <1>2 DEF FilesAgree, Stored!RowsIn
<1>3. CASE ~Stored!Here(f, l)
  <2>1. PICK e : e = <<>>
    OBVIOUS
  <2>2. Stored!RowsIn(f, l) = e /\ Stored!RowsIn(g, l) = e
    BY <1>1, <1>3, <2>1 DEF Stored!RowsIn
  <2>3. PICK K : K = {k \in Stored!Reached(e) : e[k].sound /\ e[k].sort}
    OBVIOUS
  <2>4. Stored!Leaves(e) = Picked(e, K)
    BY <2>3, SortsAre DEF Stored!Leaves
  <2>5. Picked(e, K) = <<>>
    <3> DEFINE F(h) == [n \in 0..0 |-> IF n = 0 THEN <<>>
                           ELSE IF n \in K THEN Append(h[n - 1], e[n]) ELSE h[n - 1]]
               h == CHOOSE x : x = F(x)
               x0 == [n \in 0..0 |-> <<>>]
    <3>1. Len(e) = 0
      BY <2>1
    <3>2. Picked(e, K) = h[0]
      BY <3>1 DEF Picked
    <3>3. x0 = F(x0)
      OBVIOUS
    <3>4. h = F(h)
      <4> HIDE DEF F, x0
      <4> QED  BY <3>3
    <3>5. F(h)[0] = <<>>
      OBVIOUS
    <3> HIDE DEF h, F
    <3> QED  BY <3>2, <3>4, <3>5
  <2> QED  BY <2>2, <2>4, <2>5, NoRowsAgree
<1> QED  BY <1>1, <1>2, <1>3

LEMMA ListingsAgree ==
    ASSUME NEW f, NEW g, NEW D, FilesAgree(f, g, D), NEW s, NEW t, RowsAgree(s, t, D),
           NEW c \in ClockNames
    PROVE  OutcomesAgree(Stored!Parsed(Stored!Events(IF f.opens THEN s ELSE <<>>, c)),
                         Stored!Parsed(Stored!Events(IF g.opens THEN t ELSE <<>>, c)), D)
<1>1. PICK u, v : u = (IF f.opens THEN s ELSE <<>>) /\ v = (IF g.opens THEN t ELSE <<>>)
  OBVIOUS
<1>2. RowsAgree(u, v, D)
  <2>1. f.opens \in BOOLEAN /\ g.opens = f.opens
    BY DEF FilesAgree
  <2>2. CASE f.opens
    BY <1>1, <2>1, <2>2
  <2>3. CASE ~f.opens
    BY <1>1, <2>1, <2>3, NoRowsAgree
  <2> QED  BY <2>1, <2>2, <2>3
<1> QED  BY <1>1, <1>2, ReportsAgree, ParsedAgree

LEMMA ChainedRowsAgree ==
    ASSUME NEW s, NEW t, NEW D, RowsAgree(s, t, D), NEW u, NEW v, RowsAgree(u, v, D)
    PROVE  RowsAgree(s \o u, t \o v, D)
<1>1. /\ s \in Seq(TableRow) /\ t \in Seq(TableRow) /\ Agree(s, t, RowsBut(D))
      /\ u \in Seq(TableRow) /\ v \in Seq(TableRow) /\ Agree(u, v, RowsBut(D))
  BY DEF RowsAgree
<1>2. s \o u \in Seq(TableRow) /\ t \o v \in Seq(TableRow)
  BY <1>1
<1>3. Agree(s \o u, t \o v, RowsBut(D))
  BY <1>1, AgreeJoined
<1> QED  BY <1>2, <1>3 DEF RowsAgree

\* The hops of redirects are the same rows, so what is left without them agrees.
LEMMA PagesAgree ==
    ASSUME NEW f, NEW g, NEW D, FilesAgree(f, g, D), "visits" \in ListsOf,
           NEW x, NEW y, OutcomesAgree(x, y, D)
    PROVE  OutcomesAgree(Chromium!CollapseRedirects(f, x), Chromium!CollapseRedirects(g, y), D)
<1>1. PICK s, t : s = Stored!RowsIn(f, "visits") /\ t = Stored!RowsIn(g, "visits")
  OBVIOUS
<1>2. s \in Seq(TableRow) /\ t \in Seq(TableRow) /\ Agree(s, t, RowsBut(D))
  BY <1>1, TablesAgree DEF RowsAgree
<1>3. PICK hs, ht : /\ hs = {r.id : r \in {s[k] : k \in {n \in DOMAIN s : ~s[n].sort}}}
                    /\ ht = {r.id : r \in {t[k] : k \in {n \in DOMAIN t : ~t[n].sort}}}
  OBVIOUS
<1>4. ASSUME NEW i, i \notin D PROVE i \in hs <=> i \in ht
  <2>1. PICK way : Leads(way, s, t, RowsBut(D))
    BY <1>2 DEF Agree
  <2>2. \A k \in DOMAIN s : s[k].id = i => k \in Where(s, RowsBut(D))
    <3>1. \A k \in DOMAIN s : s[k] \in TableRow
      BY <1>2
    <3> QED  BY <1>4, <3>1 DEF Where, RowsBut
  <2>3. \A k \in DOMAIN t : t[k].id = i => k \in Where(t, RowsBut(D))
    <3>1. \A k \in DOMAIN t : t[k] \in TableRow
      BY <1>2
    <3> QED  BY <1>4, <3>1 DEF Where, RowsBut
  <2>4. \A k \in Where(s, RowsBut(D)) : way[k] \in Where(t, RowsBut(D)) /\ t[way[k]] = s[k]
    BY <2>1 DEF Leads, InOrder
  <2>5. \A n \in Where(t, RowsBut(D)) : \E k \in Where(s, RowsBut(D)) : way[k] = n
    BY <2>1 DEF Leads, InOrder
  <2>6. i \in hs <=> \E k \in DOMAIN s : ~s[k].sort /\ s[k].id = i
    BY <1>3
  <2>7. i \in ht <=> \E k \in DOMAIN t : ~t[k].sort /\ t[k].id = i
    BY <1>3
  <2>8. \A l : Where(s, l) \subseteq DOMAIN s /\ Where(t, l) \subseteq DOMAIN t
    BY DEF Where
  <2> QED  BY <2>2, <2>3, <2>4, <2>5, <2>6, <2>7, <2>8
<1>5. PICK u, v : u = x.events /\ v = y.events
  OBVIOUS
<1>6. u \in Seq(EventShown) /\ v \in Seq(EventShown) /\ Agree(u, v, EventsBut(D))
  BY <1>5 DEF OutcomesAgree, EventsAgree
<1>7. PICK K, L : K = {k \in DOMAIN u : u[k].row \notin hs} /\ L = {k \in DOMAIN v : v[k].row \notin ht}
  OBVIOUS
<1>8. ASSUME NEW m \in Where(u, EventsBut(D)), NEW n \in Where(v, EventsBut(D)), u[m] = v[n]
      PROVE  m \in K <=> n \in L
  <2>1. u[m].row \notin D /\ m \in DOMAIN u /\ n \in DOMAIN v
    BY DEF Where, EventsBut
  <2> QED  BY <1>4, <1>7, <1>8, <2>1
<1>9. Agree(Picked(u, K), Picked(v, L), EventsBut(D))
  BY <1>6, <1>7, <1>8, AgreePicked
<1>10. Picked(u, K) \in Seq(EventShown) /\ Picked(v, L) \in Seq(EventShown)
  BY <1>6, <1>7, PickedIs
<1>11. /\ Chromium!CollapseRedirects(f, x) = [x EXCEPT !.events = Picked(u, K)]
       /\ Chromium!CollapseRedirects(g, y) = [y EXCEPT !.events = Picked(v, L)]
  BY <1>1, <1>3, <1>5, <1>7, ChromiumStores DEF Chromium!CollapseRedirects, Chromium!Those, Chromium!IsHop
<1> QED  BY <1>9, <1>10, <1>11 DEF OutcomesAgree, ParseOutcome, EventsAgree

\* A place is reached from a root, or from an earlier folder that is reached.
Hangs(s, R, n) ==
    s[n].link = 0 \/ (s[n].link \in R /\ s[n].link < n /\ Stored!IsFolder(s[s[n].link]))

LEMMA ReachedIs ==
    ASSUME NEW s \in Seq(TableRow)
    PROVE  /\ Stored!Reached(s) \in SUBSET (DOMAIN s)
           /\ \A n \in DOMAIN s : n \in Stored!Reached(s) <=> Hangs(s, Stored!Reached(s), n)
<1>1. PICK N \in Nat : N = Len(s) /\ DOMAIN s = 1..N
  OBVIOUS
<1> DEFINE V == SUBSET (1..N)
           C(n, x) == s[n].link = 0 \/ (s[n].link \in x /\ Stored!IsFolder(s[s[n].link]))
           D(f) == [n \in 0..Len(s) |->
                       IF n = 0 THEN {} ELSE IF C(n, f[n - 1]) THEN f[n - 1] \cup {n} ELSE f[n - 1]]
           J == [n \in 1..N |-> [x \in V |-> IF C(n, x) THEN TRUE ELSE FALSE]]
           u == CHOOSE f : f = D(f)
<1>2. PICK h : IsGrown(h, J, N)
  <2> HIDE DEF C, V
  <2>1. J \in [1..N -> [V -> BOOLEAN]]
    OBVIOUS
  <2>2. AreTests(J, N)
    BY <2>1 DEF AreTests, V
  <2> HIDE DEF J
  <2> QED  BY <2>2, GrownSetIs
<1>3. /\ h \in [0..N -> V] /\ h[0] = {}
      /\ \A n \in 1..N : h[n] = IF J[n][h[n - 1]] THEN h[n - 1] \cup {n} ELSE h[n - 1]
  <2> HIDE DEF J
  <2> QED  BY <1>2 DEF IsGrown
<1>4. Stored!Reached(s) = u[N]
  BY <1>1 DEF Stored!Reached
<1> HIDE DEF C
<1>5. h = D(h)
  <2>1. ASSUME NEW n \in 1..N
        PROVE  h[n] = IF C(n, h[n - 1]) THEN h[n - 1] \cup {n} ELSE h[n - 1]
    <3>1. h[n - 1] \in V
      BY <1>3
    <3>2. J[n][h[n - 1]] = IF C(n, h[n - 1]) THEN TRUE ELSE FALSE
      <4> HIDE DEF V
      <4> QED  BY <3>1
    <3> HIDE DEF J
    <3> QED  BY <1>3, <3>2
  <2>2. \A n \in 0..N : h[n] = IF n = 0 THEN {} ELSE IF C(n, h[n - 1]) THEN h[n - 1] \cup {n} ELSE h[n - 1]
    <3>1. \A n \in 0..N : n # 0 => n \in 1..N
      OBVIOUS
    <3> QED  BY <1>3, <2>1, <3>1
  <2>3. h = [n \in 0..N |-> h[n]]
    BY <1>3
  <2> QED  BY <1>1, <2>2, <2>3
<1>6. u = D(u)
  <2> HIDE DEF D
  <2> QED  BY <1>5
<1> HIDE DEF u, J
<1>7. u[0] = {} /\ \A n \in 1..N : u[n] = IF C(n, u[n - 1]) THEN u[n - 1] \cup {n} ELSE u[n - 1]
  <2>1. ASSUME NEW n \in 0..N
        PROVE  u[n] = IF n = 0 THEN {} ELSE IF C(n, u[n - 1]) THEN u[n - 1] \cup {n} ELSE u[n - 1]
    <3>1. u[n] = D(u)[n]
      <4> HIDE DEF D
      <4> QED  BY <1>6
    <3> QED  BY <1>1, <3>1
  <2>2. 0 \in 0..N /\ \A n \in 1..N : n \in 0..N /\ n # 0
    OBVIOUS
  <2> HIDE DEF D
  <2>3. u[0] = {}
    BY <2>1, <2>2
  <2> QED  BY <2>1, <2>2, <2>3
<1> HIDE DEF D
<1>8. \A n \in 0..N : u[n] = u[N] \cap 1..n
  <2>1. \A n \in 1..N : u[n] = u[n - 1] \/ u[n] = u[n - 1] \cup {n}
    BY <1>7
  <2> QED  BY <1>7, <2>1, GrownUpto
<1>9. u[N] \subseteq 1..N
  <2>1. N \in 0..N
    OBVIOUS
  <2> QED  BY <1>8, <2>1
<1>10. ASSUME NEW n \in 1..N PROVE n \in u[N] <=> Hangs(s, u[N], n)
  <2>1. n \in 0..N /\ n - 1 \in 0..N
    OBVIOUS
  <2>2. u[n] = u[N] \cap 1..n /\ u[n - 1] = u[N] \cap 1..(n - 1)
    BY <1>8, <2>1
  <2>3. n \in u[n] <=> n \in u[N]
    BY <2>2
  <2>4. n \notin u[n - 1]
    BY <2>2
  <2>5. n \in u[n] <=> C(n, u[n - 1])
    BY <1>7, <2>4
  <2>6. \A l : l \in u[n - 1] <=> l \in u[N] /\ l < n
    BY <1>9, <2>2
  <2>7. C(n, u[n - 1]) <=> Hangs(s, u[N], n)
    BY <2>6 DEF C, Hangs
  <2> QED  BY <2>3, <2>5, <2>7
<1> QED  BY <1>1, <1>4, <1>9, <1>10

\* What is below a place, in the list the place is of.
IsUnder(U, s, m) == \A n \in DOMAIN s : n \in U <=> n = m \/ (s[n].link \in U /\ s[n].link < n)

\* A row that is added or changed in a tree takes with it what is below it; the walk finds
\* the other leaves as before.
LEMMA LeavesStay ==
    ASSUME NEW s \in Seq(TableRow), NEW t \in Seq(TableRow), NEW m \in DOMAIN t, NEW D,
           DOMAIN s \subseteq DOMAIN t, \A k \in DOMAIN t : k = m \/ (k \in DOMAIN s /\ s[k] = t[k]),
           m \in DOMAIN s => s[m].id = t[m].id,
           \A i, j \in DOMAIN t : t[i].id = t[j].id => i = j,
           NEW U, IsUnder(U, t, m), \A k \in DOMAIN t : k \in U => t[k].id \in D
    PROVE  RowsAgree(Stored!Leaves(s), Stored!Leaves(t), D)
<1> DEFINE E == RowsBut(D)
           N == Len(t)
           P == Stored!Reached(s)
           Q == Stored!Reached(t)
<1>1. N \in Nat /\ DOMAIN t = 1..N
  OBVIOUS
<1>2. /\ P \in SUBSET (DOMAIN s) /\ \A n \in DOMAIN s : n \in P <=> Hangs(s, P, n)
      /\ Q \in SUBSET (DOMAIN t) /\ \A n \in DOMAIN t : n \in Q <=> Hangs(t, Q, n)
  BY ReachedIs
<1> HIDE DEF N, P, Q
<1>3. m \in U /\ t[m].id \in D
  BY DEF IsUnder
<1> DEFINE Good == {n \in 0..N : \A k \in 1..n : k \notin U => (k \in P <=> k \in Q)}
<1>4. ASSUME NEW n \in 1..N, n - 1 \in Good PROVE n \in Good
  <2> SUFFICES ASSUME n \notin U PROVE n \in P <=> n \in Q
    <3>1. \A k \in 1..n : k = n \/ k \in 1..(n - 1)
      OBVIOUS
    <3> QED  BY <1>4, <3>1
  <2>1. n \in DOMAIN s /\ n \in DOMAIN t /\ s[n] = t[n]
    BY <1>1, <1>3
  <2>2. PICK l : l = t[n].link
    OBVIOUS
  <2>3. l < n => l \notin U
    BY <2>1, <2>2 DEF IsUnder
  <2>4. ASSUME l < n, l \in DOMAIN t
        PROVE  (l \in P <=> l \in Q) /\ l \in DOMAIN s /\ s[l] = t[l]
    <3>1. l \notin U /\ l \in 1..(n - 1)
      BY <1>1, <2>3, <2>4
    <3>2. l # m
      BY <1>3, <3>1
    <3> QED  BY <1>4, <2>4, <3>1, <3>2
  <2>5. /\ n \in P <=> l = 0 \/ (l \in P /\ l < n /\ Stored!IsFolder(s[l]))
        /\ n \in Q <=> l = 0 \/ (l \in Q /\ l < n /\ Stored!IsFolder(t[l]))
    BY <1>2, <2>1, <2>2 DEF Hangs
  <2> QED  BY <1>2, <2>4, <2>5
<1>5. \A k \in DOMAIN t : k \notin U => (k \in P <=> k \in Q)
  <2>1. 0 \in Good
    BY <1>1
  <2>2. \A n \in 0..N : n \in Good
    <3> HIDE DEF Good
    <3> QED  BY <1>1, <1>4, <2>1, CountingUp
  <2>3. N \in Good
    BY <1>1, <2>2
  <2> QED  BY <1>1, <2>3
<1>6. PICK K, L : /\ K = {k \in P : s[k].sound /\ s[k].sort}
                  /\ L = {k \in Q : t[k].sound /\ t[k].sort}
  OBVIOUS
<1>7. ASSUME NEW i \in Where(s, E), NEW j \in Where(t, E), s[i] = t[j] PROVE i \in K <=> j \in L
  <2>1. i \in DOMAIN s /\ j \in DOMAIN t /\ t[j].id \notin D
    BY DEF Where, RowsBut
  <2>2. i = j
    <3>1. s[i].id = t[i].id
      BY <2>1
    <3> QED  BY <1>7, <2>1, <3>1
  <2>3. j \notin U
    BY <2>1
  <2> QED  BY <1>5, <1>6, <1>7, <2>1, <2>2, <2>3
<1>8. Agree(s, t, E)
  <2>1. \A k \in DOMAIN s : s[k] \in TableRow
    OBVIOUS
  <2>2. \A k \in DOMAIN t : t[k] \in TableRow
    OBVIOUS
  <2>3. Where(s, E) = Where(t, E)
    BY <1>3, <2>1, <2>2 DEF Where, RowsBut
  <2>4. \A k \in Where(s, E) : s[k] = t[k]
    BY <1>3, <2>1 DEF Where, RowsBut
  <2> QED  BY <2>3, <2>4, AgreeInPlace
<1>9. K \in SUBSET (DOMAIN s) /\ L \in SUBSET (DOMAIN t)
  BY <1>2, <1>6
<1>10. Agree(Picked(s, K), Picked(t, L), E)
  BY <1>7, <1>8, <1>9, AgreePicked
<1>11. Picked(s, K) \in Seq(TableRow) /\ Picked(t, L) \in Seq(TableRow)
  BY <1>9, PickedIs
<1>12. Stored!Leaves(s) = Picked(s, K) /\ Stored!Leaves(t) = Picked(t, L)
  BY <1>6, SortsAre DEF Stored!Leaves, P, Q
<1> QED  BY <1>10, <1>11, <1>12 DEF RowsAgree

LEMMA BelowIs ==
    ASSUME NEW f, NEW p, NEW s, s = f.lists[p[1]].rows, s \in Seq(TableRow),
           Len(s) <= MaxTableRows, p[2] \in 1..MaxTableRows
    PROVE  \E U : /\ IsUnder(U, s, p[2])
                  /\ Below(f, p) =
                        {q \in AllRows(f) :
                            \/ q = p
                            \/ p[1] \in Trees /\ q[1] = p[1] /\ q[2] \in U
                            \/ p[1] = "Containers" /\ q[1] = Safari!TableOf(RowAt(f, p))}
<1>1. PICK N \in Nat : N = MaxTableRows
  BY ReadersAssumption
<1> DEFINE V == SUBSET (1..N)
           C(n, x) == n = p[2] \/ (n \in DOMAIN s /\ s[n].link \in x)
           D(g) == [n \in 0..MaxTableRows |->
                       IF n = 0 THEN {} ELSE IF C(n, g[n - 1]) THEN g[n - 1] \cup {n} ELSE g[n - 1]]
           J == [n \in 1..N |-> [x \in V |-> IF C(n, x) THEN TRUE ELSE FALSE]]
           u == CHOOSE g : g = D(g)
<1>2. PICK h : IsGrown(h, J, N)
  <2> HIDE DEF C, V
  <2>1. J \in [1..N -> [V -> BOOLEAN]]
    OBVIOUS
  <2>2. AreTests(J, N)
    BY <2>1 DEF AreTests, V
  <2> HIDE DEF J
  <2> QED  BY <2>2, GrownSetIs
<1>3. /\ h \in [0..N -> V] /\ h[0] = {}
      /\ \A n \in 1..N : h[n] = IF J[n][h[n - 1]] THEN h[n - 1] \cup {n} ELSE h[n - 1]
  <2> HIDE DEF J
  <2> QED  BY <1>2 DEF IsGrown
<1>4. Below(f, p) =
          {q \in AllRows(f) :
              \/ q = p
              \/ p[1] \in Trees /\ q[1] = p[1] /\ q[2] \in u[N]
              \/ p[1] = "Containers" /\ q[1] = Safari!TableOf(RowAt(f, p))}
  BY <1>1, Zenon DEF Below
<1> HIDE DEF C
<1>5. h = D(h)
  <2>1. ASSUME NEW n \in 1..N
        PROVE  h[n] = IF C(n, h[n - 1]) THEN h[n - 1] \cup {n} ELSE h[n - 1]
    <3>1. h[n - 1] \in V
      BY <1>3
    <3>2. J[n][h[n - 1]] = IF C(n, h[n - 1]) THEN TRUE ELSE FALSE
      <4> HIDE DEF V
      <4> QED  BY <3>1
    <3> HIDE DEF J
    <3> QED  BY <1>3, <3>2
  <2>2. \A n \in 0..N : h[n] = IF n = 0 THEN {} ELSE IF C(n, h[n - 1]) THEN h[n - 1] \cup {n} ELSE h[n - 1]
    <3>1. \A n \in 0..N : n # 0 => n \in 1..N
      OBVIOUS
    <3> QED  BY <1>3, <2>1, <3>1
  <2>3. h = [n \in 0..N |-> h[n]]
    BY <1>3
  <2> QED  BY <1>1, <2>2, <2>3
<1>6. u = D(u)
  <2> HIDE DEF D
  <2> QED  BY <1>5
<1> HIDE DEF u, J
<1>7. u[0] = {} /\ \A n \in 1..N : u[n] = IF C(n, u[n - 1]) THEN u[n - 1] \cup {n} ELSE u[n - 1]
  <2>1. ASSUME NEW n \in 0..N
        PROVE  u[n] = IF n = 0 THEN {} ELSE IF C(n, u[n - 1]) THEN u[n - 1] \cup {n} ELSE u[n - 1]
    <3>1. u[n] = D(u)[n]
      <4> HIDE DEF D
      <4> QED  BY <1>6
    <3> QED  BY <1>1, <3>1
  <2>2. 0 \in 0..N /\ \A n \in 1..N : n \in 0..N /\ n # 0
    OBVIOUS
  <2> HIDE DEF D
  <2>3. u[0] = {}
    BY <2>1, <2>2
  <2> QED  BY <2>1, <2>2, <2>3
<1> HIDE DEF D
<1>8. \A n \in 0..N : u[n] = u[N] \cap 1..n
  <2>1. \A n \in 1..N : u[n] = u[n - 1] \/ u[n] = u[n - 1] \cup {n}
    BY <1>7
  <2> QED  BY <1>7, <2>1, GrownUpto
<1>9. \A n \in DOMAIN s : n \in 1..N
  BY <1>1
<1>10. ASSUME NEW n \in DOMAIN s
       PROVE  n \in u[N] <=> n = p[2] \/ (s[n].link \in u[N] /\ s[n].link < n)
  <2>1. n \in 1..N /\ n \in 0..N /\ n - 1 \in 0..N /\ N \in 0..N
    BY <1>9
  <2>2. u[n] = u[N] \cap 1..n /\ u[n - 1] = u[N] \cap 1..(n - 1) /\ u[N] = u[N] \cap 1..N
    BY <1>8, <2>1
  <2>3. n \in u[n] <=> n \in u[N]
    BY <2>1, <2>2
  <2>4. n \notin u[n - 1]
    BY <2>2
  <2>5. n \in u[n] <=> C(n, u[n - 1])
    BY <1>7, <2>1, <2>4
  <2>6. \A l : l \in u[n - 1] <=> l \in u[N] /\ l < n
    BY <2>1, <2>2
  <2>7. C(n, u[n - 1]) <=> n = p[2] \/ (s[n].link \in u[N] /\ s[n].link < n)
    BY <2>6 DEF C
  <2> QED  BY <2>3, <2>5, <2>7
<1>11. IsUnder(u[N], s, p[2])
  BY <1>10 DEF IsUnder
<1> QED  BY <1>4, <1>11

\* Each parser of a Chromium profile keeps rows in agreement.
LEMMA ChromiumAgrees ==
    ASSUME reader.family = "Chromium", reader.artifact \in DOMAIN ChromiumLists,
           NEW f, NEW g, NEW D, FilesAgree(f, g, D)
    PROVE  OutcomesAgree(ParseChromium(reader.artifact, f), ParseChromium(reader.artifact, g), D)
<1>1. CASE reader.artifact = "history"
  <2>1. {"urls"} \subseteq ListsOf
    BY <1>1 DEF ListsOf, ChromiumLists
  <2>2. \A h : ParseChromium("history", h) =
          Stored!Query(h, {"urls"}, DatedTexts(Stored!OrderedByTime(Stored!RowsIn(h, "urls"))), "webkit")
    BY ChromiumStores DEF ParseChromium, Chromium!ParseHistory, Chromium!Those,
      Chromium!DatedText, Chromium!Dated, Chromium!Texted, Chromium!Null, DatedTexts
  <2>3. RowsAgree(DatedTexts(Stored!OrderedByTime(Stored!RowsIn(f, "urls"))),
                  DatedTexts(Stored!OrderedByTime(Stored!RowsIn(g, "urls"))), D)
    BY <2>1, TablesAgree, SelectionsAgree, OrderedAgree
  <2> QED
    BY <1>1, <2>1, <2>2, <2>3, QueriesAgree DEF ClockNames
<1>2. CASE reader.artifact = "visits"
  <2>1. {"visits", "urls"} \subseteq ListsOf
    BY <1>2 DEF ListsOf, ChromiumLists
  <2>2. \A h : ParseChromium("visits", h) =
          Stored!Query(h, {"visits", "urls"}, DatedTexts(Stored!OrderedByTime(JoinedRows(Stored!RowsIn(h, "visits")))), "webkit")
    BY ChromiumStores DEF ParseChromium, Chromium!ParseVisits, Chromium!Those,
      Chromium!DatedText, Chromium!Dated, Chromium!Texted, Chromium!Null, Chromium!Joined,
      DatedTexts, JoinedRows
  <2>3. RowsAgree(DatedTexts(Stored!OrderedByTime(JoinedRows(Stored!RowsIn(f, "visits")))),
                  DatedTexts(Stored!OrderedByTime(JoinedRows(Stored!RowsIn(g, "visits")))), D)
    BY <2>1, TablesAgree, SelectionsAgree, OrderedAgree
  <2> QED
    BY <1>2, <2>1, <2>2, <2>3, QueriesAgree DEF ClockNames
<1>3. CASE reader.artifact = "pages"
  <2>1. {"visits", "urls"} \subseteq ListsOf
    BY <1>3 DEF ListsOf, ChromiumLists
  <2>2. \A h : Chromium!ParseVisits(h) =
          Stored!Query(h, {"visits", "urls"},
              DatedTexts(Stored!OrderedByTime(JoinedRows(Stored!RowsIn(h, "visits")))), "webkit")
    BY ChromiumStores DEF Chromium!ParseVisits, Chromium!Those, Chromium!DatedText, Chromium!Dated,
      Chromium!Texted, Chromium!Null, Chromium!Joined, DatedTexts, JoinedRows
  <2>3. RowsAgree(DatedTexts(Stored!OrderedByTime(JoinedRows(Stored!RowsIn(f, "visits")))),
                  DatedTexts(Stored!OrderedByTime(JoinedRows(Stored!RowsIn(g, "visits")))), D)
    BY <2>1, TablesAgree, SelectionsAgree, OrderedAgree
  <2>4. OutcomesAgree(Chromium!ParseVisits(f), Chromium!ParseVisits(g), D)
    BY <2>1, <2>2, <2>3, QueriesAgree DEF ClockNames
  <2>5. \A h : ParseChromium("pages", h) = Chromium!CollapseRedirects(h, Chromium!ParseVisits(h))
    BY DEF ParseChromium
  <2> QED
    BY <1>3, <2>1, <2>4, <2>5, PagesAgree
<1>4. CASE reader.artifact = "cookies"
  <2>1. {"cookies"} \subseteq ListsOf
    BY <1>4 DEF ListsOf, ChromiumLists
  <2>2. \A h : ParseChromium("cookies", h) =
          Stored!Query(h, {"cookies"}, Stored!OrderedByTime(DatedTexts(Stored!RowsIn(h, "cookies"))), "webkit")
    BY ChromiumStores DEF ParseChromium, Chromium!ParseCookies, Chromium!ParseCookieStore,
      Chromium!Those, Chromium!DatedText, Chromium!Dated, Chromium!Texted, Chromium!Null,
      DatedTexts
  <2>3. RowsAgree(Stored!OrderedByTime(DatedTexts(Stored!RowsIn(f, "cookies"))),
                  Stored!OrderedByTime(DatedTexts(Stored!RowsIn(g, "cookies"))), D)
    BY <2>1, TablesAgree, SelectionsAgree, OrderedAgree
  <2> QED
    BY <1>4, <2>1, <2>2, <2>3, QueriesAgree DEF ClockNames
<1>5. CASE reader.artifact = "extension_cookies"
  <2>1. {"cookies"} \subseteq ListsOf
    BY <1>5 DEF ListsOf, ChromiumLists
  <2>2. \A h : ParseChromium("extension_cookies", h) =
          Stored!Query(h, {"cookies"}, Stored!OrderedByTime(DatedTexts(Stored!RowsIn(h, "cookies"))), "webkit")
    BY ChromiumStores DEF ParseChromium, Chromium!ParseExtensionCookies,
      Chromium!ParseCookieStore, Chromium!Those, Chromium!DatedText, Chromium!Dated,
      Chromium!Texted, Chromium!Null, DatedTexts
  <2>3. RowsAgree(Stored!OrderedByTime(DatedTexts(Stored!RowsIn(f, "cookies"))),
                  Stored!OrderedByTime(DatedTexts(Stored!RowsIn(g, "cookies"))), D)
    BY <2>1, TablesAgree, SelectionsAgree, OrderedAgree
  <2> QED
    BY <1>5, <2>1, <2>2, <2>3, QueriesAgree DEF ClockNames
<1>6. CASE reader.artifact = "downloads"
  <2>1. {"downloads", "downloads_url_chains"} \subseteq ListsOf
    BY <1>6 DEF ListsOf, ChromiumLists
  <2>2. \A h : ParseChromium("downloads", h) =
          Stored!Query(h, {"downloads", "downloads_url_chains"}, Stored!OrderedByTime(DatedTexts(Stored!RowsIn(h, "downloads"))), "webkit")
    BY ChromiumStores DEF ParseChromium, Chromium!ParseDownloads, Chromium!Those,
      Chromium!DatedText, Chromium!Dated, Chromium!Texted, Chromium!Null, DatedTexts
  <2>3. RowsAgree(Stored!OrderedByTime(DatedTexts(Stored!RowsIn(f, "downloads"))),
                  Stored!OrderedByTime(DatedTexts(Stored!RowsIn(g, "downloads"))), D)
    BY <2>1, TablesAgree, SelectionsAgree, OrderedAgree
  <2> QED
    BY <1>6, <2>1, <2>2, <2>3, QueriesAgree DEF ClockNames
<1>7. CASE reader.artifact = "bookmarks"
  <2>0. ReadAsText
    BY <1>7 DEF ReadAsText
  <2>1. {"roots"} \subseteq ListsOf
    BY <1>7 DEF ListsOf, ChromiumLists
  <2>2. \A h : ParseChromium("bookmarks", h) =
          Stored!Walk(h, Stored!Leaves(Stored!RowsIn(h, "roots")), "webkit")
    BY ChromiumStores DEF ParseChromium, Chromium!ParseBookmarks
  <2>3. RowsAgree(Stored!Leaves(Stored!RowsIn(f, "roots")),
                  Stored!Leaves(Stored!RowsIn(g, "roots")), D)
    BY <2>1, LeavesAgree DEF Trees
  <2> QED
    BY <2>0, <1>7, <2>1, <2>2, <2>3, WalksAgree DEF ClockNames
<1>8. CASE reader.artifact = "extensions"
  <2>1. {"extensions"} \subseteq ListsOf
    BY <1>8 DEF ListsOf, ChromiumLists
  <2>2. \A h : ParseChromium("extensions", h) =
          Stored!Parsed(Stored!Events(IF h.opens THEN Stored!Decoded(Stored!RowsIn(h, "extensions")) ELSE <<>>, "unix"))
    BY ChromiumStores DEF ParseChromium, Chromium!ParseExtensions, Chromium!Listing
  <2>3. RowsAgree(Stored!Decoded(Stored!RowsIn(f, "extensions")), Stored!Decoded(Stored!RowsIn(g, "extensions")), D)
    BY <2>1, TablesAgree, DecodedAgree
  <2> QED
    BY <1>8, <2>2, <2>3, ListingsAgree DEF ClockNames
<1>9. CASE reader.artifact = "logins"
  <2>1. {"logins"} \subseteq ListsOf
    BY <1>9 DEF ListsOf, ChromiumLists
  <2>2. \A h : ParseChromium("logins", h) =
          Stored!Query(h, {"logins"}, Stored!OrderedByTime(LoginRows(Stored!RowsIn(h, "logins"))), "webkit")
    BY ChromiumStores DEF ParseChromium, Chromium!ParseLoginData, Chromium!Those,
      Chromium!Dated, Chromium!Stamped, Chromium!Texted, Chromium!Null, LoginRows
  <2>3. RowsAgree(Stored!OrderedByTime(LoginRows(Stored!RowsIn(f, "logins"))),
                  Stored!OrderedByTime(LoginRows(Stored!RowsIn(g, "logins"))), D)
    BY <2>1, TablesAgree, SelectionsAgree, OrderedAgree
  <2> QED
    BY <1>9, <2>1, <2>2, <2>3, QueriesAgree DEF ClockNames
<1>10. CASE reader.artifact = "autofill"
  <2>1. {"autofill"} \subseteq ListsOf
    BY <1>10 DEF ListsOf, ChromiumLists
  <2>2. \A h : ParseChromium("autofill", h) =
          Stored!Query(h, {"autofill"}, Stored!OrderedByTime(DatedTexts(Stored!RowsIn(h, "autofill"))), "unix")
    BY ChromiumStores DEF ParseChromium, Chromium!ParseAutofill, Chromium!Those,
      Chromium!DatedText, Chromium!Dated, Chromium!Texted, Chromium!Null, DatedTexts
  <2>3. RowsAgree(Stored!OrderedByTime(DatedTexts(Stored!RowsIn(f, "autofill"))),
                  Stored!OrderedByTime(DatedTexts(Stored!RowsIn(g, "autofill"))), D)
    BY <2>1, TablesAgree, SelectionsAgree, OrderedAgree
  <2> QED
    BY <1>10, <2>1, <2>2, <2>3, QueriesAgree DEF ClockNames
<1>11. CASE reader.artifact = "cache"
  <2>1. {"files"} \subseteq ListsOf
    BY <1>11 DEF ListsOf, ChromiumLists
  <2>2. \A h : ParseChromium("cache", h) =
          Stored!Parsed(Stored!Events(IF h.opens THEN SoundNames(Stored!RowsIn(h, "files")) ELSE <<>>, "none"))
    BY ChromiumStores DEF ParseChromium, Chromium!ParseCache, Chromium!Listing,
      Chromium!Those, Chromium!Host, Chromium!Named, SoundNames
  <2>3. RowsAgree(SoundNames(Stored!RowsIn(f, "files")), SoundNames(Stored!RowsIn(g, "files")), D)
    BY <2>1, TablesAgree, SelectionsAgree
  <2> QED
    BY <1>11, <2>2, <2>3, ListingsAgree DEF ClockNames
<1>12. CASE reader.artifact = "local_state"
  <2>0. ReadAsText
    BY <1>12 DEF ReadAsText
  <2>1. {"info_cache"} \subseteq ListsOf
    BY <1>12 DEF ListsOf, ChromiumLists
  <2>2. \A h : ParseChromium("local_state", h) =
          Stored!Walk(h, Stored!RowsIn(h, "info_cache"), "unix")
    BY ChromiumStores DEF ParseChromium, Chromium!ParseLocalState
  <2>3. RowsAgree(Stored!RowsIn(f, "info_cache"), Stored!RowsIn(g, "info_cache"), D)
    BY <2>1, TablesAgree
  <2> QED
    BY <2>0, <1>12, <2>1, <2>2, <2>3, WalksAgree DEF ClockNames
<1>13. CASE reader.artifact = "preferences"
  <2>0. ReadAsText
    BY <1>13 DEF ReadAsText
  <2>1. {"scalars", "times", "account_info", "startup_urls"} \subseteq ListsOf
    BY <1>13 DEF ListsOf, ChromiumLists
  <2>2. OutcomesAgree(Stored!Walk(f, Stored!RowsIn(f, "scalars"), "none"),
                      Stored!Walk(g, Stored!RowsIn(g, "scalars"), "none"), D)
    <3>1. RowsAgree(Stored!RowsIn(f, "scalars"), Stored!RowsIn(g, "scalars"), D)
      BY <2>1, TablesAgree
    <3> QED  BY <2>0, <2>1, <3>1, WalksAgree DEF ClockNames
  <2>3. OutcomesAgree(Stored!Walk(f, StampedRows(Stored!RowsIn(f, "times")), "webkit"),
                      Stored!Walk(g, StampedRows(Stored!RowsIn(g, "times")), "webkit"), D)
    <3>1. RowsAgree(StampedRows(Stored!RowsIn(f, "times")), StampedRows(Stored!RowsIn(g, "times")), D)
      BY <2>1, TablesAgree, SelectionsAgree
    <3> QED  BY <2>0, <2>1, <3>1, WalksAgree DEF ClockNames
  <2>4. OutcomesAgree(Stored!Walk(f, UnstampedRows(Stored!RowsIn(f, "times")), "none"),
                      Stored!Walk(g, UnstampedRows(Stored!RowsIn(g, "times")), "none"), D)
    <3>1. RowsAgree(UnstampedRows(Stored!RowsIn(f, "times")), UnstampedRows(Stored!RowsIn(g, "times")), D)
      BY <2>1, TablesAgree, SelectionsAgree
    <3> QED  BY <2>0, <2>1, <3>1, WalksAgree DEF ClockNames
  <2>5. OutcomesAgree(Stored!Walk(f, Stored!RowsIn(f, "account_info"), "none"),
                      Stored!Walk(g, Stored!RowsIn(g, "account_info"), "none"), D)
    <3>1. RowsAgree(Stored!RowsIn(f, "account_info"), Stored!RowsIn(g, "account_info"), D)
      BY <2>1, TablesAgree
    <3> QED  BY <2>0, <2>1, <3>1, WalksAgree DEF ClockNames
  <2>6. OutcomesAgree(Stored!Walk(f, Stored!Decoded(Stored!RowsIn(f, "startup_urls")), "none"),
                      Stored!Walk(g, Stored!Decoded(Stored!RowsIn(g, "startup_urls")), "none"), D)
    <3>1. RowsAgree(Stored!Decoded(Stored!RowsIn(f, "startup_urls")), Stored!Decoded(Stored!RowsIn(g, "startup_urls")), D)
      BY <2>1, TablesAgree, DecodedAgree
    <3> QED  BY <2>0, <2>1, <3>1, WalksAgree DEF ClockNames
  <2>7. \A h : ParseChromium("preferences", h) =
          Stored!Then(Stored!Then(Stored!Walk(h, Stored!RowsIn(h, "scalars"), "none"),
              Stored!Then(Stored!Walk(h, StampedRows(Stored!RowsIn(h, "times")), "webkit"),
              Stored!Walk(h, UnstampedRows(Stored!RowsIn(h, "times")), "none"))),
              Stored!Then(Stored!Walk(h, Stored!RowsIn(h, "account_info"), "none"),
              Stored!Walk(h, Stored!Decoded(Stored!RowsIn(h, "startup_urls")), "none")))
    BY ChromiumStores DEF ParseChromium, Chromium!ParsePreferences, Chromium!TimePrefs,
      Chromium!Those, Chromium!Stamped, Chromium!Null, StampedRows, UnstampedRows
  <2> QED
    BY <1>13, <2>2, <2>3, <2>4, <2>5, <2>6, <2>7, BothAgree
<1>14. CASE reader.artifact = "permissions"
  <2>0. ReadAsText
    BY <1>14 DEF ReadAsText
  <2>1. {"exceptions"} \subseteq ListsOf
    BY <1>14 DEF ListsOf, ChromiumLists
  <2>2. \A h : ParseChromium("permissions", h) =
          Stored!Walk(h, Stored!RowsIn(h, "exceptions"), "webkit_if_any")
    BY ChromiumStores DEF ParseChromium, Chromium!ParsePermissions
  <2>3. RowsAgree(Stored!RowsIn(f, "exceptions"), Stored!RowsIn(g, "exceptions"), D)
    BY <2>1, TablesAgree
  <2> QED
    BY <2>0, <1>14, <2>1, <2>2, <2>3, WalksAgree DEF ClockNames
<1>15. CASE reader.artifact = "tabs"
  <2>1. {"tabs"} \subseteq ListsOf
    BY <1>15 DEF ListsOf, ChromiumLists
  <2>2. \A h : ParseChromium("tabs", h) =
          Stored!WalkBytes(h, JoinedRows(Stored!RowsIn(h, "tabs")), "unix")
    BY ChromiumStores DEF ParseChromium, Chromium!ParseSession, Chromium!Those,
      Chromium!Joined, JoinedRows
  <2>3. RowsAgree(JoinedRows(Stored!RowsIn(f, "tabs")), JoinedRows(Stored!RowsIn(g, "tabs")), D)
    BY <2>1, TablesAgree, SelectionsAgree
  <2> QED
    BY <1>15, <2>1, <2>2, <2>3, ByteWalksAgree DEF ClockNames
<1>16. CASE reader.artifact = "credentials"
  <2>1. {"credit_cards", "masked_credit_cards", "token_service", "autofill_profiles"} \subseteq ListsOf
    BY <1>16 DEF ListsOf, ChromiumLists
  <2>2. ASSUME NEW l \in ListsOf, NEW x, NEW y, OutcomesAgree(x, y, D)
        PROVE  OutcomesAgree(Chromium!IfThere(f, l, x), Chromium!IfThere(g, l, y), D)
    <3>1. OutcomesAgree(Stored!Parsed(<<>>), Stored!Parsed(<<>>), D)
      BY NoRowsAgree, ParsedAgree
    <3>2. PICK state : f.lists[l].state = state /\ g.lists[l].state = state
      BY DEF FilesAgree
    <3>3. /\ Chromium!IfThere(f, l, x) = (IF state = "absent" THEN Stored!Parsed(<<>>) ELSE x)
          /\ Chromium!IfThere(g, l, y) = (IF state = "absent" THEN Stored!Parsed(<<>>) ELSE y)
      BY <3>2, ChromiumStores DEF Chromium!IfThere
    <3> QED  BY <2>2, <3>1, <3>3, Zenon
  <2>3. OutcomesAgree(Chromium!ParseCreditCards(f), Chromium!ParseCreditCards(g), D)
    <3>1. \A h : Chromium!ParseCreditCards(h) =
              Stored!Query(h, {"credit_cards"}, StampedRows(Stored!RowsIn(h, "credit_cards")), "webkit")
      BY ChromiumStores DEF Chromium!ParseCreditCards, Chromium!Those, Chromium!Stamped,
        Chromium!Null, StampedRows
    <3>2. RowsAgree(StampedRows(Stored!RowsIn(f, "credit_cards")), StampedRows(Stored!RowsIn(g, "credit_cards")), D)
      BY <2>1, TablesAgree, SelectionsAgree
    <3> QED  BY <2>1, <3>1, <3>2, QueriesAgree DEF ClockNames
  <2>4. OutcomesAgree(Chromium!ParseMaskedCreditCards(f), Chromium!ParseMaskedCreditCards(g), D)
    <3>1. \A h : Chromium!ParseMaskedCreditCards(h) =
              Stored!Query(h, {"masked_credit_cards"}, Stored!RowsIn(h, "masked_credit_cards"), "none")
      BY ChromiumStores DEF Chromium!ParseMaskedCreditCards
    <3>2. RowsAgree(Stored!RowsIn(f, "masked_credit_cards"), Stored!RowsIn(g, "masked_credit_cards"), D)
      BY <2>1, TablesAgree
    <3> QED  BY <2>1, <3>1, <3>2, QueriesAgree DEF ClockNames
  <2>5. OutcomesAgree(Chromium!ParseTokenService(f), Chromium!ParseTokenService(g), D)
    <3>1. \A h : Chromium!ParseTokenService(h) =
              Stored!Query(h, {"token_service"}, TextedRows(Stored!RowsIn(h, "token_service")), "none")
      BY ChromiumStores DEF Chromium!ParseTokenService, Chromium!Those, Chromium!Texted,
        Chromium!Null, TextedRows
    <3>2. RowsAgree(TextedRows(Stored!RowsIn(f, "token_service")), TextedRows(Stored!RowsIn(g, "token_service")), D)
      BY <2>1, TablesAgree, SelectionsAgree
    <3> QED  BY <2>1, <3>1, <3>2, QueriesAgree DEF ClockNames
  <2>6. OutcomesAgree(Chromium!ParseAutofillProfiles(f), Chromium!ParseAutofillProfiles(g), D)
    <3>1. \A h : Chromium!ParseAutofillProfiles(h) =
              Stored!Query(h, {"autofill_profiles"}, StampedTexts(Stored!RowsIn(h, "autofill_profiles")), "webkit")
      BY ChromiumStores DEF Chromium!ParseAutofillProfiles, Chromium!Those,
        Chromium!Texted, Chromium!Stamped, Chromium!Null, StampedTexts
    <3>2. RowsAgree(StampedTexts(Stored!RowsIn(f, "autofill_profiles")), StampedTexts(Stored!RowsIn(g, "autofill_profiles")), D)
      BY <2>1, TablesAgree, SelectionsAgree
    <3> QED  BY <2>1, <3>1, <3>2, QueriesAgree DEF ClockNames
  <2>7. PICK x1, x2, x3, x4, y1, y2, y3, y4 :
          /\ x1 = Chromium!IfThere(f, "credit_cards", Chromium!ParseCreditCards(f))
          /\ y1 = Chromium!IfThere(g, "credit_cards", Chromium!ParseCreditCards(g))
          /\ x2 = Chromium!IfThere(f, "masked_credit_cards", Chromium!ParseMaskedCreditCards(f))
          /\ y2 = Chromium!IfThere(g, "masked_credit_cards", Chromium!ParseMaskedCreditCards(g))
          /\ x3 = Chromium!IfThere(f, "token_service", Chromium!ParseTokenService(f))
          /\ y3 = Chromium!IfThere(g, "token_service", Chromium!ParseTokenService(g))
          /\ x4 = Chromium!IfThere(f, "autofill_profiles", Chromium!ParseAutofillProfiles(f))
          /\ y4 = Chromium!IfThere(g, "autofill_profiles", Chromium!ParseAutofillProfiles(g))
    OBVIOUS
  <2>8. /\ OutcomesAgree(x1, y1, D) /\ OutcomesAgree(x2, y2, D)
        /\ OutcomesAgree(x3, y3, D) /\ OutcomesAgree(x4, y4, D)
    BY <2>1, <2>2, <2>3, <2>4, <2>5, <2>6, <2>7
  <2>9. OutcomesAgree(Stored!Then(Stored!Then(Stored!Then(x1, x2), x3), x4),
                      Stored!Then(Stored!Then(Stored!Then(y1, y2), y3), y4), D)
    BY <2>8, BothAgree
  <2>10. OutcomesAgree(Stored!Failed, Stored!Failed, D)
    BY FailedAgree
  <2>11. PICK opens \in BOOLEAN : f.opens = opens /\ g.opens = opens
    BY DEF FilesAgree
  <2>12. /\ ParseChromium("credentials", f) =
                (IF opens THEN Stored!Then(Stored!Then(Stored!Then(x1, x2), x3), x4) ELSE Stored!Failed)
         /\ ParseChromium("credentials", g) =
                (IF opens THEN Stored!Then(Stored!Then(Stored!Then(y1, y2), y3), y4) ELSE Stored!Failed)
    BY <2>7, <2>11, ChromiumStores DEF ParseChromium, Chromium!ParseWebData
  <2> QED  BY <1>16, <2>9, <2>10, <2>12, Zenon
<1>17. CASE reader.artifact = "favicons"
  <2>1. {"icon_mapping", "favicons", "favicon_bitmaps"} \subseteq ListsOf
    BY <1>17 DEF ListsOf, ChromiumLists
  <2>2. \A h : ParseChromium("favicons", h) =
          Stored!QueryIfAny(h, {"icon_mapping", "favicons", "favicon_bitmaps"}, Stored!OrderedByTime(JoinedNames(Stored!RowsIn(h, "icon_mapping"))), "webkit_if_any")
    BY ChromiumStores DEF ParseChromium, Chromium!ParseFavicons, Chromium!Those,
      Chromium!Joined, Chromium!Named, JoinedNames
  <2>3. RowsAgree(Stored!OrderedByTime(JoinedNames(Stored!RowsIn(f, "icon_mapping"))),
                  Stored!OrderedByTime(JoinedNames(Stored!RowsIn(g, "icon_mapping"))), D)
    BY <2>1, TablesAgree, SelectionsAgree, OrderedAgree
  <2> QED
    BY <1>17, <2>1, <2>2, <2>3, QueriesAgree DEF ClockNames
<1>18. CASE reader.artifact = "top_sites"
  <2>1. {"top_sites"} \subseteq ListsOf
    BY <1>18 DEF ListsOf, ChromiumLists
  <2>2. \A h : ParseChromium("top_sites", h) =
          Stored!QueryIfAny(h, {"top_sites"}, NamedRows(Stored!RowsIn(h, "top_sites")), "none")
    BY ChromiumStores DEF ParseChromium, Chromium!ParseTopSites, Chromium!Those,
      Chromium!Named, NamedRows
  <2>3. RowsAgree(NamedRows(Stored!RowsIn(f, "top_sites")),
                  NamedRows(Stored!RowsIn(g, "top_sites")), D)
    BY <2>1, TablesAgree, SelectionsAgree
  <2> QED
    BY <1>18, <2>1, <2>2, <2>3, QueriesAgree DEF ClockNames
<1>19. CASE reader.artifact = "shortcuts"
  <2>1. {"omni_box_shortcuts"} \subseteq ListsOf
    BY <1>19 DEF ListsOf, ChromiumLists
  <2>2. \A h : ParseChromium("shortcuts", h) =
          Stored!QueryIfAny(h, {"omni_box_shortcuts"}, Stored!OrderedByTime(NamedRows(Stored!RowsIn(h, "omni_box_shortcuts"))), "webkit_if_any")
    BY ChromiumStores DEF ParseChromium, Chromium!ParseShortcuts, Chromium!Those,
      Chromium!Named, NamedRows
  <2>3. RowsAgree(Stored!OrderedByTime(NamedRows(Stored!RowsIn(f, "omni_box_shortcuts"))),
                  Stored!OrderedByTime(NamedRows(Stored!RowsIn(g, "omni_box_shortcuts"))), D)
    BY <2>1, TablesAgree, SelectionsAgree, OrderedAgree
  <2> QED
    BY <1>19, <2>1, <2>2, <2>3, QueriesAgree DEF ClockNames
<1>20. CASE reader.artifact = "predictor"
  <2>1. {"network_action_predictor"} \subseteq ListsOf
    BY <1>20 DEF ListsOf, ChromiumLists
  <2>2. \A h : ParseChromium("predictor", h) =
          Stored!QueryIfAny(h, {"network_action_predictor"}, NamedRows(Stored!RowsIn(h, "network_action_predictor")), "none")
    BY ChromiumStores DEF ParseChromium, Chromium!ParseNetworkActionPredictor,
      Chromium!Those, Chromium!Named, NamedRows
  <2>3. RowsAgree(NamedRows(Stored!RowsIn(f, "network_action_predictor")),
                  NamedRows(Stored!RowsIn(g, "network_action_predictor")), D)
    BY <2>1, TablesAgree, SelectionsAgree
  <2> QED
    BY <1>20, <2>1, <2>2, <2>3, QueriesAgree DEF ClockNames
<1>21. CASE reader.artifact = "media_history"
  <2>1. {"playback", "playbackSession", "origin"} \subseteq ListsOf
    BY <1>21 DEF ListsOf, ChromiumLists
  <2>2. OutcomesAgree(Stored!QueryIfAny(f, {"playback"}, NamedRows(Stored!RowsIn(f, "playback")), "webkit_if_any"),
                      Stored!QueryIfAny(g, {"playback"}, NamedRows(Stored!RowsIn(g, "playback")), "webkit_if_any"), D)
    <3>1. RowsAgree(NamedRows(Stored!RowsIn(f, "playback")), NamedRows(Stored!RowsIn(g, "playback")), D)
      BY <2>1, TablesAgree, SelectionsAgree
    <3> QED  BY <2>1, <3>1, QueriesAgree DEF ClockNames
  <2>3. OutcomesAgree(Stored!QueryIfAny(f, {"playbackSession"}, NamedRows(Stored!RowsIn(f, "playbackSession")), "webkit_if_any"),
                      Stored!QueryIfAny(g, {"playbackSession"}, NamedRows(Stored!RowsIn(g, "playbackSession")), "webkit_if_any"), D)
    <3>1. RowsAgree(NamedRows(Stored!RowsIn(f, "playbackSession")), NamedRows(Stored!RowsIn(g, "playbackSession")), D)
      BY <2>1, TablesAgree, SelectionsAgree
    <3> QED  BY <2>1, <3>1, QueriesAgree DEF ClockNames
  <2>4. OutcomesAgree(Stored!QueryIfAny(f, {"origin"}, NamedRows(Stored!RowsIn(f, "origin")), "webkit_if_any"),
                      Stored!QueryIfAny(g, {"origin"}, NamedRows(Stored!RowsIn(g, "origin")), "webkit_if_any"), D)
    <3>1. RowsAgree(NamedRows(Stored!RowsIn(f, "origin")), NamedRows(Stored!RowsIn(g, "origin")), D)
      BY <2>1, TablesAgree, SelectionsAgree
    <3> QED  BY <2>1, <3>1, QueriesAgree DEF ClockNames
  <2>5. \A h : ParseChromium("media_history", h) =
          Stored!Then(Stored!Then(Stored!QueryIfAny(h, {"playback"}, NamedRows(Stored!RowsIn(h, "playback")), "webkit_if_any"),
              Stored!QueryIfAny(h, {"playbackSession"}, NamedRows(Stored!RowsIn(h, "playbackSession")), "webkit_if_any")),
              Stored!QueryIfAny(h, {"origin"}, NamedRows(Stored!RowsIn(h, "origin")), "webkit_if_any"))
    BY ChromiumStores DEF ParseChromium, Chromium!ParseMediaHistory,
      Chromium!PlaybackEvents, Chromium!SessionEvents, Chromium!OriginEvents,
      Chromium!Those, Chromium!Named, NamedRows
  <2> QED
    BY <1>21, <2>2, <2>3, <2>4, <2>5, BothAgree
<1>22. CASE reader.artifact = "dips"
  <2>1. {"bounces"} \subseteq ListsOf
    BY <1>22 DEF ListsOf, ChromiumLists
  <2>2. \A h : ParseChromium("dips", h) =
          Stored!Query(h, {"bounces"}, NamedRows(Stored!RowsIn(h, "bounces")), "webkit_if_any")
    BY ChromiumStores DEF ParseChromium, Chromium!ParseDips, Chromium!Those,
      Chromium!Named, NamedRows
  <2>3. RowsAgree(NamedRows(Stored!RowsIn(f, "bounces")),
                  NamedRows(Stored!RowsIn(g, "bounces")), D)
    BY <2>1, TablesAgree, SelectionsAgree
  <2> QED
    BY <1>22, <2>1, <2>2, <2>3, QueriesAgree DEF ClockNames
<1>23. CASE reader.artifact = "nel"
  <2>1. {"nel_policies", "reporting_endpoints"} \subseteq ListsOf
    BY <1>23 DEF ListsOf, ChromiumLists
  <2>2. OutcomesAgree(Stored!QueryIfAny(f, {"nel_policies"}, NamedRows(Stored!RowsIn(f, "nel_policies")), "webkit"),
                      Stored!QueryIfAny(g, {"nel_policies"}, NamedRows(Stored!RowsIn(g, "nel_policies")), "webkit"), D)
    <3>1. RowsAgree(NamedRows(Stored!RowsIn(f, "nel_policies")), NamedRows(Stored!RowsIn(g, "nel_policies")), D)
      BY <2>1, TablesAgree, SelectionsAgree
    <3> QED  BY <2>1, <3>1, QueriesAgree DEF ClockNames
  <2>3. OutcomesAgree(Stored!QueryIfAny(f, {"reporting_endpoints"}, NamedRows(Stored!RowsIn(f, "reporting_endpoints")), "none"),
                      Stored!QueryIfAny(g, {"reporting_endpoints"}, NamedRows(Stored!RowsIn(g, "reporting_endpoints")), "none"), D)
    <3>1. RowsAgree(NamedRows(Stored!RowsIn(f, "reporting_endpoints")), NamedRows(Stored!RowsIn(g, "reporting_endpoints")), D)
      BY <2>1, TablesAgree, SelectionsAgree
    <3> QED  BY <2>1, <3>1, QueriesAgree DEF ClockNames
  <2>4. \A h : ParseChromium("nel", h) =
          Stored!Then(Stored!QueryIfAny(h, {"nel_policies"}, NamedRows(Stored!RowsIn(h, "nel_policies")), "webkit"),
              Stored!QueryIfAny(h, {"reporting_endpoints"}, NamedRows(Stored!RowsIn(h, "reporting_endpoints")), "none"))
    BY ChromiumStores DEF ParseChromium, Chromium!ParseNelSqlite, Chromium!Those,
      Chromium!Named, NamedRows
  <2> QED
    BY <1>23, <2>2, <2>3, <2>4, BothAgree
<1>24. CASE reader.artifact = "nel_json"
  <2>0. ReadAsText
    BY <1>24 DEF ReadAsText
  <2>1. {"policies", "endpoints"} \subseteq ListsOf
    BY <1>24 DEF ListsOf, ChromiumLists
  <2>2. \A h : ParseChromium("nel_json", h) =
          Stored!Walk(h, SoundNames(Stored!RowsIn(h, "policies")) \o SoundNames(Stored!RowsIn(h, "endpoints")), "none")
    BY ChromiumStores DEF ParseChromium, Chromium!ParseNelJson, Chromium!Those,
      Chromium!Host, Chromium!Named, SoundNames
  <2>3. RowsAgree(SoundNames(Stored!RowsIn(f, "policies")) \o SoundNames(Stored!RowsIn(f, "endpoints")),
                  SoundNames(Stored!RowsIn(g, "policies")) \o SoundNames(Stored!RowsIn(g, "endpoints")), D)
    BY <2>1, TablesAgree, SelectionsAgree, ChainedRowsAgree
  <2> QED
    BY <2>0, <1>24, <2>1, <2>2, <2>3, WalksAgree DEF ClockNames
<1>25. CASE reader.artifact = "network_state"
  <2>0. ReadAsText
    BY <1>25 DEF ReadAsText
  <2>1. {"servers", "broken_alternative_services"} \subseteq ListsOf
    BY <1>25 DEF ListsOf, ChromiumLists
  <2>2. OutcomesAgree(Stored!Walk(f, SoundNames(Stored!RowsIn(f, "servers")), "none"),
                      Stored!Walk(g, SoundNames(Stored!RowsIn(g, "servers")), "none"), D)
    <3>1. RowsAgree(SoundNames(Stored!RowsIn(f, "servers")), SoundNames(Stored!RowsIn(g, "servers")), D)
      BY <2>1, TablesAgree, SelectionsAgree
    <3> QED  BY <2>0, <2>1, <3>1, WalksAgree DEF ClockNames
  <2>3. OutcomesAgree(Stored!Walk(f, SoundNames(Stored!RowsIn(f, "broken_alternative_services")), "unix"),
                      Stored!Walk(g, SoundNames(Stored!RowsIn(g, "broken_alternative_services")), "unix"), D)
    <3>1. RowsAgree(SoundNames(Stored!RowsIn(f, "broken_alternative_services")), SoundNames(Stored!RowsIn(g, "broken_alternative_services")), D)
      BY <2>1, TablesAgree, SelectionsAgree
    <3> QED  BY <2>0, <2>1, <3>1, WalksAgree DEF ClockNames
  <2>4. \A h : ParseChromium("network_state", h) =
          Stored!Then(Stored!Walk(h, SoundNames(Stored!RowsIn(h, "servers")), "none"),
              Stored!Walk(h, SoundNames(Stored!RowsIn(h, "broken_alternative_services")), "unix"))
    BY ChromiumStores DEF ParseChromium, Chromium!ParseNetworkPersistentState,
      Chromium!Those, Chromium!Host, Chromium!Named, SoundNames
  <2> QED
    BY <1>25, <2>2, <2>3, <2>4, BothAgree
<1>26. CASE reader.artifact = "transport_security"
  <2>0. ReadAsText
    BY <1>26 DEF ReadAsText
  <2>1. {"sts", "root"} \subseteq ListsOf
    BY <1>26 DEF ListsOf, ChromiumLists
  <2>2. OutcomesAgree(Stored!Walk(f, SoundTexts(Stored!RowsIn(f, "sts")), "unix_unchecked"),
                      Stored!Walk(g, SoundTexts(Stored!RowsIn(g, "sts")), "unix_unchecked"), D)
    <3>1. RowsAgree(SoundTexts(Stored!RowsIn(f, "sts")), SoundTexts(Stored!RowsIn(g, "sts")), D)
      BY <2>1, TablesAgree, SelectionsAgree
    <3> QED  BY <2>0, <2>1, <3>1, WalksAgree DEF ClockNames
  <2>3. OutcomesAgree(Stored!Walk(f, Stored!Decoded(Stored!RowsIn(f, "root")), "unix_unchecked"),
                      Stored!Walk(g, Stored!Decoded(Stored!RowsIn(g, "root")), "unix_unchecked"), D)
    <3>1. RowsAgree(Stored!Decoded(Stored!RowsIn(f, "root")), Stored!Decoded(Stored!RowsIn(g, "root")), D)
      BY <2>1, TablesAgree, DecodedAgree
    <3> QED  BY <2>0, <2>1, <3>1, WalksAgree DEF ClockNames
  <2>4. PICK here \in BOOLEAN : Stored!Here(f, "sts") = here /\ Stored!Here(g, "sts") = here
    BY <2>1, TablesAgree
  <2>5. /\ \A l \in {"sts", "root"} : Stored!RowsIn(f, l) \in Seq(TableRow)
        /\ \A l \in {"sts", "root"} : Stored!RowsIn(g, l) \in Seq(TableRow)
    BY <2>1, TablesAgree DEF RowsAgree
  <2>6. ASSUME NEW h, ~MayOverflow(h),
               \A l \in {"sts", "root"} : Stored!RowsIn(h, l) \in Seq(TableRow)
        PROVE  \A x : /\ Stored!Unchecked(SoundTexts(Stored!RowsIn(h, "sts")), x) = x
                      /\ Stored!Unchecked(Stored!Decoded(Stored!RowsIn(h, "root")), x) = x
    <3>1. PICK r, d : r = Stored!RowsIn(h, "sts") /\ d = Stored!RowsIn(h, "root")
      OBVIOUS
    <3>2. PICK K, L : /\ K = {k \in DOMAIN r : r[k].sound /\ r[k].key # -1}
                      /\ L = {k \in DOMAIN d : d[k].sound}
      OBVIOUS
    <3>3. SoundTexts(r) = Picked(r, K) /\ Stored!Decoded(d) = Picked(d, L)
      BY <3>2, SortsAre DEF SoundTexts, Stored!Decoded, Stored!Those
    <3>4. \A x : Stored!Unchecked(Picked(r, K), x) = x
      BY <1>26, <2>1, <2>6, <3>1, <3>2, NothingOverflows
    <3>5. \A x : Stored!Unchecked(Picked(d, L), x) = x
      BY <1>26, <2>1, <2>6, <3>1, <3>2, NothingOverflows
    <3> QED  BY <3>1, <3>3, <3>4, <3>5
  <2>7. /\ \A x : Stored!Unchecked(SoundTexts(Stored!RowsIn(f, "sts")), x) = x
        /\ \A x : Stored!Unchecked(SoundTexts(Stored!RowsIn(g, "sts")), x) = x
        /\ \A x : Stored!Unchecked(Stored!Decoded(Stored!RowsIn(f, "root")), x) = x
        /\ \A x : Stored!Unchecked(Stored!Decoded(Stored!RowsIn(g, "root")), x) = x
    BY <2>5, <2>6 DEF FilesAgree
  <2>8. \A h : Chromium!PinnedHosts(h) =
          IF Stored!Here(h, "sts") THEN SoundTexts(Stored!RowsIn(h, "sts"))
          ELSE Stored!Decoded(Stored!RowsIn(h, "root"))
    BY ChromiumStores DEF Chromium!PinnedHosts, Chromium!Those, Chromium!Texted, Chromium!Null,
      SoundTexts
  <2>9. \A h : ParseChromium("transport_security", h) =
          Stored!Unchecked(Chromium!PinnedHosts(h),
                           Stored!Walk(h, Chromium!PinnedHosts(h), "unix_unchecked"))
    BY ChromiumStores DEF ParseChromium, Chromium!ParseTransportSecurity
  <2>10. CASE here
    <3>1. /\ Chromium!PinnedHosts(f) = SoundTexts(Stored!RowsIn(f, "sts"))
          /\ Chromium!PinnedHosts(g) = SoundTexts(Stored!RowsIn(g, "sts"))
      BY <2>4, <2>8, <2>10
    <3> QED  BY <1>26, <2>2, <2>7, <2>9, <3>1
  <2>11. CASE ~here
    <3>1. /\ Chromium!PinnedHosts(f) = Stored!Decoded(Stored!RowsIn(f, "root"))
          /\ Chromium!PinnedHosts(g) = Stored!Decoded(Stored!RowsIn(g, "root"))
      BY <2>4, <2>8, <2>11
    <3> QED  BY <1>26, <2>3, <2>7, <2>9, <3>1
  <2> QED  BY <2>10, <2>11
<1> QED
  BY <1>1, <1>2, <1>3, <1>4, <1>5, <1>6, <1>7, <1>8, <1>9, <1>10, <1>11, <1>12, <1>13,
     <1>14, <1>15, <1>16, <1>17, <1>18, <1>19, <1>20, <1>21, <1>22, <1>23, <1>24, <1>25,
     <1>26 DEF ChromiumLists

\* And each of a Firefox profile but the recovery, which compares rows.
LEMMA FirefoxAgrees ==
    ASSUME reader.family = "Firefox", reader.artifact \in DOMAIN FirefoxLists \ {"deleted_bookmarks"},
           NEW f, NEW g, NEW D, FilesAgree(f, g, D)
    PROVE  OutcomesAgree(ParseFirefox(reader.artifact, f), ParseFirefox(reader.artifact, g), D)
<1>1. CASE reader.artifact = "history"
  <2>1. {"moz_places"} \subseteq ListsOf
    BY <1>1 DEF ListsOf, FirefoxLists
  <2>2. \A h : ParseFirefox("history", h) =
          Stored!Query(h, {"moz_places"}, Stored!OrderedByTime(StampedTexts(Stored!RowsIn(h, "moz_places"))), "unix")
    BY FirefoxStores DEF ParseFirefox, Firefox!ParseHistory, Firefox!Those,
      Firefox!Stamped, Firefox!Texted, Firefox!Null, StampedTexts
  <2>3. RowsAgree(Stored!OrderedByTime(StampedTexts(Stored!RowsIn(f, "moz_places"))),
                  Stored!OrderedByTime(StampedTexts(Stored!RowsIn(g, "moz_places"))), D)
    BY <2>1, TablesAgree, SelectionsAgree, OrderedAgree
  <2> QED
    BY <1>1, <2>1, <2>2, <2>3, QueriesAgree DEF ClockNames
<1>2. CASE reader.artifact = "visits"
  <2>1. {"moz_historyvisits", "moz_places"} \subseteq ListsOf
    BY <1>2 DEF ListsOf, FirefoxLists
  <2>2. \A h : ParseFirefox("visits", h) =
          Stored!Query(h, {"moz_historyvisits", "moz_places"}, DatedRows(Stored!OrderedByTime(JoinedTexts(Stored!RowsIn(h, "moz_historyvisits")))), "unix")
    BY FirefoxStores DEF ParseFirefox, Firefox!ParseVisits, Firefox!Those, Firefox!Address,
      Firefox!Joined, Firefox!Texted, Firefox!Null, Firefox!Dated, DatedRows, JoinedTexts
  <2>3. RowsAgree(DatedRows(Stored!OrderedByTime(JoinedTexts(Stored!RowsIn(f, "moz_historyvisits")))),
                  DatedRows(Stored!OrderedByTime(JoinedTexts(Stored!RowsIn(g, "moz_historyvisits")))), D)
    BY <2>1, TablesAgree, SelectionsAgree, OrderedAgree
  <2> QED
    BY <1>2, <2>1, <2>2, <2>3, QueriesAgree DEF ClockNames
<1>3. CASE reader.artifact = "cookies"
  <2>1. {"moz_cookies"} \subseteq ListsOf
    BY <1>3 DEF ListsOf, FirefoxLists
  <2>2. \A h : ParseFirefox("cookies", h) =
          Stored!Query(h, {"moz_cookies"}, Stored!OrderedByTime(DatedTexts(Stored!RowsIn(h, "moz_cookies"))), "unix")
    BY FirefoxStores DEF ParseFirefox, Firefox!ParseCookies, Firefox!Those,
      Firefox!DatedText, Firefox!Dated, Firefox!Texted, Firefox!Null, DatedTexts
  <2>3. RowsAgree(Stored!OrderedByTime(DatedTexts(Stored!RowsIn(f, "moz_cookies"))),
                  Stored!OrderedByTime(DatedTexts(Stored!RowsIn(g, "moz_cookies"))), D)
    BY <2>1, TablesAgree, SelectionsAgree, OrderedAgree
  <2> QED
    BY <1>3, <2>1, <2>2, <2>3, QueriesAgree DEF ClockNames
<1>4. CASE reader.artifact = "autofill"
  <2>1. {"moz_formhistory"} \subseteq ListsOf
    BY <1>4 DEF ListsOf, FirefoxLists
  <2>2. \A h : ParseFirefox("autofill", h) =
          Stored!Query(h, {"moz_formhistory"}, Stored!OrderedByTime(DatedTexts(Stored!RowsIn(h, "moz_formhistory"))), "unix")
    BY FirefoxStores DEF ParseFirefox, Firefox!ParseAutofill, Firefox!Those,
      Firefox!DatedText, Firefox!Dated, Firefox!Texted, Firefox!Null, DatedTexts
  <2>3. RowsAgree(Stored!OrderedByTime(DatedTexts(Stored!RowsIn(f, "moz_formhistory"))),
                  Stored!OrderedByTime(DatedTexts(Stored!RowsIn(g, "moz_formhistory"))), D)
    BY <2>1, TablesAgree, SelectionsAgree, OrderedAgree
  <2> QED
    BY <1>4, <2>1, <2>2, <2>3, QueriesAgree DEF ClockNames
<1>5. CASE reader.artifact = "bookmarks"
  <2>1. {"moz_bookmarks", "moz_places"} \subseteq ListsOf
    BY <1>5 DEF ListsOf, FirefoxLists
  <2>2. \A h : ParseFirefox("bookmarks", h) =
          Stored!Query(h, {"moz_bookmarks", "moz_places"}, Stored!OrderedByTime(BookmarkRows(Stored!RowsIn(h, "moz_bookmarks"))), "unix")
    BY FirefoxStores DEF ParseFirefox, Firefox!ParseBookmarks, Firefox!Those,
      Firefox!Address, Firefox!Joined, Firefox!Texted, Firefox!Null, Firefox!Dated,
      BookmarkRows
  <2>3. RowsAgree(Stored!OrderedByTime(BookmarkRows(Stored!RowsIn(f, "moz_bookmarks"))),
                  Stored!OrderedByTime(BookmarkRows(Stored!RowsIn(g, "moz_bookmarks"))), D)
    BY <2>1, TablesAgree, SelectionsAgree, OrderedAgree
  <2> QED
    BY <1>5, <2>1, <2>2, <2>3, QueriesAgree DEF ClockNames
<1>6. CASE reader.artifact = "downloads"
  <2>1. {"moz_annos", "moz_places", "moz_anno_attributes"} \subseteq ListsOf
    BY <1>6 DEF ListsOf, FirefoxLists
  <2>2. \A h : ParseFirefox("downloads", h) =
          Stored!Query(h, {"moz_annos", "moz_places", "moz_anno_attributes"}, Stored!OrderedByTime(DownloadRows(Stored!RowsIn(h, "moz_annos"))), "unix")
    BY FirefoxStores DEF ParseFirefox, Firefox!ParseDownloads, Firefox!Those,
      Firefox!Address, Firefox!Joined, Firefox!Texted, Firefox!Null, Firefox!Stamped,
      DownloadRows
  <2>3. RowsAgree(Stored!OrderedByTime(DownloadRows(Stored!RowsIn(f, "moz_annos"))),
                  Stored!OrderedByTime(DownloadRows(Stored!RowsIn(g, "moz_annos"))), D)
    BY <2>1, TablesAgree, SelectionsAgree, OrderedAgree
  <2> QED
    BY <1>6, <2>1, <2>2, <2>3, QueriesAgree DEF ClockNames
<1>7. CASE reader.artifact = "annotations"
  <2>1. {"moz_annos", "moz_places", "moz_anno_attributes"} \subseteq ListsOf
    BY <1>7 DEF ListsOf, FirefoxLists
  <2>2. \A h : ParseFirefox("annotations", h) =
          Stored!Query(h, {"moz_annos", "moz_places", "moz_anno_attributes"}, Stored!OrderedByTime(JoinedTexts(Stored!RowsIn(h, "moz_annos"))), "unix")
    BY FirefoxStores DEF ParseFirefox, Firefox!ParseAnnotations, Firefox!Those,
      Firefox!Address, Firefox!Joined, Firefox!Texted, Firefox!Null, JoinedTexts
  <2>3. RowsAgree(Stored!OrderedByTime(JoinedTexts(Stored!RowsIn(f, "moz_annos"))),
                  Stored!OrderedByTime(JoinedTexts(Stored!RowsIn(g, "moz_annos"))), D)
    BY <2>1, TablesAgree, SelectionsAgree, OrderedAgree
  <2> QED
    BY <1>7, <2>1, <2>2, <2>3, QueriesAgree DEF ClockNames
<1>8. CASE reader.artifact = "typed_input"
  <2>1. {"moz_inputhistory", "moz_places"} \subseteq ListsOf
    BY <1>8 DEF ListsOf, FirefoxLists
  <2>2. \A h : ParseFirefox("typed_input", h) =
          Stored!Query(h, {"moz_inputhistory", "moz_places"}, JoinedTexts(Stored!RowsIn(h, "moz_inputhistory")), "none")
    BY FirefoxStores DEF ParseFirefox, Firefox!ParseTypedInput, Firefox!Those,
      Firefox!Address, Firefox!Joined, Firefox!Texted, Firefox!Null, JoinedTexts
  <2>3. RowsAgree(JoinedTexts(Stored!RowsIn(f, "moz_inputhistory")),
                  JoinedTexts(Stored!RowsIn(g, "moz_inputhistory")), D)
    BY <2>1, TablesAgree, SelectionsAgree
  <2> QED
    BY <1>8, <2>1, <2>2, <2>3, QueriesAgree DEF ClockNames
<1>9. CASE reader.artifact = "permissions"
  <2>1. {"moz_perms"} \subseteq ListsOf
    BY <1>9 DEF ListsOf, FirefoxLists
  <2>2. \A h : ParseFirefox("permissions", h) =
          Stored!Query(h, {"moz_perms"}, Stored!RowsIn(h, "moz_perms"), "unix")
    BY FirefoxStores DEF ParseFirefox, Firefox!ParsePermissions
  <2>3. RowsAgree(Stored!RowsIn(f, "moz_perms"), Stored!RowsIn(g, "moz_perms"), D)
    BY <2>1, TablesAgree
  <2> QED
    BY <1>9, <2>1, <2>2, <2>3, QueriesAgree DEF ClockNames
<1>10. CASE reader.artifact = "extensions"
  <2>0. ReadAsText
    BY <1>10 DEF ReadAsText
  <2>1. {"addons"} \subseteq ListsOf
    BY <1>10 DEF ListsOf, FirefoxLists
  <2>2. \A h : ParseFirefox("extensions", h) =
          Stored!Walk(h, Stored!RowsIn(h, "addons"), "unix")
    BY FirefoxStores DEF ParseFirefox, Firefox!ParseExtensions
  <2>3. RowsAgree(Stored!RowsIn(f, "addons"), Stored!RowsIn(g, "addons"), D)
    BY <2>1, TablesAgree
  <2> QED
    BY <2>0, <1>10, <2>1, <2>2, <2>3, WalksAgree DEF ClockNames
<1>11. CASE reader.artifact = "logins"
  <2>0. ReadAsText
    BY <1>11 DEF ReadAsText
  <2>1. {"logins"} \subseteq ListsOf
    BY <1>11 DEF ListsOf, FirefoxLists
  <2>2. \A h : ParseFirefox("logins", h) = Stored!Walk(h, Stored!RowsIn(h, "logins"), "unix")
    BY FirefoxStores DEF ParseFirefox, Firefox!ParseLoginData
  <2>3. RowsAgree(Stored!RowsIn(f, "logins"), Stored!RowsIn(g, "logins"), D)
    BY <2>1, TablesAgree
  <2> QED
    BY <2>0, <1>11, <2>1, <2>2, <2>3, WalksAgree DEF ClockNames
<1>12. CASE reader.artifact = "session"
  <2>0. ReadAsText
    BY <1>12 DEF ReadAsText
  <2>1. {"tabs"} \subseteq ListsOf
    BY <1>12 DEF ListsOf, FirefoxLists
  <2>2. \A h : ParseFirefox("session", h) =
          Stored!Walk(h, JoinedRows(Stored!RowsIn(h, "tabs")), "unix")
    BY FirefoxStores DEF ParseFirefox, Firefox!ParseSession, Firefox!Those, Firefox!Joined,
      JoinedRows
  <2>3. RowsAgree(JoinedRows(Stored!RowsIn(f, "tabs")), JoinedRows(Stored!RowsIn(g, "tabs")), D)
    BY <2>1, TablesAgree, SelectionsAgree
  <2> QED
    BY <2>0, <1>12, <2>1, <2>2, <2>3, WalksAgree DEF ClockNames
<1>13. CASE reader.artifact = "preferences"
  <2>0. ReadAsText
    BY <1>13 DEF ReadAsText
  <2>1. {"lines"} \subseteq ListsOf
    BY <1>13 DEF ListsOf, FirefoxLists
  <2>2. \A h : ParseFirefox("preferences", h) =
          Stored!Walk(h, Stored!Decoded(Stored!RowsIn(h, "lines")), "none")
    BY FirefoxStores DEF ParseFirefox, Firefox!ParsePreferences
  <2>3. RowsAgree(Stored!Decoded(Stored!RowsIn(f, "lines")),
                  Stored!Decoded(Stored!RowsIn(g, "lines")), D)
    BY <2>1, TablesAgree, DecodedAgree
  <2> QED
    BY <2>0, <1>13, <2>1, <2>2, <2>3, WalksAgree DEF ClockNames
<1>14. CASE reader.artifact = "site_security"
  <2>1. {"lines"} \subseteq ListsOf
    BY <1>14 DEF ListsOf, FirefoxLists
  <2>2. \A h : ParseFirefox("site_security", h) =
          Stored!Unchecked(NamedLines(Stored!RowsIn(h, "lines")),
              Stored!WalkBytes(h, NamedLines(Stored!RowsIn(h, "lines")), "unix_unchecked"))
    BY FirefoxStores DEF ParseFirefox, Firefox!ParseSiteSecurity, Firefox!SecurityLines,
      Firefox!Those, Firefox!Named, NamedLines
  <2>3. RowsAgree(NamedLines(Stored!RowsIn(f, "lines")),
                  NamedLines(Stored!RowsIn(g, "lines")), D)
    BY <2>1, TablesAgree, SelectionsAgree
  <2>4. /\ Stored!RowsIn(f, "lines") \in Seq(TableRow)
        /\ Stored!RowsIn(g, "lines") \in Seq(TableRow)
    BY <2>1, TablesAgree DEF RowsAgree
  <2>5. \A x : /\ Stored!Unchecked(NamedLines(Stored!RowsIn(f, "lines")), x) = x
               /\ Stored!Unchecked(NamedLines(Stored!RowsIn(g, "lines")), x) = x
    BY <1>14, <2>1, <2>4, NothingOverflows DEF FilesAgree, NamedLines
  <2> QED
    BY <1>14, <2>2, <2>3, <2>5, ByteWalksAgree DEF ClockNames
<1>15. CASE reader.artifact = "cache"
  <2>1. {"files"} \subseteq ListsOf
    BY <1>15 DEF ListsOf, FirefoxLists
  <2>2. \A h : ParseFirefox("cache", h) =
          Stored!Parsed(IF h.opens THEN Stored!Events(SoundNames(Stored!RowsIn(h, "files")), "none")
                        ELSE <<>>)
    BY FirefoxStores DEF ParseFirefox, Firefox!ParseCache, Firefox!Those, Firefox!Named,
      SoundNames
  <2>3. RowsAgree(SoundNames(Stored!RowsIn(f, "files")), SoundNames(Stored!RowsIn(g, "files")), D)
    BY <2>1, TablesAgree, SelectionsAgree
  <2>4. PICK u, v : /\ u = Stored!Events(SoundNames(Stored!RowsIn(f, "files")), "none")
                    /\ v = Stored!Events(SoundNames(Stored!RowsIn(g, "files")), "none")
    OBVIOUS
  <2>5. OutcomesAgree(Stored!Parsed(u), Stored!Parsed(v), D)
    BY <2>3, <2>4, ReportsAgree, ParsedAgree DEF ClockNames
  <2>6. OutcomesAgree(Stored!Parsed(<<>>), Stored!Parsed(<<>>), D)
    BY NoRowsAgree, ParsedAgree
  <2>7. PICK opens \in BOOLEAN : f.opens = opens /\ g.opens = opens
    BY DEF FilesAgree
  <2>8. /\ ParseFirefox("cache", f) = (IF opens THEN Stored!Parsed(u) ELSE Stored!Parsed(<<>>))
        /\ ParseFirefox("cache", g) = (IF opens THEN Stored!Parsed(v) ELSE Stored!Parsed(<<>>))
    BY <2>2, <2>4, <2>7
  <2> QED  BY <1>15, <2>5, <2>6, <2>8, Zenon
<1>16. CASE reader.artifact = "local_storage"
  <2>1. {"webappsstore2"} \subseteq ListsOf
    BY <1>16 DEF ListsOf, FirefoxLists
  <2>2. \A h : ParseFirefox("local_storage", h) =
          Stored!Query(h, {"webappsstore2"}, TextedRows(Stored!RowsIn(h, "webappsstore2")), "none")
    BY FirefoxStores DEF ParseFirefox, Firefox!ParseLocalStorage, Firefox!Those,
      Firefox!Texted, Firefox!Null, TextedRows
  <2>3. RowsAgree(TextedRows(Stored!RowsIn(f, "webappsstore2")),
                  TextedRows(Stored!RowsIn(g, "webappsstore2")), D)
    BY <2>1, TablesAgree, SelectionsAgree
  <2> QED
    BY <1>16, <2>1, <2>2, <2>3, QueriesAgree DEF ClockNames
<1>17. CASE reader.artifact = "indexeddb"
  <2>1. {"object_data"} \subseteq ListsOf
    BY <1>17 DEF ListsOf, FirefoxLists
  <2>2. \A h : ParseFirefox("indexeddb", h) =
          Stored!Query(h, {"object_data"}, Stored!RowsIn(h, "object_data"), "none")
    BY FirefoxStores DEF ParseFirefox, Firefox!ParseIndexeddb
  <2>3. RowsAgree(Stored!RowsIn(f, "object_data"), Stored!RowsIn(g, "object_data"), D)
    BY <2>1, TablesAgree
  <2> QED
    BY <1>17, <2>1, <2>2, <2>3, QueriesAgree DEF ClockNames
<1> QED
  BY <1>1, <1>2, <1>3, <1>4, <1>5, <1>6, <1>7, <1>8, <1>9, <1>10, <1>11, <1>12, <1>13,
     <1>14, <1>15, <1>16, <1>17 DEF FirefoxLists

\* WebCache: what each container adds, and the sum of them.
ContainersIn(f) == Safari!RowsIn(f, "Containers")
PartOf(f, n) ==
    IF Safari!IsRead(ContainersIn(f)[n]) THEN Safari!RecordsOf(f, ContainersIn(f)[n]) ELSE <<>>
IsSum(u, f, N) ==
    /\ u \in [0..N -> Seq(EventShown)] /\ u[0] = <<>>
    /\ \A n \in 1..N : u[n] = u[n - 1] \o PartOf(f, n)

LEMMA RecordsAre ==
    ASSUME NEW f, NEW c, NEW s, s = Stored!Decoded(Stored!RowsIn(f, Safari!TableOf(c))),
           s \in Seq(TableRow)
    PROVE  /\ Safari!RecordsOf(f, c) \in Seq(EventShown)
           /\ DOMAIN Safari!RecordsOf(f, c) = DOMAIN s
           /\ \A k \in DOMAIN s : Safari!RecordsOf(f, c)[k] = Safari!EventFromRecord(s[k])
           /\ \A k \in DOMAIN s : s[k] \in TableRow /\ Safari!EventFromRecord(s[k]).row = s[k].id
<1>1. PICK e : e = Safari!RecordsOf(f, c)
  OBVIOUS
<1>2. e = [k \in DOMAIN s |-> Safari!EventFromRecord(s[k])]
  <2>1. s = Safari!Decoded(Safari!RowsIn(f, Safari!TableOf(c)))
    BY SafariStores
  <2> QED  BY <1>1, <2>1 DEF Safari!RecordsOf
<1>3. ASSUME NEW k \in DOMAIN s
      PROVE  /\ s[k] \in TableRow /\ Safari!EventFromRecord(s[k]).row = s[k].id
             /\ Safari!EventFromRecord(s[k]) \in EventShown
  <2>1. s[k] \in TableRow
    OBVIOUS
  <2>2. s[k].id \in Nat /\ s[k].at \in Int
    BY <2>1 DEF TableRow
  <2>3. Stored!Timestamp("webkit_if_any", s[k].at) \in Int
    BY <2>2, TimesAreNumbers DEF ClockNames
  <2>4. Safari!EventFromRecord(s[k]) =
            [row |-> s[k].id, at |-> Stored!Timestamp("webkit_if_any", s[k].at)]
    BY SafariStores DEF Safari!EventFromRecord
  <2> QED  BY <2>1, <2>2, <2>3, <2>4 DEF EventShown
<1>4. PICK n \in Nat : DOMAIN s = 1..n
  OBVIOUS
<1>5. e \in [1..n -> EventShown]
  BY <1>2, <1>3, <1>4
<1>6. e \in Seq(EventShown)
  BY <1>5
<1> QED  BY <1>1, <1>2, <1>3, <1>6

\* A container whose tables agree adds what agrees; one whose table is of D adds nothing else.
LEMMA RecordsAgree ==
    ASSUME NEW f, NEW g, NEW D, FilesAgree(f, g, D), NEW c, Safari!TableOf(c) \in ListsOf
    PROVE  EventsAgree(Safari!RecordsOf(f, c), Safari!RecordsOf(g, c), D)
<1>1. PICK s, t : /\ s = Stored!Decoded(Stored!RowsIn(f, Safari!TableOf(c)))
                  /\ t = Stored!Decoded(Stored!RowsIn(g, Safari!TableOf(c)))
  OBVIOUS
<1>2. RowsAgree(s, t, D)
  BY <1>1, TablesAgree, DecodedAgree
<1>3. s \in Seq(TableRow) /\ t \in Seq(TableRow) /\ Agree(s, t, RowsBut(D))
  BY <1>2 DEF RowsAgree
<1>4. PICK u, v : u = Safari!RecordsOf(f, c) /\ v = Safari!RecordsOf(g, c)
  OBVIOUS
<1>5. /\ u \in Seq(EventShown) /\ DOMAIN u = DOMAIN s
      /\ \A k \in DOMAIN s : u[k] = Safari!EventFromRecord(s[k])
      /\ \A k \in DOMAIN s : s[k] \in TableRow /\ Safari!EventFromRecord(s[k]).row = s[k].id
  BY <1>1, <1>3, <1>4, RecordsAre
<1>6. /\ v \in Seq(EventShown) /\ DOMAIN v = DOMAIN t
      /\ \A k \in DOMAIN t : v[k] = Safari!EventFromRecord(t[k])
      /\ \A k \in DOMAIN t : t[k] \in TableRow /\ Safari!EventFromRecord(t[k]).row = t[k].id
  BY <1>1, <1>3, <1>4, RecordsAre
<1>7. \A n \in DOMAIN s : u[n] \in EventsBut(D) <=> s[n] \in RowsBut(D)
  <2> SUFFICES ASSUME NEW n \in DOMAIN s PROVE u[n] \in EventsBut(D) <=> s[n] \in RowsBut(D)
    OBVIOUS
  <2>1. u[n] \in EventShown /\ u[n].row = s[n].id /\ s[n] \in TableRow
    BY <1>5
  <2> QED  BY <2>1 DEF EventsBut, RowsBut
<1>8. \A n \in DOMAIN t : v[n] \in EventsBut(D) <=> t[n] \in RowsBut(D)
  <2> SUFFICES ASSUME NEW n \in DOMAIN t PROVE v[n] \in EventsBut(D) <=> t[n] \in RowsBut(D)
    OBVIOUS
  <2>1. v[n] \in EventShown /\ v[n].row = t[n].id /\ t[n] \in TableRow
    BY <1>6
  <2> QED  BY <2>1 DEF EventsBut, RowsBut
<1>9. \A x \in Where(s, RowsBut(D)), y \in Where(t, RowsBut(D)) : s[x] = t[y] => u[x] = v[y]
  BY <1>5, <1>6 DEF Where
<1>10. Agree(u, v, EventsBut(D))
  BY <1>3, <1>5, <1>6, <1>7, <1>8, <1>9, AgreeMapped
<1> QED  BY <1>4, <1>5, <1>6, <1>10 DEF EventsAgree

LEMMA RecordsOfNone ==
    ASSUME NEW f, NEW D, NEW c, NEW s, s = f.lists[Safari!TableOf(c)].rows,
           s \in Seq(TableRow), AllOf(s, D)
    PROVE  /\ Safari!RecordsOf(f, c) \in Seq(EventShown)
           /\ Where(Safari!RecordsOf(f, c), EventsBut(D)) = {}
<1>1. PICK r, t : r = Stored!RowsIn(f, Safari!TableOf(c)) /\ t = Stored!Decoded(r)
  OBVIOUS
<1>2. r \in Seq(TableRow) /\ AllOf(r, D)
  <2>1. r = s \/ r = <<>>
    BY <1>1 DEF Stored!RowsIn
  <2>2. PICK e : e = <<>>
    OBVIOUS
  <2>3. e \in Seq(TableRow) /\ AllOf(e, D)
    BY <2>2 DEF AllOf
  <2> QED  BY <2>1, <2>2, <2>3
<1>3. PICK K : K = {k \in DOMAIN r : r[k].sound}
  OBVIOUS
<1>4. t = Picked(r, K)
  BY <1>1, <1>3, SortsAre DEF Stored!Decoded, Stored!Those
<1>5. t \in Seq(TableRow) /\ \E p : IsPick(p, t, r, K)
  BY <1>2, <1>3, <1>4, PickedIs
<1>6. PICK p : IsPick(p, t, r, K)
  BY <1>5
<1>7. \A k \in DOMAIN t : t[k].id \in D
  BY <1>2, <1>3, <1>6 DEF IsPick, AllOf
<1>8. PICK u : u = Safari!RecordsOf(f, c)
  OBVIOUS
<1>9. /\ u \in Seq(EventShown) /\ DOMAIN u = DOMAIN t
      /\ \A k \in DOMAIN t : u[k] = Safari!EventFromRecord(t[k])
      /\ \A k \in DOMAIN t : t[k] \in TableRow /\ Safari!EventFromRecord(t[k]).row = t[k].id
  BY <1>1, <1>5, <1>8, RecordsAre
<1>10. \A k \in DOMAIN u : u[k].row \in D
  BY <1>7, <1>9
<1>11. Where(u, EventsBut(D)) = {}
  BY <1>10 DEF Where, EventsBut
<1> QED  BY <1>8, <1>9, <1>11

LEMMA WebcacheIs ==
    ASSUME NEW f, NEW N \in Nat, Len(ContainersIn(f)) = N,
           \A n \in 1..N : PartOf(f, n) \in Seq(EventShown)
    PROVE  \E u : /\ IsSum(u, f, N)
                  /\ Safari!ParseWebcache(f) =
                         IF f.opens /\ Stored!Here(f, "Containers") THEN Stored!Parsed(u[N])
                         ELSE Stored!Failed
<1> DEFINE V == Seq(EventShown)
           D(h) == [n \in 0..Len(ContainersIn(f)) |->
                       IF n = 0 THEN <<>> ELSE h[n - 1] \o PartOf(f, n)]
           u == CHOOSE h : h = D(h)
           G == [n \in 1..N |-> [x \in V |-> x \o PartOf(f, n)]]
<1>1. <<>> \in V /\ \A x, y \in V : x \o y \in V
  OBVIOUS
<1>2. \A n \in 1..N : PartOf(f, n) \in V
  OBVIOUS
<1> HIDE DEF V
<1>3. G \in [1..N -> [V -> V]]
  BY <1>1, <1>2
<1>4. PICK h : h \in [0..N -> V] /\ h[0] = <<>> /\ \A n \in 1..N : h[n] = G[n][h[n - 1]]
  <2>1. AreSteps(G, N, V)
    BY <1>3 DEF AreSteps
  <2> HIDE DEF G
  <2>2. \E h : IsBuilt(h, <<>>, G, N, V)
    BY <1>1, <2>1, BuiltUp
  <2> QED  BY <2>2 DEF IsBuilt
<1>5. h = D(h)
  <2>1. ASSUME NEW n \in 1..N PROVE h[n] = h[n - 1] \o PartOf(f, n)
    <3>1. n - 1 \in 0..N
      OBVIOUS
    <3>2. h[n - 1] \in V
      BY <1>4, <3>1
    <3> QED  BY <1>4, <3>2
  <2>2. \A n \in 0..N : h[n] = IF n = 0 THEN <<>> ELSE h[n - 1] \o PartOf(f, n)
    <3>1. \A n \in 0..N : n # 0 => n \in 1..N
      OBVIOUS
    <3> QED  BY <1>4, <2>1, <3>1
  <2>3. h = [n \in 0..N |-> h[n]]
    BY <1>4
  <2> QED  BY <2>2, <2>3
<1>6. u = D(u)
  <2> HIDE DEF D
  <2> QED  BY <1>5
<1>7. Safari!ParseWebcache(f) =
          IF f.opens /\ Stored!Here(f, "Containers") THEN Stored!Parsed(u[N]) ELSE Stored!Failed
  <2>1. Safari!ParseWebcache(f) =
            IF f.opens /\ Safari!Here(f, "Containers") THEN Safari!Parsed(u[Len(ContainersIn(f))])
            ELSE Safari!Failed
    BY DEF Safari!ParseWebcache, ContainersIn, PartOf
  <2> HIDE DEF u
  <2> QED  BY <2>1, SafariStores
<1> HIDE DEF u
<1>8. u[0] = <<>> /\ \A n \in 1..N : u[n] = u[n - 1] \o PartOf(f, n)
  <2>1. ASSUME NEW n \in 0..N
        PROVE  u[n] = IF n = 0 THEN <<>> ELSE u[n - 1] \o PartOf(f, n)
    <3>1. u[n] = D(u)[n]
      <4> HIDE DEF D
      <4> QED  BY <1>6
    <3> QED  BY <3>1
  <2>2. 0 \in 0..N /\ \A n \in 1..N : n \in 0..N /\ n # 0
    OBVIOUS
  <2> HIDE DEF D
  <2>3. u[0] = <<>>
    BY <2>1, <2>2
  <2> QED  BY <2>1, <2>2, <2>3
<1>9. u = [n \in 0..N |-> u[n]]
  <2>1. D(u) = [n \in 0..N |-> D(u)[n]]
    OBVIOUS
  <2> HIDE DEF D
  <2> QED  BY <1>6, <2>1
<1>10. \A n \in 0..N : u[n] \in V
  <2> DEFINE Good == {n \in 0..N : u[n] \in V}
  <2>1. 0 \in Good
    BY <1>1, <1>8
  <2>2. ASSUME NEW n \in 1..N, n - 1 \in Good PROVE n \in Good
    <3>1. u[n - 1] \in V /\ PartOf(f, n) \in V /\ n \in 0..N
      BY <1>2, <2>2
    <3>2. u[n] = u[n - 1] \o PartOf(f, n)
      BY <1>8
    <3> QED  BY <1>1, <3>1, <3>2
  <2>3. \A n \in 0..N : n \in Good
    <3> HIDE DEF Good
    <3> QED  BY <2>1, <2>2, CountingUp
  <2> QED  BY <2>3
<1>11. u \in [0..N -> V]
  BY <1>9, <1>10
<1>12. IsSum(u, f, N)
  BY <1>8, <1>11 DEF IsSum, V
<1> QED  BY <1>7, <1>12

\* With more containers, of which those that are not the same have tables of D, the sums agree.
LEMMA SumsAgree ==
    ASSUME NEW f, NEW g, NEW D, NEW M \in Nat, NEW N \in Nat, M <= N,
           NEW u, NEW v, IsSum(u, f, M), IsSum(v, g, N),
           \A n \in 1..M : PartOf(f, n) \in Seq(EventShown),
           \A n \in 1..N : PartOf(g, n) \in Seq(EventShown),
           \A n \in 1..M : Agree(PartOf(f, n), PartOf(g, n), EventsBut(D)),
           \A n \in 1..N : n > M => Where(PartOf(g, n), EventsBut(D)) = {}
    PROVE  EventsAgree(u[M], v[N], D)
<1> DEFINE E == EventsBut(D)
           V == Seq(EventShown)
           F(n) == IF n <= M THEN u[n] ELSE u[M]
           Good == {n \in 0..N : Agree(F(n), v[n], E)}
<1>1. /\ u \in [0..M -> V] /\ u[0] = <<>> /\ \A n \in 1..M : u[n] = u[n - 1] \o PartOf(f, n)
      /\ v \in [0..N -> V] /\ v[0] = <<>> /\ \A n \in 1..N : v[n] = v[n - 1] \o PartOf(g, n)
  BY DEF IsSum
<1>2. 0 \in Good
  BY <1>1, AgreeEmpty
<1> HIDE DEF E
<1>3. ASSUME NEW n \in 1..N, n - 1 \in Good PROVE n \in Good
  <2>0. n - 1 \in 0..N /\ n \in 0..N
    OBVIOUS
  <2>1. n - 1 \in 0..N /\ n \in 0..N /\ v[n - 1] \in V /\ PartOf(g, n) \in V
    <3> HIDE DEF F, Good
    <3> QED  BY <1>1, <2>0 DEF V
  <2>2. CASE n <= M
    <3>1. n \in 1..M /\ n - 1 \in 0..M
      <4>1. PICK i : i = n
        OBVIOUS
      <4>2. i \in Int /\ 1 <= i /\ i <= M
        BY <2>2, <4>1
      <4>3. i \in 1..M /\ i - 1 \in 0..M
        BY <4>2
      <4> QED  BY <4>1, <4>3
    <3>2. F(n - 1) = u[n - 1] /\ F(n) = u[n] /\ u[n - 1] \in V /\ PartOf(f, n) \in V
      <4>1. n - 1 <= M /\ n <= M
        BY <3>1
      <4>2. F(n - 1) = u[n - 1] /\ F(n) = u[n]
        BY <4>1
      <4>3. PICK i : i = n - 1
        OBVIOUS
      <4>4. u[i] \in V /\ i \in 0..M
        BY <1>1, <3>1, <4>3
      <4>5. PartOf(f, n) \in V
        BY <3>1
      <4> HIDE DEF F, V
      <4> QED  BY <4>2, <4>3, <4>4, <4>5
    <3>3. Agree(u[n - 1], v[n - 1], E) /\ Agree(PartOf(f, n), PartOf(g, n), E)
      BY <1>3, <3>1, <3>2 DEF E
    <3>4. Agree(u[n - 1] \o PartOf(f, n), v[n - 1] \o PartOf(g, n), E)
      BY <2>1, <3>2, <3>3, AgreeJoined DEF V
    <3> QED  BY <1>1, <2>1, <3>1, <3>2, <3>4
  <2>3. CASE n > M
    <3>1. F(n - 1) = u[M] /\ F(n) = u[M] /\ u[M] \in V
      <4>1. n - 1 <= M => n - 1 = M
        BY <2>3
      <4> QED  BY <1>1, <2>3, <4>1
    <3>2. PICK e : e = <<>>
      OBVIOUS
    <3>3. e \in V /\ Where(e, E) = {} /\ u[M] \o e = u[M]
      <4>1. e \in V /\ DOMAIN e = {}
        BY <3>2 DEF V
      <4>2. u[M] \o <<>> = u[M]
        BY <3>1, ConcatEmptySeq DEF V
      <4> QED  BY <3>2, <4>1, <4>2 DEF Where
    <3>4. Agree(e, PartOf(g, n), E)
      <4>1. Where(PartOf(g, n), E) = {}
        BY <2>3 DEF E
      <4> QED  BY <3>3, <4>1, AgreeInPlace
    <3>5. Agree(u[M], v[n - 1], E)
      BY <1>3, <3>1
    <3>6. Agree(u[M] \o e, v[n - 1] \o PartOf(g, n), E)
      BY <2>1, <3>1, <3>3, <3>4, <3>5, AgreeJoined DEF V
    <3> QED  BY <1>1, <2>1, <3>1, <3>3, <3>6
  <2> QED  BY <2>2, <2>3
<1>4. N \in Good
  <2>1. \A n \in 0..N : n \in Good
    <3> HIDE DEF Good
    <3> QED  BY <1>2, <1>3, CountingUp
  <2> QED  BY <2>1
<1>5. F(N) = u[M]
  <2>1. N <= M => N = M
    OBVIOUS
  <2> QED  BY <2>1
<1>6. u[M] \in V /\ v[N] \in V
  BY <1>1
<1> QED  BY <1>4, <1>5, <1>6 DEF EventsAgree, E

LEMMA WebcacheAgrees ==
    ASSUME NEW f, NEW g, NEW D, FilesAgree(f, g, D),
           {"Containers", "Container_1", "Container_2"} \subseteq ListsOf
    PROVE  OutcomesAgree(Safari!ParseWebcache(f), Safari!ParseWebcache(g), D)
<1>1. \A c : Safari!TableOf(c) \in ListsOf
  BY DEF Safari!TableOf
<1>2. PICK s, t : s = ContainersIn(f) /\ t = ContainersIn(g)
  OBVIOUS
<1>3. s = Stored!RowsIn(f, "Containers") /\ t = Stored!RowsIn(g, "Containers")
  BY <1>2, SafariStores DEF ContainersIn
<1>4. s \in Seq(TableRow) /\ t \in Seq(TableRow)
  BY <1>3, TablesAgree DEF RowsAgree
<1>5. PICK M \in Nat : M = Len(s) /\ DOMAIN s = 1..M
  BY <1>4
<1>6. PICK N \in Nat : N = Len(t) /\ DOMAIN t = 1..N
  BY <1>4
<1>7. /\ DOMAIN s \subseteq DOMAIN t
      /\ \A k \in DOMAIN t :
              \/ k \in DOMAIN s /\ s[k] = t[k]
              \/ /\ AllOf(g.lists[Safari!TableOf(t[k])].rows, D)
                 /\ k \in DOMAIN s => AllOf(f.lists[Safari!TableOf(s[k])].rows, D)
  <2>1. Stored!Here(g, "Containers") = Stored!Here(f, "Containers") /\ Stored!Here(f, "Containers") \in BOOLEAN
    BY TablesAgree
  <2>2. CASE Stored!Here(f, "Containers")
    <3>1. s = f.lists["Containers"].rows /\ t = g.lists["Containers"].rows
      BY <1>3, <2>1, <2>2 DEF Stored!RowsIn
    <3>2. ContainersAgree(f, g, D)
      BY DEF FilesAgree
    <3> QED  BY <3>1, <3>2 DEF ContainersAgree
  <2>3. CASE ~Stored!Here(f, "Containers")
    <3>1. PICK e : e = <<>>
      OBVIOUS
    <3>2. s = e /\ t = e /\ DOMAIN e = {}
      BY <1>3, <2>1, <2>3, <3>1 DEF Stored!RowsIn
    <3> QED  BY <3>2
  <2> QED  BY <2>1, <2>2, <2>3
<1>8. M <= N
  <2>1. M # 0 => M \in DOMAIN s
    BY <1>5
  <2> QED  BY <1>5, <1>6, <1>7, <2>1
<1>9. \A c : EventsAgree(Safari!RecordsOf(f, c), Safari!RecordsOf(g, c), D)
  BY <1>1, RecordsAgree
<1>10. EventsAgree(<<>>, <<>>, D)
  BY NoRowsAgree
<1>11. \A n \in 1..M : PartOf(f, n) \in Seq(EventShown)
  BY <1>9, <1>10 DEF PartOf, EventsAgree
<1>12. \A n \in 1..N : PartOf(g, n) \in Seq(EventShown)
  BY <1>9, <1>10 DEF PartOf, EventsAgree
<1>13. ASSUME NEW k \in DOMAIN t, AllOf(g.lists[Safari!TableOf(t[k])].rows, D)
       PROVE  Where(PartOf(g, k), EventsBut(D)) = {}
  <2>1. PICK r : r = g.lists[Safari!TableOf(t[k])].rows
    OBVIOUS
  <2>2. r \in Seq(TableRow) /\ AllOf(r, D)
    BY <1>1, <1>13, <2>1 DEF FilesAgree, RowsAgree
  <2>3. Where(Safari!RecordsOf(g, t[k]), EventsBut(D)) = {}
    BY <2>1, <2>2, RecordsOfNone
  <2>4. Where(<<>>, EventsBut(D)) = {}
    BY DEF Where
  <2> QED  BY <1>2, <2>3, <2>4 DEF PartOf
<1>14. ASSUME NEW k \in DOMAIN s, AllOf(f.lists[Safari!TableOf(s[k])].rows, D)
       PROVE  Where(PartOf(f, k), EventsBut(D)) = {}
  <2>1. PICK r : r = f.lists[Safari!TableOf(s[k])].rows
    OBVIOUS
  <2>2. r \in Seq(TableRow) /\ AllOf(r, D)
    BY <1>1, <1>14, <2>1 DEF FilesAgree, RowsAgree
  <2>3. Where(Safari!RecordsOf(f, s[k]), EventsBut(D)) = {}
    BY <2>1, <2>2, RecordsOfNone
  <2>4. Where(<<>>, EventsBut(D)) = {}
    BY DEF Where
  <2> QED  BY <1>2, <2>3, <2>4 DEF PartOf
<1>15. ASSUME NEW n \in 1..M PROVE Agree(PartOf(f, n), PartOf(g, n), EventsBut(D))
  <2>1. n \in DOMAIN s /\ n \in DOMAIN t
    BY <1>5, <1>7
  <2>2. CASE s[n] = t[n]
    <3>1. PICK c : s[n] = c /\ t[n] = c
      BY <2>2
    <3>2. PICK x, y : x = Safari!RecordsOf(f, c) /\ y = Safari!RecordsOf(g, c)
      OBVIOUS
    <3>3. Agree(x, y, EventsBut(D)) /\ Agree(<<>>, <<>>, EventsBut(D))
      BY <1>9, <1>10, <3>2 DEF EventsAgree
    <3>4. /\ PartOf(f, n) = (IF Safari!IsRead(c) THEN x ELSE <<>>)
          /\ PartOf(g, n) = (IF Safari!IsRead(c) THEN y ELSE <<>>)
      BY <1>2, <3>1, <3>2 DEF PartOf
    <3> QED  BY <3>3, <3>4, Zenon
  <2>3. CASE s[n] # t[n]
    <3>1. Where(PartOf(f, n), EventsBut(D)) = {} /\ Where(PartOf(g, n), EventsBut(D)) = {}
      BY <1>7, <1>13, <1>14, <2>1, <2>3
    <3> QED  BY <3>1, AgreeInPlace
  <2> QED  BY <2>2, <2>3
<1>16. \A n \in 1..N : n > M => Where(PartOf(g, n), EventsBut(D)) = {}
  <2> SUFFICES ASSUME NEW n \in 1..N, n > M PROVE Where(PartOf(g, n), EventsBut(D)) = {}
    OBVIOUS
  <2>1. n \in DOMAIN t /\ n \notin DOMAIN s
    BY <1>5, <1>6
  <2> QED  BY <1>7, <1>13, <2>1
<1>17. PICK u : /\ IsSum(u, f, M)
                /\ Safari!ParseWebcache(f) =
                       IF f.opens /\ Stored!Here(f, "Containers") THEN Stored!Parsed(u[M])
                       ELSE Stored!Failed
  BY <1>2, <1>5, <1>11, WebcacheIs
<1>18. PICK v : /\ IsSum(v, g, N)
                /\ Safari!ParseWebcache(g) =
                       IF g.opens /\ Stored!Here(g, "Containers") THEN Stored!Parsed(v[N])
                       ELSE Stored!Failed
  BY <1>2, <1>6, <1>12, WebcacheIs
<1>19. EventsAgree(u[M], v[N], D)
  BY <1>8, <1>11, <1>12, <1>15, <1>16, <1>17, <1>18, SumsAgree
<1>20. OutcomesAgree(Stored!Parsed(u[M]), Stored!Parsed(v[N]), D)
  BY <1>19, ParsedAgree
<1>21. OutcomesAgree(Stored!Failed, Stored!Failed, D)
  BY FailedAgree
<1>22. PICK opens, here \in BOOLEAN :
           /\ f.opens = opens /\ g.opens = opens
           /\ Stored!Here(f, "Containers") = here /\ Stored!Here(g, "Containers") = here
  BY TablesAgree DEF FilesAgree
<1> QED  BY <1>17, <1>18, <1>20, <1>21, <1>22, Zenon

\* And each of a Safari profile and of a WebCache.
LEMMA SafariAgrees ==
    ASSUME reader.family = "Safari", reader.artifact \in DOMAIN SafariLists,
           NEW f, NEW g, NEW D, FilesAgree(f, g, D)
    PROVE  OutcomesAgree(ParseSafari(reader.artifact, f), ParseSafari(reader.artifact, g), D)
<1>1. CASE reader.artifact = "history"
  <2>1. {"history_visits", "history_items"} \subseteq ListsOf
    BY <1>1 DEF ListsOf, SafariLists
  <2>2. \A h : ParseSafari("history", h) =
          Stored!Query(h, {"history_visits", "history_items"}, Stored!OrderedByTime(DatedJoinedTexts(Stored!RowsIn(h, "history_visits"))), "core_data")
    BY SafariStores DEF ParseSafari, Safari!ParseHistory, Safari!Those, Safari!Joined,
      Safari!Texted, Safari!Null, Safari!Dated, DatedJoinedTexts
  <2>3. RowsAgree(Stored!OrderedByTime(DatedJoinedTexts(Stored!RowsIn(f, "history_visits"))),
                  Stored!OrderedByTime(DatedJoinedTexts(Stored!RowsIn(g, "history_visits"))), D)
    BY <2>1, TablesAgree, SelectionsAgree, OrderedAgree
  <2> QED
    BY <1>1, <2>1, <2>2, <2>3, QueriesAgree DEF ClockNames
<1>2. CASE reader.artifact = "cookies"
  <2>1. {"cookies"} \subseteq ListsOf
    BY <1>2 DEF ListsOf, SafariLists
  <2>2. \A h : ParseSafari("cookies", h) =
          Stored!Query(h, {"cookies"}, Stored!OrderedByTime(DatedTexts(Stored!RowsIn(h, "cookies"))), "core_data")
    BY SafariStores DEF ParseSafari, Safari!ParseCookies, Safari!Those, Safari!Texted,
      Safari!Null, Safari!Dated, DatedTexts
  <2>3. RowsAgree(Stored!OrderedByTime(DatedTexts(Stored!RowsIn(f, "cookies"))),
                  Stored!OrderedByTime(DatedTexts(Stored!RowsIn(g, "cookies"))), D)
    BY <2>1, TablesAgree, SelectionsAgree, OrderedAgree
  <2> QED
    BY <1>2, <2>1, <2>2, <2>3, QueriesAgree DEF ClockNames
<1>3. CASE reader.artifact = "bookmarks"
  <2>0. ReadAsText
    BY <1>3 DEF ReadAsText
  <2>1. {"Children"} \subseteq ListsOf
    BY <1>3 DEF ListsOf, SafariLists
  <2>2. \A h : ParseSafari("bookmarks", h) =
          Stored!Walk(h, Stored!Leaves(Stored!RowsIn(h, "Children")), "none")
    BY SafariStores DEF ParseSafari, Safari!ParseBookmarks
  <2>3. RowsAgree(Stored!Leaves(Stored!RowsIn(f, "Children")),
                  Stored!Leaves(Stored!RowsIn(g, "Children")), D)
    BY <2>1, LeavesAgree DEF Trees
  <2> QED
    BY <2>0, <1>3, <2>1, <2>2, <2>3, WalksAgree DEF ClockNames
<1>4. CASE reader.artifact = "downloads"
  <2>0. ReadAsText
    BY <1>4 DEF ReadAsText
  <2>1. {"DownloadHistory"} \subseteq ListsOf
    BY <1>4 DEF ListsOf, SafariLists
  <2>2. RowsAgree(Stored!Decoded(Stored!RowsIn(f, "DownloadHistory")), Stored!Decoded(Stored!RowsIn(g, "DownloadHistory")), D)
    BY <2>1, TablesAgree, DecodedAgree
  <2>3. PICK x, y : /\ x = Stored!Walk(f, Stored!Decoded(Stored!RowsIn(f, "DownloadHistory")), "core_data")
                    /\ y = Stored!Walk(g, Stored!Decoded(Stored!RowsIn(g, "DownloadHistory")), "core_data")
    OBVIOUS
  <2>4. OutcomesAgree(x, y, D)
    BY <2>0, <2>2, <2>3, WalksAgree DEF ClockNames
  <2>5. OutcomesAgree(Stored!Failed, Stored!Failed, D)
    BY FailedAgree
  <2>6. PICK here \in BOOLEAN : Stored!Here(f, "DownloadHistory") = here /\ Stored!Here(g, "DownloadHistory") = here
    BY <2>1, TablesAgree
  <2>7. /\ ParseSafari("downloads", f) = (IF here THEN x ELSE Stored!Failed)
        /\ ParseSafari("downloads", g) = (IF here THEN y ELSE Stored!Failed)
    BY <2>3, <2>6, SafariStores DEF ParseSafari, Safari!ParseDownloads
  <2> QED  BY <1>4, <2>4, <2>5, <2>7, Zenon
<1>5. CASE reader.artifact = "extensions"
  <2>0. ReadAsText
    BY <1>5 DEF ReadAsText
  <2>1. {"Installed_Extensions"} \subseteq ListsOf
    BY <1>5 DEF ListsOf, SafariLists
  <2>2. RowsAgree(Stored!Decoded(Stored!RowsIn(f, "Installed_Extensions")), Stored!Decoded(Stored!RowsIn(g, "Installed_Extensions")), D)
    BY <2>1, TablesAgree, DecodedAgree
  <2>3. PICK x, y : /\ x = Stored!Walk(f, Stored!Decoded(Stored!RowsIn(f, "Installed_Extensions")), "none")
                    /\ y = Stored!Walk(g, Stored!Decoded(Stored!RowsIn(g, "Installed_Extensions")), "none")
    OBVIOUS
  <2>4. OutcomesAgree(x, y, D)
    BY <2>0, <2>2, <2>3, WalksAgree DEF ClockNames
  <2>5. OutcomesAgree(Stored!Failed, Stored!Failed, D)
    BY FailedAgree
  <2>6. PICK here \in BOOLEAN : Stored!Here(f, "Installed_Extensions") = here /\ Stored!Here(g, "Installed_Extensions") = here
    BY <2>1, TablesAgree
  <2>7. /\ ParseSafari("extensions", f) = (IF here THEN x ELSE Stored!Failed)
        /\ ParseSafari("extensions", g) = (IF here THEN y ELSE Stored!Failed)
    BY <2>3, <2>6, SafariStores DEF ParseSafari, Safari!ParseExtensions
  <2> QED  BY <1>5, <2>4, <2>5, <2>7, Zenon
<1>6. CASE reader.artifact = "topsites"
  <2>0. ReadAsText
    BY <1>6 DEF ReadAsText
  <2>1. {"TopSites"} \subseteq ListsOf
    BY <1>6 DEF ListsOf, SafariLists
  <2>2. \A h : ParseSafari("topsites", h) =
          Stored!Walk(h, SoundNames(Stored!RowsIn(h, "TopSites")), "none")
    BY SafariStores DEF ParseSafari, Safari!ParseTopSites, Safari!Those, Safari!Named,
      SoundNames
  <2>3. RowsAgree(SoundNames(Stored!RowsIn(f, "TopSites")),
                  SoundNames(Stored!RowsIn(g, "TopSites")), D)
    BY <2>1, TablesAgree, SelectionsAgree
  <2> QED
    BY <2>0, <1>6, <2>1, <2>2, <2>3, WalksAgree DEF ClockNames
<1>7. CASE reader.artifact = "webcache"
  <2>1. {"Containers", "Container_1", "Container_2"} \subseteq ListsOf
    BY <1>7 DEF ListsOf, SafariLists
  <2>2. /\ ParseSafari("webcache", f) = Safari!ParseWebcache(f)
        /\ ParseSafari("webcache", g) = Safari!ParseWebcache(g)
    BY DEF ParseSafari
  <2> QED  BY <1>7, <2>1, <2>2, WebcacheAgrees
<1> QED
  BY <1>1, <1>2, <1>3, <1>4, <1>5, <1>6, <1>7 DEF SafariLists

\* So is what is printed, in the order of time or as it was found.
LEMMA OrderedEventsAgree ==
    ASSUME NEW x, NEW y, NEW D, OutcomesAgree(x, y, D), NEW ks, NEW kt,
           ks = [k \in DOMAIN x.events |-> x.events[k].at],
           kt = [k \in DOMAIN y.events |-> y.events[k].at]
    PROVE  OutcomesAgree([x EXCEPT !.events = SortedByKey(@, ks)],
                         [y EXCEPT !.events = SortedByKey(@, kt)], D)
<1>1. PICK s, t : s = x.events /\ t = y.events
  OBVIOUS
<1>2. /\ s \in Seq(EventShown) /\ t \in Seq(EventShown) /\ Agree(s, t, EventsBut(D))
      /\ x \in ParseOutcome /\ y \in ParseOutcome /\ x.ok = y.ok
  BY <1>1 DEF OutcomesAgree, EventsAgree
<1>3. ks \in [DOMAIN s -> Int] /\ kt \in [DOMAIN t -> Int]
  <2>1. (\A k \in DOMAIN s : s[k] \in EventShown) /\ (\A k \in DOMAIN t : t[k] \in EventShown)
    BY <1>2
  <2> QED  BY <1>1, <2>1 DEF EventShown
<1>4. \A i \in DOMAIN s, j \in DOMAIN t : s[i] = t[j] => ks[i] = kt[j]
  BY <1>1
<1>5. SortedByKey(s, ks) \in Seq(EventShown) /\ SortedByKey(t, kt) \in Seq(EventShown)
  BY <1>2, <1>3, SortedElements
<1>6. Agree(SortedByKey(s, ks), SortedByKey(t, kt), EventsBut(D))
  BY <1>2, <1>3, <1>4, AgreeSorted
<1> QED  BY <1>1, <1>2, <1>5, <1>6 DEF OutcomesAgree, ParseOutcome, EventsAgree

\* Of files that agree but for some rows, each parser succeeds or fails alike, and what
\* is printed agrees but for the events of these rows.
LEMMA RunsAgree ==
    ASSUME reader \in KnownReaders, ~IsRecovery, NEW f, NEW g, NEW D, FilesAgree(f, g, D)
    PROVE  OutcomesAgree(RunArtifact(f), RunArtifact(g), D)
<1>1. PICK x, y : x = ParseArtifact(f) /\ y = ParseArtifact(g)
  OBVIOUS
<1>2. \/ reader.family = "Chromium" /\ reader.artifact \in DOMAIN ChromiumLists
      \/ reader.family = "Firefox" /\ reader.artifact \in DOMAIN FirefoxLists
      \/ reader.family = "Safari" /\ reader.artifact \in DOMAIN SafariLists
  <2> HIDE DEF IsRecovery
  <2> QED  BY DEF KnownReaders
<1>3. OutcomesAgree(x, y, D)
  <2>1. CASE reader.family = "Chromium" /\ reader.artifact \in DOMAIN ChromiumLists
    <3>1. x = ParseChromium(reader.artifact, f) /\ y = ParseChromium(reader.artifact, g)
      BY <1>1, <2>1 DEF ParseArtifact
    <3> QED  BY <2>1, <3>1, ChromiumAgrees
  <2>2. CASE reader.family = "Firefox" /\ reader.artifact \in DOMAIN FirefoxLists
    <3>1. x = ParseFirefox(reader.artifact, f) /\ y = ParseFirefox(reader.artifact, g)
      BY <1>1, <2>2 DEF ParseArtifact
    <3>2. reader.artifact \in DOMAIN FirefoxLists \ {"deleted_bookmarks"}
      BY <2>2 DEF IsRecovery
    <3> QED  BY <2>2, <3>1, <3>2, FirefoxAgrees
  <2>3. CASE reader.family = "Safari" /\ reader.artifact \in DOMAIN SafariLists
    <3>1. x = ParseSafari(reader.artifact, f) /\ y = ParseSafari(reader.artifact, g)
      BY <1>1, <2>3 DEF ParseArtifact
    <3> QED  BY <2>3, <3>1, SafariAgrees
  <2> QED  BY <1>2, <2>1, <2>2, <2>3
<1>4. PICK ks, kt : /\ ks = [k \in DOMAIN x.events |-> x.events[k].at]
                    /\ kt = [k \in DOMAIN y.events |-> y.events[k].at]
  OBVIOUS
<1>5. PICK late \in BOOLEAN : late <=> reader.artifact \in Unsorted
  OBVIOUS
<1>6. /\ RunArtifact(f) = (IF late THEN x ELSE [x EXCEPT !.events = SortedByKey(@, ks)])
      /\ RunArtifact(g) = (IF late THEN y ELSE [y EXCEPT !.events = SortedByKey(@, kt)])
  BY <1>1, <1>4, <1>5 DEF RunArtifact
<1>7. OutcomesAgree([x EXCEPT !.events = SortedByKey(@, ks)],
                    [y EXCEPT !.events = SortedByKey(@, kt)], D)
  BY <1>3, <1>4, OrderedEventsAgree
<1> QED  BY <1>3, <1>6, <1>7, Zenon

\* What agrees but for some rows is the same without them.
LEMMA OthersAreSame ==
    ASSUME NEW f, NEW p, NEW x, NEW y,
           OutcomesAgree(x, y, {RowAt(f, q).id : q \in Below(f, p)})
    PROVE  y.ok = x.ok /\ OtherEvents(f, y.events, p) = OtherEvents(f, x.events, p)
<1>1. PICK D : D = {RowAt(f, q).id : q \in Below(f, p)}
  OBVIOUS
<1>2. PICK s, t : s = x.events /\ t = y.events
  OBVIOUS
<1>3. x.ok = y.ok /\ s \in Seq(EventShown) /\ t \in Seq(EventShown) /\ Agree(s, t, EventsBut(D))
  BY <1>1, <1>2 DEF OutcomesAgree, EventsAgree
<1>4. Picked(s, Where(s, EventsBut(D))) = Picked(t, Where(t, EventsBut(D)))
  BY <1>3, AgreeSame
<1>5. ASSUME NEW e \in Seq(EventShown)
      PROVE  {k \in DOMAIN e : e[k].row \notin D} = Where(e, EventsBut(D))
  <2>1. \A k \in DOMAIN e : e[k] \in EventShown
    OBVIOUS
  <2> QED  BY <2>1 DEF Where, EventsBut
<1>6. \A e : OtherEvents(f, e, p) = Picked(e, {k \in DOMAIN e : e[k].row \notin D})
  BY <1>1 DEF OtherEvents, Those
<1> QED  BY <1>2, <1>3, <1>4, <1>5, <1>6

\* A file of rows that have numbers of their own, and one step of it: a row is added to
\* a list, or changed in it and keeps its number and what it links to.
GoodFile(f) ==
    /\ f.opens \in BOOLEAN /\ f.utf8 \in BOOLEAN
    /\ \A l \in ListsOf : f.lists[l].rows \in Seq(TableRow) /\ Len(f.lists[l].rows) <= MaxTableRows
    /\ \A p, q \in AllRows(f) : RowAt(f, p).id = RowAt(f, q).id => p = q
OneRowOf(s, t, m) ==
    /\ DOMAIN s \subseteq DOMAIN t /\ m \in DOMAIN t
    /\ \A k \in DOMAIN t : k = m \/ (k \in DOMAIN s /\ s[k] = t[k])
    /\ m \in DOMAIN s => s[m].id = t[m].id /\ s[m].link = t[m].link
Touches(f, g, list, m) ==
    /\ g.opens = f.opens /\ list \in ListsOf
    /\ \A l \in ListsOf : g.lists[l].state = f.lists[l].state
    /\ \A l \in ListsOf : l # list => g.lists[l].rows = f.lists[l].rows
    /\ OneRowOf(f.lists[list].rows, g.lists[list].rows, m)

LEMMA InvIsGood == FileInv => GoodFile(store)
<1> SUFFICES ASSUME FileInv PROVE GoodFile(store)
  OBVIOUS
<1>1. FileShaped /\ Numbered
  BY DEF FileInv
<1>2. ASSUME NEW l \in ListsOf
      PROVE  store.lists[l].rows \in Seq(TableRow) /\ Len(store.lists[l].rows) <= MaxTableRows
  <2>1. PICK s : s = store.lists[l].rows
    OBVIOUS
  <2>2. IsList(s) /\ \A k \in DOMAIN s : k <= MaxTableRows /\ s[k] \in TableRow
    BY <1>1, <2>1 DEF FileShaped, RowsOf, RowSound
  <2>3. PICK n \in Nat : s \in [1..n -> ToSet(s)]
    BY <2>2 DEF IsList
  <2>4. s \in [1..n -> TableRow]
    BY <2>2, <2>3
  <2>5. s \in Seq(TableRow) /\ Len(s) = n
    BY <2>4
  <2>6. n <= MaxTableRows
    <3>1. MaxTableRows \in Nat
      BY ReadersAssumption
    <3>2. n = 0 \/ n \in DOMAIN s
      BY <2>4
    <3> QED  BY <2>2, <3>1, <3>2
  <2> QED  BY <2>1, <2>5, <2>6
<1> QED  BY <1>1, <1>2 DEF GoodFile, FileShaped, Numbered

LEMMA RowsOfFile ==
    ASSUME NEW f, GoodFile(f), NEW l \in ListsOf
    PROVE  \A k : <<l, k>> \in AllRows(f) <=> k \in DOMAIN f.lists[l].rows
<1>1. PICK s : s = f.lists[l].rows
  OBVIOUS
<1>2. s \in Seq(TableRow) /\ Len(s) <= MaxTableRows /\ MaxTableRows \in Nat
  BY <1>1, ReadersAssumption DEF GoodFile
<1>3. PICK n \in Nat : n = Len(s) /\ DOMAIN s = 1..n
  BY <1>2
<1>4. \A k \in DOMAIN s : k \in 1..MaxTableRows
  BY <1>2, <1>3
<1> QED  BY <1>1, <1>4 DEF AllRows

LEMMA AddTouches ==
    ASSUME FileInv, AddRow
    PROVE  \E list \in ListsOf : \E m : Touches(store, store', list, m)
<1>1. GoodFile(store) /\ FileShaped
  BY InvIsGood DEF FileInv
<1>2. PICK list \in ListsOf : \E row \in NewRows(list) :
          store' = [store EXCEPT !.lists[list].rows = Append(@, row)]
  BY DEF AddRow
<1>3. PICK row : store' = [store EXCEPT !.lists[list].rows = Append(@, row)]
  BY <1>2
<1>4. PICK s, t : s = store.lists[list].rows /\ t = Append(s, row)
  OBVIOUS
<1>5. /\ store'.opens = store.opens
      /\ store'.lists[list] = [store.lists[list] EXCEPT !.rows = t]
      /\ \A l \in ListsOf : l # list => store'.lists[l] = store.lists[l]
  BY <1>1, <1>3, <1>4 DEF FileShaped
<1>6. store'.lists[list].rows = t /\ store'.lists[list].state = store.lists[list].state
  BY <1>1, <1>5 DEF FileShaped
<1>7. IsList(s)
  BY <1>1, <1>4 DEF FileShaped, RowsOf
<1>8. PICK n \in Nat : n = Len(s) /\ DOMAIN s = 1..n
  BY <1>7, ListIs
<1>9. DOMAIN t = 1..(n + 1) /\ \A k \in DOMAIN s : t[k] = s[k]
  BY <1>4, <1>7, <1>8, AppendedList
<1>10. OneRowOf(s, t, n + 1)
  BY <1>8, <1>9 DEF OneRowOf
<1>11. \A l \in ListsOf : store'.lists[l].state = store.lists[l].state
  BY <1>5, <1>6
<1>12. Touches(store, store', list, n + 1)
  BY <1>4, <1>5, <1>6, <1>10, <1>11 DEF Touches
<1> QED  BY <1>12

LEMMA DamageTouches ==
    ASSUME FileInv, SpoilRow \/ GarbleRow \/ StretchRow
    PROVE  \E list \in ListsOf : \E m : Touches(store, store', list, m)
<1>1. GoodFile(store) /\ FileShaped
  BY InvIsGood DEF FileInv
<1>2. PICK list, m, row : Damages(list, m, row)
  BY DamageIs
<1>3. PICK s, t : s = store.lists[list].rows /\ t = [s EXCEPT ![m] = row]
  OBVIOUS
<1>4. /\ list \in ListsOf /\ m \in DOMAIN s /\ row.id = s[m].id /\ row.link = s[m].link
      /\ store'.opens = store.opens
      /\ store'.lists[list] = [store.lists[list] EXCEPT !.rows = t]
      /\ \A l \in ListsOf : l # list => store'.lists[l] = store.lists[l]
  BY <1>2, <1>3 DEF Damages, RowsOf
<1>5. store'.lists[list].rows = t /\ store'.lists[list].state = store.lists[list].state
  BY <1>1, <1>4 DEF FileShaped
<1>6. DOMAIN t = DOMAIN s /\ t[m] = row /\ \A k \in DOMAIN s : k # m => t[k] = s[k]
  <2>1. s \in Seq(TableRow)
    BY <1>1, <1>3, <1>4 DEF GoodFile
  <2> QED  BY <1>3, <1>4, <2>1
<1>7. OneRowOf(s, t, m)
  BY <1>4, <1>6 DEF OneRowOf
<1>8. \A l \in ListsOf : store'.lists[l].state = store.lists[l].state
  BY <1>4, <1>5
<1>9. Touches(store, store', list, m)
  BY <1>3, <1>4, <1>5, <1>7, <1>8 DEF Touches
<1> QED  BY <1>4, <1>9

LEMMA SameRowsAgree ==
    ASSUME NEW s \in Seq(TableRow), NEW D
    PROVE  RowsAgree(s, s, D) /\ RowsAgree(Stored!Leaves(s), Stored!Leaves(s), D)
<1>1. ASSUME NEW r \in Seq(TableRow) PROVE RowsAgree(r, r, D)
  BY AgreeInPlace DEF RowsAgree
<1>2. PICK K : K = {k \in Stored!Reached(s) : s[k].sound /\ s[k].sort}
  OBVIOUS
<1>3. Stored!Leaves(s) = Picked(s, K)
  BY <1>2, SortsAre DEF Stored!Leaves
<1>4. K \in SUBSET (DOMAIN s)
  BY <1>2, ReachedIs
<1>5. Stored!Leaves(s) \in Seq(TableRow)
  BY <1>3, <1>4, PickedIs
<1> QED  BY <1>1, <1>5

LEMMA TablesOfContainers ==
    ASSUME reader \in KnownReaders, "Containers" \in ListsOf
    PROVE  {"Container_1", "Container_2"} \subseteq ListsOf
<1>1. CASE reader.family = "Chromium" /\ reader.artifact \in DOMAIN ChromiumLists
  BY <1>1 DEF ListsOf, ChromiumLists
<1>2. CASE reader.family = "Firefox" /\ reader.artifact \in DOMAIN FirefoxLists
  BY <1>2 DEF ListsOf, FirefoxLists
<1>3. CASE reader.family = "Safari" /\ reader.artifact \in DOMAIN SafariLists
  BY <1>3 DEF ListsOf, SafariLists
<1> QED  BY <1>1, <1>2, <1>3 DEF KnownReaders

\* What a step takes with it is the row and what is below it; the file is otherwise as before.
LEMMA TouchedAgree ==
    ASSUME reader \in KnownReaders, NEW f, NEW g, GoodFile(f), GoodFile(g), NEW list, NEW m,
           Touches(f, g, list, m), ReadAsText => g.utf8 = f.utf8, ~MayOverflow(f), ~MayOverflow(g),
           NEW p, p = <<list, m>>, NEW D, D = {RowAt(g, q).id : q \in Below(g, p)}
    PROVE  FilesAgree(f, g, D)
<1>1. /\ f.opens \in BOOLEAN /\ g.opens = f.opens /\ list \in ListsOf
      /\ \A l \in ListsOf : g.lists[l].state = f.lists[l].state
      /\ \A l \in ListsOf : l # list => g.lists[l].rows = f.lists[l].rows
      /\ \A l \in ListsOf : f.lists[l].rows \in Seq(TableRow) /\ g.lists[l].rows \in Seq(TableRow)
  BY DEF GoodFile, Touches
<1>2. PICK s, t : s = f.lists[list].rows /\ t = g.lists[list].rows
  OBVIOUS
<1>3. s \in Seq(TableRow) /\ t \in Seq(TableRow) /\ OneRowOf(s, t, m) /\ Len(t) <= MaxTableRows
  BY <1>1, <1>2 DEF Touches, GoodFile
<1>4. m \in DOMAIN t /\ p \in AllRows(g) /\ RowAt(g, p) = t[m] /\ p[1] = list /\ p[2] = m
  <2>1. m \in DOMAIN t
    BY <1>3 DEF OneRowOf
  <2> QED  BY <1>1, <1>2, <2>1, RowsOfFile DEF RowAt
<1>5. \A l \in ListsOf : \A k \in DOMAIN g.lists[l].rows :
          <<l, k>> \in AllRows(g) /\ RowAt(g, <<l, k>>) = g.lists[l].rows[k]
  BY RowsOfFile DEF RowAt
<1>6. PICK U : /\ IsUnder(U, t, m)
               /\ Below(g, p) =
                     {q \in AllRows(g) :
                         \/ q = p
                         \/ list \in Trees /\ q[1] = list /\ q[2] \in U
                         \/ list = "Containers" /\ q[1] = Safari!TableOf(t[m])}
  <2>1. p[2] \in 1..MaxTableRows
    BY <1>4 DEF AllRows
  <2>2. \E U : /\ IsUnder(U, t, p[2])
               /\ Below(g, p) =
                     {q \in AllRows(g) :
                         \/ q = p
                         \/ p[1] \in Trees /\ q[1] = p[1] /\ q[2] \in U
                         \/ p[1] = "Containers" /\ q[1] = Safari!TableOf(RowAt(g, p))}
    <3>1. t = g.lists[p[1]].rows /\ t \in Seq(TableRow) /\ Len(t) <= MaxTableRows
      BY <1>2, <1>3, <1>4
    <3> QED  BY ONLY <2>1, <3>1, BelowIs
  <2> QED  BY <1>4, <2>2
<1>7. t[m].id \in D
  BY <1>4, <1>6
<1>8. RowsAgree(s, t, D)
  <2>1. (\A k \in DOMAIN s : s[k] \in TableRow) /\ (\A k \in DOMAIN t : t[k] \in TableRow)
    BY <1>3
  <2>2. /\ DOMAIN s \subseteq DOMAIN t /\ \A k \in DOMAIN t : k = m \/ (k \in DOMAIN s /\ s[k] = t[k])
        /\ m \in DOMAIN s => s[m].id = t[m].id
    BY <1>3 DEF OneRowOf
  <2>3. Where(s, RowsBut(D)) = Where(t, RowsBut(D))
    BY <1>7, <2>1, <2>2 DEF Where, RowsBut
  <2>4. \A k \in Where(s, RowsBut(D)) : s[k] = t[k]
    BY <1>7, <2>1, <2>2 DEF Where, RowsBut
  <2> QED  BY <1>3, <2>3, <2>4, AgreeInPlace DEF RowsAgree
<1>9. ASSUME list \in Trees PROVE RowsAgree(Stored!Leaves(s), Stored!Leaves(t), D)
  <2>1. \A k \in DOMAIN t : k \in U => t[k].id \in D
    <3> SUFFICES ASSUME NEW k \in DOMAIN t, k \in U PROVE t[k].id \in D
      OBVIOUS
    <3>1. <<list, k>> \in Below(g, p) /\ RowAt(g, <<list, k>>) = t[k]
      BY <1>1, <1>2, <1>5, <1>6, <1>9
    <3> QED  BY <3>1
  <2>2. \A i, j \in DOMAIN t : t[i].id = t[j].id => i = j
    <3> SUFFICES ASSUME NEW i \in DOMAIN t, NEW j \in DOMAIN t, t[i].id = t[j].id PROVE i = j
      OBVIOUS
    <3>1. <<list, i>> = <<list, j>>
      BY <1>1, <1>2, <1>5 DEF GoodFile
    <3> QED  BY <3>1
  <2> QED  BY <1>3, <1>4, <1>6, <2>1, <2>2, LeavesStay DEF OneRowOf
<1>10. ASSUME NEW l \in ListsOf
       PROVE  /\ RowsAgree(f.lists[l].rows, g.lists[l].rows, D)
              /\ l \in Trees => RowsAgree(Stored!Leaves(f.lists[l].rows), Stored!Leaves(g.lists[l].rows), D)
  <2>1. CASE l = list
    BY <1>2, <1>8, <1>9, <2>1
  <2>2. CASE l # list
    BY <1>1, <2>2, SameRowsAgree
  <2> QED  BY <2>1, <2>2
<1>11. ASSUME "Containers" \in ListsOf PROVE ContainersAgree(f, g, D)
  <2>1. CASE list # "Containers"
    BY <1>1, <1>11, <2>1 DEF ContainersAgree
  <2>2. CASE list = "Containers"
    <3>1. PICK c : c = Safari!TableOf(t[m])
      OBVIOUS
    <3>2. c \in ListsOf /\ c # list
      BY <1>11, <2>2, <3>1, TablesOfContainers DEF Safari!TableOf
    <3>3. AllOf(g.lists[c].rows, D)
      <4> SUFFICES ASSUME NEW k \in DOMAIN g.lists[c].rows PROVE g.lists[c].rows[k].id \in D
        BY DEF AllOf
      <4>1. <<c, k>> \in Below(g, p) /\ RowAt(g, <<c, k>>) = g.lists[c].rows[k]
        BY <1>5, <1>6, <2>2, <3>1, <3>2
      <4> QED  BY <4>1
    <3>4. g.lists[c].rows = f.lists[c].rows
      BY <1>1, <3>2
    <3>5. m \in DOMAIN s => Safari!TableOf(s[m]) = c
      BY <1>3, <3>1 DEF OneRowOf, Safari!TableOf
    <3>6. DOMAIN s \subseteq DOMAIN t /\ \A k \in DOMAIN t : k = m \/ (k \in DOMAIN s /\ s[k] = t[k])
      BY <1>3 DEF OneRowOf
    <3> QED  BY <1>2, <2>2, <3>1, <3>3, <3>4, <3>5, <3>6 DEF ContainersAgree
  <2> QED  BY <2>1, <2>2
<1>12. "Containers" \in ListsOf => ContainersAgree(f, g, D)
  BY <1>11
<1>13. f.utf8 \in BOOLEAN
  BY DEF GoodFile
<1> QED  BY <1>1, <1>10, <1>12, <1>13 DEF FilesAgree

\* What the property says of a step.
StandsAlone(before, after) ==
    ~IsRecovery /\ ~ARowRuinsAll =>
        \A p \in AllRows(store') :
            p \notin AllRows(store) \/ RowAt(store', p) # RowAt(store, p) =>
                /\ after.ok = before.ok
                /\ OtherEvents(store', after.events, p) = OtherEvents(store', before.events, p)

\* A step that touches a row leaves what is reported of the rows that are not below it.
LEMMA StepStandsAlone ==
    FileInv /\ [ArtifactsNext]_artifactVars => [StandsAlone(RunArtifact(store), RunArtifact(store'))]_store
<1> SUFFICES ASSUME FileInv, [ArtifactsNext]_artifactVars, ~IsRecovery, ~ARowRuinsAll, store' # store,
                    NEW p \in AllRows(store'),
                    p \notin AllRows(store) \/ RowAt(store', p) # RowAt(store, p)
             PROVE  /\ RunArtifact(store').ok = RunArtifact(store).ok
                    /\ OtherEvents(store', RunArtifact(store').events, p)
                           = OtherEvents(store', RunArtifact(store).events, p)
  BY Zenon DEF StandsAlone
<1>1. reader \in KnownReaders /\ GoodFile(store)
  BY InvIsGood DEF FileInv
<1>2. PICK g : g = store'
  OBVIOUS
<1>3. GoodFile(g)
  <2>1. FileInv'
    BY FileStep
  <2>2. GoodFile(store)'
    BY <2>1, InvIsGood, PTL
  <2>3. reader' = reader
    BY DEF ArtifactsNext, AddRow, SpoilRow, GarbleRow, StretchRow, artifactVars
  <2> QED  BY <1>2, <2>2, <2>3 DEF GoodFile, AllRows, ListsOf
<1>4. PICK list \in ListsOf : \E m : Touches(store, g, list, m)
  <2>1. AddRow \/ (SpoilRow \/ GarbleRow \/ StretchRow)
    BY DEF ArtifactsNext, artifactVars
  <2> QED  BY <1>2, <2>1, AddTouches, DamageTouches
<1>5. PICK m : Touches(store, g, list, m)
  BY <1>4
<1>6. p = <<list, m>>
  <2>1. PICK l, k : l \in ListsOf /\ k \in DOMAIN g.lists[l].rows /\ p = <<l, k>>
    BY <1>2 DEF AllRows
  <2>2. /\ <<l, k>> \in AllRows(store) <=> k \in DOMAIN store.lists[l].rows
        /\ RowAt(store, p) = store.lists[l].rows[k] /\ RowAt(g, p) = g.lists[l].rows[k]
    BY <1>1, <2>1, RowsOfFile DEF RowAt
  <2>3. CASE l # list
    BY <1>2, <1>5, <2>1, <2>2, <2>3 DEF Touches
  <2>4. CASE l = list /\ k # m
    BY <1>2, <1>5, <2>1, <2>2, <2>4 DEF Touches, OneRowOf
  <2> QED  BY <2>1, <2>3, <2>4
<1>7. PICK D : D = {RowAt(g, q).id : q \in Below(g, p)}
  OBVIOUS
<1>8. FilesAgree(store, g, D)
  <2>1. (ReadAsText => g.utf8 = store.utf8) /\ ~MayOverflow(store) /\ ~MayOverflow(g)
    BY <1>2 DEF ARowRuinsAll
  <2> QED  BY <1>1, <1>3, <1>5, <1>6, <1>7, <2>1, TouchedAgree
<1>9. OutcomesAgree(RunArtifact(store), RunArtifact(g), D)
  BY <1>1, <1>8, RunsAgree
<1>10. /\ RunArtifact(g).ok = RunArtifact(store).ok
       /\ OtherEvents(g, RunArtifact(g).events, p) = OtherEvents(g, RunArtifact(store).events, p)
  BY <1>7, <1>9, OthersAreSame
<1>11. RunArtifact(store') = RunArtifact(g)
  BY <1>2
<1> QED  BY <1>2, <1>10, <1>11

\* Whichever parser reads the file, and however it came to have its rows: a row that is
\* added to it or damaged changes nothing of what is reported of the others, unless its
\* bytes are no text in a document that is read as one, or its time is one that ends a
\* program built with overflow checks.
THEOREM RowsCorrect == ArtifactsSpec => RowsStandAlone
<1>1. ArtifactsInit => FileInv
  BY FileInit
<1>2. FileInv /\ [ArtifactsNext]_artifactVars => FileInv'
  BY FileStep
<1>3. FileInv /\ [ArtifactsNext]_artifactVars =>
          [LET before == RunArtifact(store)
               after == RunArtifact(store')
           IN  ~IsRecovery /\ ~ARowRuinsAll =>
               \A p \in AllRows(store') :
                   p \notin AllRows(store) \/ RowAt(store', p) # RowAt(store, p) =>
                       /\ after.ok = before.ok
                       /\ OtherEvents(store', after.events, p) = OtherEvents(store', before.events, p)]_store
  BY StepStandsAlone DEF StandsAlone
<1> QED  BY <1>1, <1>2, <1>3, PTL DEF ArtifactsSpec, RowsStandAlone

=============================================================================
