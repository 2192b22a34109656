----------------------------- MODULE CacheCarve -----------------------------
(***************************************************************************)
(* A Chromium disk cache at work, and what is read from it as live and     *)
(* carved from it as evicted (browser-forensic-cache, resource.rs,         *)
(* blockfile.rs, carve.rs).  The carver reads one file after another, and  *)
(* the browser is at work between two reads.                               *)
(*                                                                         *)
(* A directory has one of two formats, and the readers look for both.  In  *)
(* the simple one each entry is a file `<hash>_0`, its sparse ranges a     *)
(* file `<hash>_s`, and an index of hashes is written from time to time.   *)
(* In the other, entries and their streams are blocks of `data_1` with a   *)
(* map of the allocated ones, and a hash table chains the entries.         *)
(***************************************************************************)
EXTENDS Naturals, Sequences, FiniteSets, SequencesExt

CONSTANTS Hashes,   \* entries of the simple cache
          Urls,     \* keys of the block file
          Blocks,   \* blocks of data_1
          MaxMeanwhile \* bound: steps of the browser between two reads of data_1

\* An address that is not initialized, and what a key is that is no URL.
NoAddr == "no address"
NoUrl == "no url"

\* A file of blocks is finite, and a key that stands for none is not a URL.
ASSUME BlocksAssumption ==
    NoAddr \notin Blocks /\ IsFiniteSet(Blocks) /\ NoUrl \notin Urls

VARIABLES
    entryFile,   \* of each hash, the parts that its _0 file has
    sparseFiles, \* hashes with a _s file
    indexed,     \* hashes that the browser holds in memory
    realIndex,   \* the-real-index: [there, magic, count, hashes]
    evicted,     \* history: hashes that were removed and not stored since
    unlisted,    \* history: hashes stored since the index was written
    dataBlocks,  \* content of each block
    bitmap,      \* the blocks that are allocated
    tableSlot,   \* the hash table: the block of the first entry, or none
    untouched,   \* history: entries freed, with all of their blocks as they were
    carved,      \* how far the carver is, and what it has read and made of it
    since        \* history: what was the case, or stayed so, since the carver began

simpleVars == <<entryFile, sparseFiles, indexed, realIndex, evicted, unlisted>>
blockVars  == <<dataBlocks, bitmap, tableSlot, untouched>>
cacheVars  == <<simpleVars, blockVars, carved, since>>

Entry(u, head, body, next) ==
    [type |-> "entry", url |-> u, head |-> head, body |-> body, next |-> next]
Stream(u, part, coding) == [type |-> part, url |-> u, coding |-> coding]
Blank == [type |-> "blank"]

\* What is in the directory is of the one format, or of the other.
SimpleDir == \A b \in Blocks : dataBlocks[b] = Blank
BlockDir == unlisted = {} /\ ~realIndex.there

\* What a response is coded in: a text that has "://" in it, gzip, or something
\* that the tool does not know.
Codings == {"text", "gzip", "other"}

\* The parts of a _0 file.
EntryParts == <<"header", "key", "stream 1", "eof", "stream 0", "eof">>

\* The names of a directory that the carver looks for.
Names == Hashes \X {"_0", "_s"}

NotCarved ==
    [stage |-> "idle",
     known |-> FALSE, cut |-> FALSE, listed |-> {},    \* the index as it was read
     todo |-> Names, at |-> {},                        \* names to come, a _s to be read
     orphans |-> {}, danglers |-> {},                  \* what came of the files
     entries |-> {}, live |-> {}, free |-> {}]         \* and of the blocks

NothingSince ==
    [gone |-> {}, stored |-> {}, whole |-> {}, names |-> {}, freed |-> {}, steps |-> 0]

-----------------------------------------------------------------------------
(* The browser.  Each step leaves the rest for another: it may stop at any  *)
(* moment, or be at work while the tool reads.                             *)

StoreSimple(h) ==
    /\ entryFile[h] = <<>> /\ h \notin sparseFiles
    /\ entryFile' = [entryFile EXCEPT ![h] = SubSeq(EntryParts, 1, 2)]
    /\ indexed' = indexed \cup {h}
    /\ evicted' = evicted \ {h} /\ unlisted' = unlisted \cup {h}
    /\ UNCHANGED <<sparseFiles, realIndex>>

WriteSimple(h) ==
    /\ h \in indexed /\ Len(entryFile[h]) \in {2, 4}
    /\ entryFile' = [entryFile EXCEPT ![h] = SubSeq(EntryParts, 1, Len(@) + 2)]
    /\ UNCHANGED <<sparseFiles, indexed, realIndex, evicted, unlisted>>

StoreSparse(h) ==
    /\ h \in indexed
    /\ sparseFiles' = sparseFiles \cup {h}
    /\ UNCHANGED <<entryFile, indexed, realIndex, evicted, unlisted>>

\* Evicted in memory, then file by file.
EvictSimple(h) ==
    /\ h \in indexed
    /\ indexed' = indexed \ {h} /\ evicted' = evicted \cup {h}
    /\ UNCHANGED <<entryFile, sparseFiles, realIndex, unlisted>>

RemoveFile(h) ==
    /\ h \in evicted
    /\ \/ /\ entryFile[h] # <<>>
          /\ entryFile' = [entryFile EXCEPT ![h] = <<>>] /\ UNCHANGED sparseFiles
       \/ /\ entryFile[h] = <<>> /\ h \in sparseFiles
          /\ sparseFiles' = sparseFiles \ {h} /\ UNCHANGED entryFile
    /\ UNCHANGED <<indexed, realIndex, evicted, unlisted>>

\* An index that is written when the carver has read it is of no account.
WriteIndex ==
    /\ carved.stage = "idle"
    /\ realIndex' = [there |-> TRUE, magic |-> TRUE, count |-> Cardinality(indexed),
                     hashes |-> SetToSeq(indexed)]
    /\ unlisted' = {}
    /\ UNCHANGED <<entryFile, sparseFiles, indexed, evicted>>

\* A copy of the index that was cut off, within the list or before it.
CutIndex ==
    /\ realIndex.there /\ carved.stage = "idle"
    /\ realIndex' \in {[realIndex EXCEPT !.hashes = SubSeq(@, 1, n)] : n \in 0..Len(realIndex.hashes)}
                      \cup {[realIndex EXCEPT !.magic = FALSE]}
    /\ UNCHANGED <<entryFile, sparseFiles, indexed, evicted, unlisted>>

\* An entry and its streams take free blocks, whatever these hold.
StoreBlocks(u, b, head, body, coding) ==
    LET taken == {b, head, body} \ {NoAddr}
    IN  /\ taken \cap bitmap = {}
        /\ Cardinality(taken) = 1 + Cardinality({s \in {1, 2} : <<head, body>>[s] # NoAddr})
        /\ bitmap' = bitmap \cup taken
        /\ dataBlocks' = [d \in Blocks |->
              CASE d = b    -> Entry(u, head, body, tableSlot)
                [] d = head -> Stream(u, "head", coding)
                [] d = body -> Stream(u, "body", coding)
                [] OTHER    -> dataBlocks[d]]
        /\ tableSlot' = b
        /\ untouched' = {e \in untouched : {e, dataBlocks[e].head, dataBlocks[e].body} \cap taken = {}}

\* The first of the chain is unlinked; it is freed in a step of its own.
UnlinkBlocks ==
    /\ tableSlot # NoAddr
    /\ tableSlot' = dataBlocks[tableSlot].next
    /\ UNCHANGED <<dataBlocks, bitmap, untouched>>

\* The blocks that the chain comes to; it cannot be longer than there are blocks.
Chain ==
    LET upto[n \in 0..Cardinality(Blocks)] ==
          IF n = 0 THEN {tableSlot} \ {NoAddr}
          ELSE upto[n - 1] \cup ({dataBlocks[b].next : b \in upto[n - 1]} \ {NoAddr})
    IN  upto[Cardinality(Blocks)]

FreeBlocks(b) ==
    /\ b \in bitmap /\ dataBlocks[b].type = "entry" /\ b \notin Chain
    /\ bitmap' = bitmap \ {b, dataBlocks[b].head, dataBlocks[b].body}
    /\ untouched' = untouched \cup {b}
    /\ UNCHANGED <<dataBlocks, tableSlot>>

-----------------------------------------------------------------------------
(* The readers of the simple cache. *)

\* No more hashes than the file holds, and no more than it says; none at all of an
\* index that is absent, too short or of another kind.
ParseRealIndexHashes(index) ==
    LET count == IF index.count < Len(index.hashes) THEN index.count ELSE Len(index.hashes)
    IN  ToSet(SubSeq(index.hashes, 1, count))

LivenessKnown == realIndex.there /\ realIndex.magic

\* The header and the key are read from the front, the two streams from the back:
\* the last part is an end, and so is the one before the last stream, behind the key.
ParseSimpleEntry(parts) ==
    LET n == Len(parts)
    IN  /\ n >= 3 /\ parts[1] = "header" /\ parts[2] = "key"
        /\ parts[n] = "eof" /\ n - 2 > 2 /\ parts[n - 2] = "eof"

IsThere(name) == IF name[2] = "_0" THEN entryFile[name[1]] # <<>> ELSE name[1] \in sparseFiles

(* The readers of the block file. *)

\* The bytes of an address are read whatever they belong to by now.
ReadStream(addr) == IF addr = NoAddr THEN Blank ELSE dataBlocks[addr]

\* Headers are found in the bytes of headers only.
ParseHttpMeta(stream) ==
    IF stream.type = "head" THEN [status |-> TRUE, coding |-> stream.coding]
    ELSE [status |-> FALSE, coding |-> "text"]

\* What is not coded is as it is; gzip is undone where it is gzip.
DecodeBody(coding, stream) ==
    CASE coding = "text" -> TRUE
      [] coding = "gzip" -> stream.type = "body" /\ stream.coding = "gzip"
      [] OTHER -> FALSE

Grade(meta, body) ==
    IF meta.status /\ DecodeBody(meta.coding, body) /\ body # Blank THEN "full" ELSE "partial"

BuildResource(b, u, es) ==
    LET head == ReadStream(es.head)
        body == ReadStream(es.body)
    IN  [block |-> b, url |-> u, head |-> head, body |-> body,
         quality |-> Grade(ParseHttpMeta(head), body)]

\* Any 256 bytes are an entry; its key is text, and must have "://" in it.  The
\* text of a body may, and has no streams.
ResolveKey(b) ==
    CASE dataBlocks[b].type = "entry" -> dataBlocks[b].url
      [] dataBlocks[b].type = "body" /\ dataBlocks[b].coding = "text" -> "a text"
      [] OTHER -> NoUrl

StreamsAt(b) ==
    IF dataBlocks[b].type = "entry" THEN dataBlocks[b] ELSE Entry("a text", NoAddr, NoAddr, NoAddr)

\* The chain is followed until it ends, returns to a block, or leaves the entries.
ParseBlockfileCacheDir ==
    {BuildResource(b, ResolveKey(b), StreamsAt(b)) : b \in Chain}

\* The blocks that are looked at: those that the map of the file calls free.
BlockIsFree(b) == b \notin bitmap

\* Mistake: every block is looked at, allocated or not.
BlockIsThere(b) == b \in Blocks

\* The entries in free blocks whose key is a URL, as the first read of the file has them.
FreeEntries ==
    {[block |-> b, url |-> ResolveKey(b), streams |-> StreamsAt(b)] :
        b \in {d \in Blocks : BlockIsFree(d) /\ ResolveKey(d) # NoUrl}}

-----------------------------------------------------------------------------
(* The carver.  What one call reads of one file is one step, and leaves the *)
(* cache as it is.  In a directory of one format, what the carver does about *)
(* the other finds nothing.                                                 *)

OnlyReads == UNCHANGED <<simpleVars, blockVars>>

ReadRealIndex ==
    /\ carved.stage = "idle" /\ SimpleDir
    /\ carved' = [carved EXCEPT !.stage = "files", !.known = LivenessKnown,
                                !.cut = realIndex.count # Len(realIndex.hashes),
                                !.listed = ParseRealIndexHashes(realIndex)]
    /\ since' = [NothingSince EXCEPT !.gone = evicted, !.stored = unlisted,
                                     !.whole = {h \in evicted : entryFile[h] = EntryParts}]
    /\ OnlyReads

OpenDir ==
    /\ carved.stage = "files"
    /\ carved' = [carved EXCEPT !.stage = "names"]
    /\ since' = [since EXCEPT !.names = {n \in Names : IsThere(n)}]
    /\ OnlyReads

\* A `_0` that is listed, or of which nothing is known, is not read.
LookAtEntry(h) ==
    /\ carved.stage = "names" /\ carved.at = {}
    /\ <<h, "_0">> \in carved.todo /\ IsThere(<<h, "_0">>)
    /\ carved' = [carved EXCEPT !.todo = @ \ {<<h, "_0">>},
                     !.orphans = @ \cup {g \in {h} : /\ carved.known /\ g \notin carved.listed
                                                     /\ ParseSimpleEntry(entryFile[g])}]
    /\ OnlyReads /\ UNCHANGED since

\* Mistake: a `_s` is not passed over beside its `_0`.
LookAtAnySparse(h) ==
    /\ carved.stage = "names" /\ carved.at = {}
    /\ <<h, "_s">> \in carved.todo /\ IsThere(<<h, "_s">>)
    /\ carved' = [carved EXCEPT !.todo = @ \ {<<h, "_s">>}, !.at = {h}]
    /\ OnlyReads /\ UNCHANGED since

\* A `_s` is passed over if there is a `_0` beside it,
LookAtSparse(h) ==
    /\ carved.stage = "names" /\ carved.at = {}
    /\ <<h, "_s">> \in carved.todo /\ IsThere(<<h, "_s">>)
    /\ carved' = [carved EXCEPT !.todo = @ \ {<<h, "_s">>},
                                !.at = {g \in {h} : ~IsThere(<<g, "_0">>)}]
    /\ OnlyReads /\ UNCHANGED since

\* and read otherwise, if it is still there.
ReadSparse ==
    /\ carved.stage = "names" /\ carved.at # {}
    /\ carved' = [carved EXCEPT !.at = {}, !.danglers = @ \cup (carved.at \cap sparseFiles)]
    /\ OnlyReads /\ UNCHANGED since

\* A name that was there all the time is returned; one that came meanwhile may not be.
EndOfDir ==
    /\ carved.stage = "names" /\ carved.at = {}
    /\ since.names \cap carved.todo = {}
    /\ carved' = [carved EXCEPT !.stage = "done"]
    /\ OnlyReads /\ UNCHANGED since

\* The map and the entries are of one read of data_1,
LoadBlockFile ==
    /\ carved.stage = "idle" /\ BlockDir
    /\ carved' = [carved EXCEPT !.stage = "streams", !.entries = FreeEntries,
                                !.live = {r.block : r \in ParseBlockfileCacheDir}]
    /\ since' = [NothingSince EXCEPT !.freed = untouched]
    /\ OnlyReads

\* and what the entries point to is of another.
LoadStreams ==
    /\ carved.stage = "streams"
    /\ carved' = [carved EXCEPT !.stage = "done",
                     !.free = {BuildResource(e.block, e.url, e.streams) : e \in carved.entries}]
    /\ OnlyReads /\ UNCHANGED since

CarveCacheDir ==
    \/ ReadRealIndex \/ OpenDir \/ ReadSparse \/ EndOfDir
    \/ \E h \in Hashes : LookAtEntry(h) \/ LookAtSparse(h)
    \/ LoadBlockFile \/ LoadStreams

-----------------------------------------------------------------------------

SimpleBrowser ==
    /\ SimpleDir
    /\ \/ \E h \in Hashes : \/ StoreSimple(h) \/ WriteSimple(h) \/ StoreSparse(h)
                            \/ EvictSimple(h) \/ RemoveFile(h)
       \/ WriteIndex \/ CutIndex
    /\ UNCHANGED blockVars

BlockBrowser ==
    /\ BlockDir
    /\ \/ \E u \in Urls, b \in Blocks, coding \in Codings :
             \E head, body \in Blocks \cup {NoAddr} : StoreBlocks(u, b, head, body, coding)
       \/ UnlinkBlocks
       \/ \E b \in Blocks : FreeBlocks(b)
    /\ UNCHANGED simpleVars

\* What has been so since the carver began, after a step of the browser.
Meanwhile ==
    since' = IF carved.stage = "idle" THEN since
             ELSE [gone   |-> since.gone \cup evicted',
                   stored |-> since.stored \cup unlisted',
                   whole  |-> {h \in since.whole : entryFile'[h] = EntryParts},
                   names  |-> {n \in since.names : IsThere(n)'},
                   freed  |-> since.freed \cap untouched',
                   steps  |-> IF carved.stage = "streams" THEN since.steps + 1 ELSE 0]

BrowserAtWork ==
    /\ carved.stage # "done" /\ (carved.stage = "streams" => since.steps < MaxMeanwhile)
    /\ SimpleBrowser \/ BlockBrowser
    /\ Meanwhile /\ UNCHANGED carved

CacheInit ==
    /\ entryFile = [h \in Hashes |-> <<>>]
    /\ sparseFiles = {} /\ indexed = {} /\ evicted = {} /\ unlisted = {}
    /\ realIndex = [there |-> FALSE, magic |-> FALSE, count |-> 0, hashes |-> <<>>]
    /\ dataBlocks = [b \in Blocks |-> Blank]
    /\ bitmap = {} /\ tableSlot = NoAddr /\ untouched = {}
    /\ carved = NotCarved /\ since = NothingSince

CacheNext == CarveCacheDir \/ BrowserAtWork

CacheSpec == CacheInit /\ [][CacheNext]_cacheVars

-----------------------------------------------------------------------------

\* What is carved is a remain: a `_0` that the index did not list was evicted before it
\* was looked at, unless it was stored after that index was written or the index was
\* cut; a sparse file alone was evicted, whatever the index; a free block was on no
\* chain when the map was read.  And a remain is carved, whatever the browser does
\* meanwhile to others: every evicted `_0` that was whole all the time and is not
\* listed, and every freed entry whose blocks nobody took before its streams were
\* read, with its own streams and as complete as they are (carve.rs 217-283, 327-395).
CarvedIsWhatWasEvicted ==
    carved.stage = "done" =>
        /\ carved.cut \/ carved.orphans \subseteq since.gone \cup since.stored
        /\ carved.danglers \subseteq since.gone
        /\ carved.known => since.whole \subseteq carved.orphans \cup carved.listed
        /\ {r.block : r \in carved.free} \cap carved.live = {}
        /\ \A b \in since.freed :
              LET es == dataBlocks[b]
              IN  \E r \in carved.free :
                     /\ r.block = b /\ r.url = es.url
                     /\ \A s \in {r.head, r.body} \ {Blank} : s.url = es.url
                     /\ (r.quality = "full") <=>
                           (NoAddr \notin {es.head, es.body} /\ r.head.coding # "other")

\* An entry that is reported as recovered in full has the body that was stored for it
\* (carve.rs 110-115: what is overwritten is a part that is missing).
FullIsItsOwn == \A r \in carved.free : r.quality = "full" => r.body.url = r.url

=============================================================================
