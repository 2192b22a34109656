----------------------------- MODULE CachedBodies -----------------------------
(***************************************************************************)
(* The bodies that Firefox's cache2, Safari's Cache.db and the Cache API   *)
(* keep, and what is read of them while the browser is at work             *)
(* (browser-forensic-cache, firefox.rs, safari.rs, cachestorage.rs,        *)
(* decompress.rs).                                                         *)
(*                                                                         *)
(* The three keep a body differently: as it came, as the page got it, or   *)
(* either.  A body is the codings around it, the outermost first; what the *)
(* server declares is what it put around the body that the page is to get. *)
(***************************************************************************)
EXTENDS Naturals, Sequences, FiniteSets

CONSTANTS CodingNames,    \* what servers may declare
          Responses,      \* what servers answer: [declared, delivered, big]
          Places,         \* files and rows that hold an entry
          CacheNames,     \* the names a page gives its caches
          MaxEdits        \* how often the browser changes the cache meanwhile

\* Codings are put around a body in an order.
ASSUME BodiesAssumption ==
    /\ MaxEdits \in Nat
    /\ Responses \subseteq [declared : Seq(CodingNames), delivered : Seq(CodingNames), big : BOOLEAN]

VARIABLES layout,     \* "cache2", "cfurl" or "cachestorage"
          stored,     \* of each place the entry that the browser has in it, or none
          held,       \* of each place what its file holds: Cache.db may be behind its log
          listed,     \* index.txt: the caches that are in it whole, and whether more of one is
          edits,      \* how often the browser changed the cache
          toRead,     \* places still to be read, NotBegun before the index is
          found,      \* what was read
          lasting,    \* history: entries that the browser had all the time
          inLog       \* history: places that only the log told of when the reading began

bodyVars == <<layout, stored, held, listed, edits, toRead, found, lasting, inLog>>

NoEntry == [there |-> FALSE]
NotBegun == {"not begun"}
NoName == "none"              \* only the Cache API has named caches
KnownCodings == {"gzip", "br"}    \* gzip begins with a magic number, as zstd does; br does not

\* As it came.  A coding that the browser does not know is left to the page.
Wire(r) ==
    IF \A k \in DOMAIN r.declared : r.declared[k] \in KnownCodings
    THEN r.declared \o r.delivered ELSE r.delivered
\* Which of the two each of them keeps.
Kept(r) ==
    CASE layout = "cache2" -> {Wire(r)}
      [] layout = "cfurl" -> {Wire(r), r.delivered}
      [] layout = "cachestorage" -> {r.delivered}
Missing == <<"nothing">>      \* a body whose file is gone

-----------------------------------------------------------------------------
(* Decoding. *)

Outcome(body, decoded, note) == [body |-> body, decoded |-> decoded, note |-> note]
DecodedTo(outcome) == [ok |-> TRUE, outcome |-> outcome]
NotDecoded(bomb) == [ok |-> FALSE, bomb |-> bomb]

\* One coding that is known is taken off, if it is there and not too much comes out.
DecodeDeclared(declared, raw, big) ==
    CASE declared = <<>> -> DecodedTo(Outcome(raw, TRUE, "none"))
      [] Len(declared) > 1 \/ declared = <<"unknown">> ->
            DecodedTo(Outcome(raw, FALSE, "unsupported"))
      [] OTHER ->
            IF raw = <<>> \/ Head(raw) # declared[1] THEN NotDecoded(FALSE)
            ELSE IF big THEN NotDecoded(TRUE)
            ELSE DecodedTo(Outcome(Tail(raw), TRUE, "none"))

\* What is read of the head of an answer: without it, nothing is declared.
HeadOf(entry) == IF entry.state = "headless" THEN <<>> ELSE entry.response.declared
ParseCache2Metadata(entry) == [ok |-> entry.state # "cut", declared |-> HeadOf(entry)]
ParseResponseObject(entry) == HeadOf(entry)
ParseCachestorageMetadata(entry) == HeadOf(entry)

\* What cannot be decoded is shown as it is, and said to be.
FirefoxBody(entry, raw) ==
    LET o == DecodeDeclared(ParseCache2Metadata(entry).declared, raw, entry.response.big)
    IN  IF o.ok THEN o.outcome ELSE Outcome(raw, FALSE, "failed")

\* Mistake: what is kept is what the page got.
TakesItForDecoded(entry, raw) == Outcome(raw, TRUE, "none")

DecodeSafariBody(entry, raw) ==
    LET declared == ParseResponseObject(entry)
        o == DecodeDeclared(declared, raw, entry.response.big)
        looksCompressed == \/ declared = <<"br">>
                           \/ declared = <<"gzip">> /\ raw # <<>> /\ Head(raw) = "gzip"
    IN  CASE ~looksCompressed ->
                Outcome(raw, TRUE, IF declared = <<"gzip">> THEN "stored decoded" ELSE "none")
          [] looksCompressed /\ o.ok -> o.outcome
          [] OTHER -> IF o.bomb THEN Outcome(raw, FALSE, "failed")
                      ELSE Outcome(raw, TRUE, "stored decoded")

UsableBody(entry, raw) ==
    LET declared == ParseCachestorageMetadata(entry)
        o == DecodeDeclared(declared, raw, entry.response.big)
    IN  CASE declared = <<>> -> Outcome(raw, TRUE, "none")
          [] declared # <<>> /\ o.ok /\ o.outcome.decoded /\ o.outcome.body # raw ->
                Outcome(o.outcome.body, TRUE, "re-inflated")
          [] OTHER -> Outcome(raw, TRUE, "stored decoded")

-----------------------------------------------------------------------------
(* The browser. *)

EntryOf(r, kept, state, overflow, cache) ==
    [there |-> TRUE, response |-> r, kept |-> kept, state |-> state, overflow |-> overflow,
     cache |-> cache]
\* A file may be cut, and the head of an answer unreadable; a row is never cut.
EntryStates == IF layout = "cfurl" THEN {"whole", "headless"} ELSE {"whole", "headless", "cut"}
\* Over an index that is cut no browser is at work.
Edited == edits < MaxEdits /\ edits' = edits + 1 /\ ~listed.cut
Replaced(p) == lasting' = lasting \ {p}
\* A row goes to the log first, a file is written at once.
Puts(p, e) ==
    /\ stored' = [stored EXCEPT ![p] = e]
    /\ held' = IF layout = "cfurl" THEN held ELSE [held EXCEPT ![p] = e]

\* Written anew, in a place that may have been used before, and perhaps only begun.
StoreEntry ==
    /\ Edited
    /\ \E p \in Places, r \in Responses, state \in EntryStates \ {"headless"}, cache \in listed.caches :
          /\ ~stored[p].there /\ Replaced(p)
          /\ \E kept \in Kept(r) : Puts(p, EntryOf(r, kept, state, "inline", cache))
    /\ UNCHANGED <<layout, listed, toRead, found, inLog>>
EvictEntry ==
    /\ Edited
    /\ \E p \in Places : stored[p].there /\ Replaced(p) /\ Puts(p, NoEntry)
    /\ UNCHANGED <<layout, listed, toRead, found, inLog>>
\* Safari's file of a body may go before its row.
RemoveBodyFile ==
    /\ Edited
    /\ \E p \in Places :
          /\ held[p].there /\ held[p].overflow = "file" /\ Replaced(p)
          /\ LET e == held[p]
                 gone == EntryOf(e.response, e.kept, e.state, "gone", e.cache)
             IN  /\ held' = [held EXCEPT ![p] = gone]
                 /\ stored' = IF stored[p] = e THEN [stored EXCEPT ![p] = gone] ELSE stored
    /\ UNCHANGED <<layout, listed, toRead, found, inLog>>
CheckpointRows ==
    /\ held # stored /\ held' = stored
    /\ UNCHANGED <<layout, stored, listed, edits, toRead, found, lasting, inLog>>
\* A cache is taken out of the index; its directory goes later.
DeleteCache ==
    /\ Edited /\ layout = "cachestorage"
    /\ \E c \in listed.caches :
          /\ listed' = [listed EXCEPT !.caches = @ \ {c}]
          /\ lasting' = {p \in lasting : stored[p].cache # c}
    /\ UNCHANGED <<layout, stored, held, toRead, found, inLog>>

-----------------------------------------------------------------------------
(* The readers. *)

\* Mistake: one cache of an origin.
FirstCacheOnly == IF listed.cut \/ listed.caches = {} THEN {} ELSE {CHOOSE c \in listed.caches : TRUE}

\* An index that is cut within a cache decodes to nothing, whatever is whole before the
\* cut; a cache that is not listed is not entered.
ParseCachestorageIndex == IF listed.cut THEN {} ELSE listed.caches

\* The log of Cache.db, which is opened as if nothing could change it, is not looked at.
BeginReading ==
    /\ toRead = NotBegun
    /\ LET entered == IF layout = "cachestorage" THEN ParseCachestorageIndex ELSE listed.caches
       IN  toRead' = {p \in Places : held[p].there /\ held[p].cache \in entered}
    /\ lasting' = {p \in Places : /\ stored[p].there /\ stored[p].cache \in listed.caches
                                  /\ stored[p].state # "cut"}
    /\ inLog' = {p \in Places : held[p] # stored[p]}
    /\ UNCHANGED <<layout, stored, held, listed, edits, found>>

ResourceRead(p, entry, raw, usable, note) ==
    [at |-> p, of |-> entry, raw |-> raw, body |-> usable.body, decoded |-> usable.decoded,
     note |-> IF note = "none" THEN usable.note ELSE note]

ResourceFromCache2Bytes(p) ==
    LET entry == held[p] IN ResourceRead(p, entry, entry.kept, FirefoxBody(entry, entry.kept), "none")
\* A row whose file cannot be read is a resource all the same.
ResourceFromRow(p) ==
    LET entry == held[p]
        raw == IF entry.overflow = "gone" THEN Missing ELSE entry.kept
    IN  ResourceRead(p, entry, raw, DecodeSafariBody(entry, raw),
                 IF entry.overflow = "gone" THEN "unreadable" ELSE "none")
ResourceFromCachestorageEntry(p) ==
    LET entry == held[p] IN ResourceRead(p, entry, entry.kept, UsableBody(entry, entry.kept), "none")

\* An entry that went away, or is cut, is passed over.
ReadEntry ==
    /\ toRead # NotBegun
    /\ \E p \in toRead :
          /\ toRead' = toRead \ {p}
          /\ found' = IF ~held[p].there \/ held[p].state = "cut" THEN found
                      ELSE found \cup {CASE layout = "cache2" -> ResourceFromCache2Bytes(p)
                                         [] layout = "cfurl" -> ResourceFromRow(p)
                                         [] layout = "cachestorage" -> ResourceFromCachestorageEntry(p)}
    /\ UNCHANGED <<layout, stored, held, listed, edits, lasting, inLog>>

-----------------------------------------------------------------------------

\* One entry of any kind, or nothing.
NoEntries == [p \in Places |-> NoEntry]
AnyPlace == CHOOSE p \in Places : TRUE
BodiesInit ==
    /\ layout \in {"cache2", "cfurl", "cachestorage"}
    /\ listed \in IF layout = "cachestorage" THEN [caches : (SUBSET CacheNames) \ {{}}, cut : BOOLEAN]
                  ELSE {[caches |-> {NoName}, cut |-> FALSE]}
    /\ \/ stored = NoEntries
       \/ \E r \in Responses, state \in EntryStates, overflow \in {"inline", "file"} :
             /\ overflow = "file" => layout = "cfurl"
             /\ \E kept \in Kept(r), cache \in (IF layout = "cachestorage" THEN CacheNames ELSE {NoName}) :
                   stored = [NoEntries EXCEPT ![AnyPlace] = EntryOf(r, kept, state, overflow, cache)]
    /\ held = stored
    /\ edits = 0 /\ toRead = NotBegun /\ found = {} /\ lasting = {} /\ inLog = {}
NothingCached == layout = "cfurl" /\ stored = NoEntries

BodiesNext == StoreEntry \/ EvictEntry \/ RemoveBodyFile \/ CheckpointRows \/ DeleteCache
                \/ BeginReading \/ ReadEntry
BodiesSpec == BodiesInit /\ [][BodiesNext]_bodyVars

-----------------------------------------------------------------------------

\* What the readers have no way to tell, or do not tell: a body that the page got in the
\* coding that was declared once more; one that was kept in a coding of which the head of
\* the answer told; and, for Safari, one that was kept in several.
CannotTell(r) ==
    LET kept == r.of.kept
        declared == r.of.response.declared
    IN  \/ kept = r.of.response.delivered /\ kept # <<>> /\ declared = <<Head(kept)>>
        \/ r.of.state = "headless" /\ kept # r.of.response.delivered
        \/ layout = "cfurl" /\ Len(declared) > 1 /\ kept = Wire(r.of.response)

\* What the readers pass over without a word: the caches that are whole in an index which
\* is cut behind them, though cachestorage.rs 126-128 says that "a partial index still lets
\* the caller walk" them, and what Safari has in the log of Cache.db only.
PassedOver(p) == \/ layout = "cachestorage" /\ listed.cut
                 \/ layout = "cfurl" /\ p \in inLog

\* A body that is shown as usable, with nothing said against it, is the one that the page
\* got; what was kept is there beside it; and what the browser has in a cache of its index,
\* whole, and leaves alone while the cache is read is shown, but for what is passed over
\* (safari.rs 20-26, 77-80, cachestorage.rs 25-35, 44-48, firefox.rs 42-48).
BodiesAreWhatWasDelivered ==
    /\ \A r \in found :
          /\ r.decoded /\ r.note = "none" /\ ~CannotTell(r) => r.body = r.of.response.delivered
          /\ r.raw = r.of.kept \/ (r.raw = Missing /\ r.note = "unreadable")
          /\ r.of.state # "cut"
    /\ toRead = {} =>
          \A p \in lasting : PassedOver(p) \/ \E r \in found : r.at = p /\ r.of = stored[p]

=============================================================================
