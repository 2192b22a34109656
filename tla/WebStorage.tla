------------------------------ MODULE WebStorage ------------------------------
(***************************************************************************)
(* Chromium's web storage, which pages change, and what is read of it      *)
(* (browser-forensic-storage, lib.rs, chromium.rs, indexeddb/).            *)
(*                                                                         *)
(* Local storage and IndexedDB are each a LevelDB: records with numbers    *)
(* that only grow, of which the last of a key counts, and which compaction *)
(* drops when a later one supersedes them.  All records that are left are  *)
(* read, and given the time, or the names, that other records tell.        *)
(***************************************************************************)
EXTENDS Naturals, Sequences, FiniteSets, SequencesExt, StableSort

CONSTANTS Origins, ItemKeys, StoreNames,
          ItemValues,     \* whole, or such as cannot be decoded
          MaxRecords      \* how many records pages write

ASSUME StorageAssumption == MaxRecords \in Nat

VARIABLES format,     \* "local" or "indexeddb"
          sources,    \* what else is in the profile, and how the path was given
          ldb,        \* the record of each number that is left
          lastSeq,    \* the number of the last that was written
          databases,  \* of each origin the number of its database, or none
          storeNames, \* of each database that is there the name of its store
          items,      \* history: what a page gets for a key
          calledOnce, \* history: whose database each number was, by what names
          changed     \* history: when each origin last changed something

storageVars == <<format, sources, ldb, lastSeq, databases, storeNames, items, calledOnce, changed>>

NoDb == 0
Db(id, origin, store) == [id |-> id, origin |-> origin, store |-> store]
Unknown == "unknown"
Nothing == [none |-> TRUE]

\* Keys of records.
Meta(o) == [is |-> "meta", of |-> o]
Item(of, k) == [is |-> "data", of |-> of, k |-> k]
DbName(o) == [is |-> "database", of |-> o]
StoreName(id) == [is |-> "store", of |-> id]
Written(key, value) == [key |-> key, value |-> value, deleted |-> FALSE]
Tombstone(key) == [key |-> key, value |-> Nothing, deleted |-> TRUE]

Opaque == [plain |-> FALSE]
Elsewhere == [key |-> [is |-> "other"], at |-> 0]    \* a record of another source

-----------------------------------------------------------------------------
(* Pages. *)

\* A batch of records is written as one.
Write(batch) ==
    /\ lastSeq + Len(batch) <= MaxRecords
    /\ lastSeq' = lastSeq + Len(batch)
    /\ ldb' = [n \in DOMAIN ldb \cup (lastSeq + 1)..lastSeq' |->
                  IF n <= lastSeq THEN ldb[n] ELSE batch[n - lastSeq]]
WithKey(f, key, value) == [k \in DOMAIN f \cup {key} |-> IF k = key THEN value ELSE f[k]]
WithoutKey(f, key) == [k \in DOMAIN f \ {key} |-> f[k]]

\* The time of a change is a record of its own; it is the number written here.
SetItem(o, k, v) ==
    /\ format = "local"
    /\ Write(<<Written(Item(o, k), v), Written(Meta(o), lastSeq + 1)>>)
    /\ items' = WithKey(items, Item(o, k), v) /\ changed' = [changed EXCEPT ![o] = lastSeq + 1]
    /\ UNCHANGED <<format, sources, databases, storeNames, calledOnce>>
RemoveItem(o, k) ==
    /\ format = "local" /\ Item(o, k) \in DOMAIN items
    /\ Write(<<Tombstone(Item(o, k)), Written(Meta(o), lastSeq + 1)>>)
    /\ items' = WithoutKey(items, Item(o, k)) /\ changed' = [changed EXCEPT ![o] = lastSeq + 1]
    /\ UNCHANGED <<format, sources, databases, storeNames, calledOnce>>
ClearOrigin(o) ==
    /\ format = "local" /\ changed[o] > 0
    /\ LET cleared == {key \in DOMAIN items : key.of = o}
       IN  /\ Write(SetToSeq({Tombstone(key) : key \in cleared}) \o <<Tombstone(Meta(o))>>)
           /\ items' = [key \in DOMAIN items \ cleared |-> items[key]]
    /\ UNCHANGED <<format, sources, databases, storeNames, calledOnce, changed>>

\* A database gets a number that none had before.
CreateDatabase(o, name) ==
    /\ format = "indexeddb" /\ databases[o] = NoDb
    /\ LET id == lastSeq + 1
       IN  /\ Write(<<Written(DbName(o), id), Written(StoreName(id), name)>>)
           /\ databases' = [databases EXCEPT ![o] = id]
           /\ storeNames' = WithKey(storeNames, id, name)
           /\ calledOnce' = calledOnce \cup {Db(id, o, name)}
    /\ UNCHANGED <<format, sources, items, changed>>
RenameStore(o, name) ==
    /\ databases[o] # NoDb /\ storeNames[databases[o]] # name
    /\ Write(<<Written(StoreName(databases[o]), name)>>)
    /\ storeNames' = [storeNames EXCEPT ![databases[o]] = name]
    /\ calledOnce' = calledOnce \cup {Db(databases[o], o, name)}
    /\ UNCHANGED <<format, sources, databases, items, changed>>
PutItem(o, k, v) ==
    /\ databases[o] # NoDb
    /\ Write(<<Written(Item(databases[o], k), v)>>)
    /\ items' = WithKey(items, Item(databases[o], k), v)
    /\ UNCHANGED <<format, sources, databases, storeNames, calledOnce, changed>>
DeleteDatabase(o) ==
    /\ databases[o] # NoDb
    /\ LET id == databases[o]
           cleared == {key \in DOMAIN items : key.of = id}
       IN  /\ Write(SetToSeq({Tombstone(key) : key \in cleared})
                    \o <<Tombstone(StoreName(id)), Tombstone(DbName(o))>>)
           /\ databases' = [databases EXCEPT ![o] = NoDb]
           /\ storeNames' = WithoutKey(storeNames, id)
           /\ items' = [key \in DOMAIN items \ cleared |-> items[key]]
    /\ UNCHANGED <<format, sources, calledOnce, changed>>

\* The last that was written of a key.
IsLast(n) == \A m \in DOMAIN ldb : ldb[m].key = ldb[n].key => m <= n
\* Compaction of a key leaves its last record, and that only if it is no tombstone.
Compact ==
    /\ \E key \in {ldb[n].key : n \in DOMAIN ldb} :
          LET kept == {n \in DOMAIN ldb : ldb[n].key = key => ~ldb[n].deleted /\ IsLast(n)}
          IN  ldb' = [n \in kept |-> ldb[n]]
    /\ ldb' # ldb
    /\ UNCHANGED <<format, sources, lastSeq, databases, storeNames, items, calledOnce, changed>>

-----------------------------------------------------------------------------
(* The readers. *)

LiveOf(is) == {n \in DOMAIN ldb : ldb[n].key.is = is /\ ~ldb[n].deleted}
\* Of the records that tell of one thing the last counts, and no tombstone.
Latest(S) == CHOOSE n \in S : \A m \in S : m <= n
\* Mistake: the first that was written counts.
FirstWritten(S) == CHOOSE n \in S : \A m \in S : n <= m

TheOneThatCounts(S) == Latest(S)

Told(S, otherwise) == IF S = {} THEN otherwise ELSE ldb[TheOneThatCounts(S)].value

DataRecords == {n \in DOMAIN ldb : ldb[n].key.is = "data"}

\* A record of an item, whatever its age, bears the last time its origin told.
LocalEvent(n) ==
    [key |-> ldb[n].key, seq |-> n, deleted |-> ldb[n].deleted, value |-> ldb[n].value,
     at |-> Told({m \in LiveOf("meta") : ldb[m].key.of = ldb[n].key.of}, 0)]
LocalRecordsToEvents == {LocalEvent(n) : n \in DataRecords}

\* The names of a database and of its store are in records of their own; a value is
\* unwrapped and decoded, or said not to be.
NamesOf(id) ==
    LET dbs == {m \in LiveOf("database") : ldb[m].value = id}
    IN  Db(id, IF dbs = {} THEN Unknown ELSE ldb[TheOneThatCounts(dbs)].key.of,
           Told({m \in LiveOf("store") : ldb[m].key.of = id}, Unknown))
DecodeValue(r) == IF r.deleted \/ r.value.plain THEN r.value ELSE Opaque
DecodeIndexeddb ==
    {[key |-> ldb[n].key, seq |-> n, deleted |-> ldb[n].deleted, value |-> DecodeValue(ldb[n]),
      db |-> NamesOf(ldb[n].key.of)] : n \in DataRecords}
\* Records of IndexedDB bear no time.
IndexeddbEvent(r) ==
    [key |-> r.key, seq |-> r.seq, deleted |-> r.deleted, value |-> r.value, db |-> r.db, at |-> 0]
ParseIndexeddb == {IndexeddbEvent(r) : r \in DecodeIndexeddb}

\* A path is the directory of a LevelDB, or a profile, whose sources are read one after
\* another; one that cannot be read is passed over, and none at all is an error.
\* Records come in whatever order their files have.
Failure == [ok |-> FALSE, events |-> <<>>]
ParseLeveldbDir ==
    IF ~sources.opens THEN Failure
    ELSE [ok |-> TRUE,
          events |-> SetToSeq(IF format = "local" THEN LocalRecordsToEvents ELSE ParseIndexeddb)]
CollectChromiumWebStorage == ParseLeveldbDir.events \o sources.others
ParsePath ==
    IF ~sources.isProfile THEN ParseLeveldbDir
    ELSE IF CollectChromiumWebStorage = <<>> THEN Failure
    ELSE [ok |-> TRUE, events |-> CollectChromiumWebStorage]
RunStorage ==
    LET read == ParsePath
        times == [k \in DOMAIN read.events |-> read.events[k].at]
    IN  [ok |-> read.ok, events |-> SortedByKey(read.events, times)]

-----------------------------------------------------------------------------

NoSources == [opens |-> FALSE, isProfile |-> FALSE, others |-> <<>>]
StorageInit ==
    /\ format \in {"local", "indexeddb"}
    /\ sources \in [opens : BOOLEAN, isProfile : BOOLEAN, others : {<<>>, <<Elsewhere>>}]
    /\ (~sources.isProfile => sources.others = <<>>)
    /\ ldb = <<>> /\ lastSeq = 0 /\ databases = [o \in Origins |-> NoDb] /\ storeNames = <<>>
    /\ items = <<>> /\ calledOnce = {} /\ changed = [o \in Origins |-> 0]

PagesWrite ==
    \E o \in Origins :
        \/ \E k \in ItemKeys, v \in ItemValues : SetItem(o, k, v) \/ PutItem(o, k, v)
        \/ \E k \in ItemKeys : RemoveItem(o, k)
        \/ \E name \in StoreNames : CreateDatabase(o, name) \/ RenameStore(o, name)
        \/ ClearOrigin(o) \/ DeleteDatabase(o)
StorageNext == PagesWrite \/ Compact
StorageSpec == StorageInit /\ [][StorageNext]_storageVars

-----------------------------------------------------------------------------

ReadEvents == ToSet(ParseLeveldbDir.events)
LastOf(read, key) == CHOOSE e \in read : e.key = key /\ \A d \in read : d.key = key => d.seq <= e.seq
IsLive(key) == key \in DOMAIN items

TimeIsItsOrigins(e) ==
    IF IsLive(e.key) THEN e.at = changed[e.key.of] ELSE e.at <= changed[e.key.of]
NamesWereItsDatabases(e) ==
    /\ \E was \in calledOnce : was.id = e.key.of /\ e.db.origin \in {was.origin, Unknown}
    /\ e.db.store = Unknown \/ \E was \in calledOnce : was.id = e.key.of /\ was.store = e.db.store
    /\ IsLive(e.key) =>
          \E o \in Origins : databases[o] = e.key.of /\ e.db = Db(e.key.of, o, storeNames[e.key.of])

\* The last that is shown of an item is what the page gets for it: its value, or that it
\* is deleted, whatever was written before, compacted or not, and no item is left out.  An
\* item that a page still gets bears the time at which its origin last changed, or the
\* names its database and store have now; what is left of others bears none that was not
\* theirs; and a source that cannot be read hides no other (chromium.rs 22-30, record.rs
\* 126-128, lib.rs 139-141).
StoredItemsAreAttributed ==
    LET read == ReadEvents
    IN  /\ sources.opens => DOMAIN items \subseteq {e.key : e \in read}
        /\ \A e \in read :
              LET last == LastOf(read, e.key)
              IN  /\ last.deleted = ~IsLive(e.key)
                  /\ IsLive(e.key) /\ last.value # Opaque => last.value = items[e.key]
                  /\ IF format = "local" THEN TimeIsItsOrigins(e) ELSE NamesWereItsDatabases(e)
        /\ sources.isProfile => ToSet(sources.others) \cup read = ToSet(RunStorage.events)

=============================================================================
