# browser-forensic: specifications, checks and proofs

TLA+ specifications of browser-forensic, a workspace of Rust crates that parses
browser artifacts (Chromium, Firefox, Safari, WebCache) for forensic use, and of
its command `br4n6`. Paths below are relative to `src/crates/`; "cli" is
`browser-forensic-cli/src`, and a crate is named without `browser-forensic-`.

- [The system](#the-system)
- [Modules](#modules)
- [The models and the code](#the-models-and-the-code)
- [Runs](#runs)
- [Fairness](#fairness)
- [Proofs](#proofs)
- [What the checks found](#what-the-checks-found)
- [What is not modelled](#what-is-not-modelled)
- [Plan](#plan)

## The system

Most of the workspace is stateless: a parser is given a path, reads a file or
runs one SQL query over it, and returns events. State, failure and concurrency
are in the places below, listed with what each keeps, does and must guarantee.

| component | code | state | operations | must hold | modelled |
|---|---|---|---|---|---|
| resume state | `cli/checkpoint.rs` | `DIR/.br4n6-resume.json`, temp files, the session in memory | fingerprint, load, resume_or_new, completed_unit, record, write_atomic | a resumed report equals an uninterrupted one; saved work is not done again; a crash leaves a whole file | yes |
| investigate run | `cli/cli.rs` (run_investigate), `cli/investigate.rs` | the plan, the merged report, the cancel flag, `manifest.json`, `summary.txt`, `findings.jsonl` | open the checkpoint, discover, loop over profiles, deep phase, write outputs, render; Ctrl-C | a partial run is never taken for a finished one; every run ends | the control here, what is found in `Findings` |
| container reader | `cli/imagecarve_container.rs` | a worker thread, three channels, a mutex | open, read_at, drop; the worker's loop | each reader gets its own answer; nobody waits for ever; no thread is left | yes |
| whole-image carve | `imagecarve/src/lib.rs` | window, signatures seen, counters | read a window, carve its hits, advance | every signature carved once; work bounded; ends; does not panic | the scan |
| evidence databases | `core/src/sqlite.rs` | a working copy of `{db, -wal, -shm}` | choose in place or copy; copy; open; read; drop | what is read is a state the browser committed, and the last one if nothing moves | yes |
| findings, recover | `cli/investigate.rs`, `cli/recover.rs`, `core/src/finding.rs` | a list | generate, stamp the origin, deduplicate, rank | nothing is lost but duplicates; the deep tier shows what the others show | yes |
| triage | `triage/src/lib.rs` | a report | parse each artifact of a profile, absorb failures | one broken artifact does not take another with it | yes |
| discovery | `discovery`, `cli/detect.rs`, `manifest` | none | sweep a tree, find the known places, enumerate, detect | bounded depth; each container once; what is investigated is hashed | yes |
| selectors | `cli/selectors.rs` | none | filter profiles, stamp events, refuse | only what was selected, all that was selected | filter and refusal |
| history reconstruction | `core/src/reconstruct.rs` | none | referrer chains, depths, redirects, sessions | ends on cyclic referrers; counts no visit twice | all but a filter |
| timeline, correlation | `cli/cli.rs` (run_timeline), `correlate` | none | merge streams, exchange URL history for visits, chains, referrer graph | ordered; each history once; no chain crosses a profile | which events, which edges |
| integrity | `integrity` | none | gaps in identifiers, counters, clock jumps, tombstones | deletion shows; honest use does not | histories, cookies, counters |
| search and IOC | `cli/find.rs`, `search` | none | collect, match, attribute, answer | each hit is there; what is there is hit; the negative result is true | all but patterns |
| chain of custody | `manifest`, `cli/bundle.rs` | the output directory | collect, hash, write, seal | what verifies is one run | the bundle, exports, digests |
| cache formats | `cache` | none | chains of blocks, indexes, carving; bodies and their codings | live and evicted are told apart; a body is the page's | five formats |
| parsers | `chrome`, `firefox`, `safari`, `webcache` | none | one reader per artifact | a row stands for itself | rows, needs, clocks, order |
| page reconstruction | `reconstruct` | index, page, budgets | index the caches, inline, write | the manifest accounts for each address; budgets hold | yes |
| secret decryption | `cli/keys.rs`, `decrypt` | a secrets file | find keys, decrypt, print, redact | shown is what was stored, or said to have failed | keys, values, output |
| web storage | `storage` | none | read LevelDB records, attribute times and names | the last record counts and is attributed to its origin | local storage, IndexedDB, Firefox's tables |
| viewer | `cli/lib.rs`, `cli/tui.rs` | cursor, sort, search, tags | reduce a key, prompt, perform an effect | the cursor stays on the lists; what is taken is what was marked | yes |
| verb dispatch | `cli/cli.rs` (run) | none | choose the verb | | the verbs above |
| record carving, memory, disk images, interpretation, MCP bridge, Python, rendering | `carve`, `memory`, `image`, `interpret`, `mcp`, `py`, `cli/render.rs`, `export.rs`, `report.rs`, `output.rs` | none | | | no |

How they interact in the program's main command, `br4n6 investigate ROOT -o DIR`
(`cli.rs` 1332-1484): the run takes a fingerprint of ROOT, opens the checkpoint
session over DIR, discovers the profiles, and goes over them in discovery
order. A profile whose unit the session holds is reused; any other is parsed
(triage over the family's parsers, integrity, each through `open_evidence_db`),
recorded in the session, which rewrites the resume file (temp file, then
rename), and merged. Between two profiles the run looks at a flag that a Ctrl-C
handler thread sets; the handler exits the process at the second Ctrl-C. After
the loop, unless it was interrupted, the deep tier runs the recovery engines
over the same evidence. The findings are assembled from the merged report, the
three output files are written to DIR one after the other and the summary is
rendered. `br4n6 image-carve IMAGE` opens the image, for a container format over
the container reader, and carves it window by window.

The other verbs share these parts and keep no state from one run to the next:
`timeline`, `find`, `export` and `report` discover the profiles as investigate
does, apply the selectors and go over the events of triage; `recover` runs the
engines of the deep tier by themselves; `artifact` runs one parser, with `--keys`
over the key material found beside it; `reconstruct` and `cache` read the caches;
`integrity` runs the checks on one database; `tui` keeps a reducer's state as
long as it is on the screen.

What is hard here:

- *crashes and power*: a process can die between any two file operations; there
  is no fsync;
- *restarts*: a run resumes from a file another run wrote, or writes a bundle over
  what another left, perhaps over other evidence, at another tier;
- *evidence that changes under a run*: a live browser commits, checkpoints,
  evicts, compacts, between two reads of the same file or of two files that
  belong together;
- *evidence that was changed before it*: rows deleted, counters reset, links that
  dangle or run in circles, files cut short;
- *interrupts* at any point, looked at in one place;
- *two processes over one DIR*;
- *threads*: readers share one worker through channels it may drop at any time;
- *two ways to the same thing*: profiles found by place or by structure, history by
  URL or by visit, an entry live or evicted, scoped and unscoped collection: each
  pair must agree, and each is written twice;
- *partial failure*: one artifact, table, row, key or backup that cannot be read
  among others that can;
- *boundaries*: overlapping windows, short reads, caps, budgets, unsigned
  subtraction.

## Modules

| module | what it is | code |
|---|---|---|
| `ResumeState` | fingerprints, units, checkpoints, sessions and their operators; no state | `cli/checkpoint.rs` |
| `Investigate` | processes that run investigate, the operator, the system, the evidence | `cli/cli.rs`, `cli/checkpoint.rs`, `cli/investigate.rs` |
| `InvestigateInv` | the inductive invariant; the refinement mapping to `UnitLog` | |
| `UnitLog` | abstract: a log of completed units that only grows | |
| `MCInvestigate` | instances for TLC | |
| `InvestigateProofs` | theorems: what is resumed, how a run ends, and the file as a log | |
| `ContainerReader` | owner, worker and readers of a container source | `cli/imagecarve_container.rs` |
| `PositionedRead` | abstract: what a positioned read promises | |
| `ContainerReaderProofs` | theorems | |
| `ImageCarve`, `ImageCarveProofs` | the windowed scan; theorems | `imagecarve/src/lib.rs` |
| `EvidenceDb` | an evidence database and the browser that owns it | `core/src/sqlite.rs` |
| `Viewer`, `ViewerProofs` | the reducer of the terminal viewer and the loop around it; theorems | `cli/lib.rs`, `cli/tui.rs` |
| `StableSort`, `OrderProofs` | the library's stable sort and filter; what sorting, picking, listing, joining and flattening keep | |
| `Reconstruct`, `HistoryChains` | referrers, depths, redirect chains, sessions; the verb that shows them | `core/src/reconstruct.rs` |
| `Timeline` | which events each view of the timeline shows | `cli/cli.rs`, `correlate` |
| `HistoryIntegrity` | a history's life and what the checks say of it | `integrity` |
| `HistoryProofs` | theorems of `Timeline`, `HistoryIntegrity` and `HistoryChains` | |
| `Triage` | what is read of one profile | `triage`, `cli/cli.rs` |
| `Findings` | tiers, engines, deduplication, rank | `cli/investigate.rs`, `cli/recover.rs`, `core/src/finding.rs` |
| `Find` | find and its IOC form | `cli/find.rs`, `search` |
| `CacheCarve` | Chromium's two disk caches at work, read and carved | `cache` |
| `CachedBodies` | bodies of Firefox's, Safari's and the Cache API's caches | `cache` |
| `Deliver` | the bundle and the exports over runs that fail | `manifest`, `cli/bundle.rs`, `cli/cli.rs` |
| `Stores` | what a parser is given: lists of rows | |
| `ChromiumParsers`, `FirefoxParsers`, `SafariParsers` | each parser as a function of a store | `chrome`, `firefox`, `safari`, `webcache`, `storage/src/firefox.rs` |
| `Artifacts` | `br4n6 artifact` over a file that rows are added to and damaged in | `cli/cli.rs` |
| `PageRebuild` | pages rebuilt from the caches | `reconstruct`, `cli/cli.rs` |
| `EvidenceTree` | a directory tree with links, as walks and system calls see it | |
| `Discovery` | sweep, known places, manifest inputs, detection | `discovery`, `manifest`, `cli/detect.rs` |
| `Secrets` | keys, values, what is printed and written | `cli/keys.rs`, `decrypt`, `cli/cli.rs` |
| `WebStorage` | local storage and IndexedDB over a LevelDB at work | `storage` |
| `VerbProofs` | theorems of `EvidenceDb`, `Secrets`, `Deliver`, `Discovery`, `Find`, `Findings` and `PageRebuild` | |
| `StoreProofs` | theorems of `CacheCarve`, `CachedBodies`, `WebStorage` and `Artifacts` | |
| `Br4n6` | the program from its entry: one verb runs | `cli/cli.rs` (run) |
| `MCBr4n6` | small evidence; instances for TLC | |

`Investigate` extends `ResumeState`; `InvestigateInv` composes `Investigate` with
`UnitLog` by a refinement mapping; `ContainerReader` instantiates `PositionedRead`
over its own variables `call` and `got`. `HistoryChains` and `Timeline` use
`Reconstruct`; `Findings`, `Find` and `Deliver` rest on `Triage`; `Discovery` and
`Secrets` on `EvidenceTree`; the parser modules on `Stores`. `Br4n6` composes all
the modules of the verbs: its variable `verb` is what is on the command line, the
state of that verb moves and the state of the others rests.

An operator introduced by "Mistake:" is not part of a specification. Each is a
plausible bug in the definition it stands before, with the same parameters; put
in that definition's place, it makes the property named with it in
`PROJECT.json` fail.

## The models and the code

**`ResumeState`.** A fragment is the profile it came from, the version of that
profile's content it was parsed from and the tier it was parsed at: parsing is
deterministic in these and the resume machinery never looks inside. The
evidence fingerprint of a directory is its canonical path and mtime
(`checkpoint.rs` 44-68). `ResumeOrNew` is lines 186-248: missing, corrupt,
mismatching or `--restart` gives a fresh session, otherwise the file is adopted
and its index rebuilt (`IndexOf`: the last position of a repeated key).

**`Investigate`.** One action is one call that touches something shared. The
values of `pc[p]` follow `run_investigate`:

```
open -> discover -> loop -> looped -> [deep] -> manifest, summary, findings -> render
                    |  ^
                    |  +-- ReuseUnit
                    +-> parse -> record -> temp -> rename -> merge -> loop
```

- `Launch` to `Discover`: `cli.rs` 1342-1379 and 892-911; the walk yields the
  profiles in any order, the selectors keep any part of them.
- `LoopInterrupted`, `ReuseUnit`, `BeginParse`, `Parse`, `Merge`, `LoopDone`:
  `run_profile_loop` (1022-1080) and `collect_one_profile` (953-988).
- `Record`, `WriteTemp`, `Rename`: `record` and `write_atomic`
  (`checkpoint.rs` 121-135, 256-280). The temp file is a step of its own, so
  that a crash can leave it behind; its name holds the pid.
- `BeginDeep`, `DeepDone`, `SkipDeep`: 1207-1225.
- `TruncateOut`, `FillOut`: each of the three files is emptied, then filled
  (1284-1315, 1400-1414). A file remembers the run it is of, whether it is whole
  and whether its footer claims that deep recovery ran.
- `Render`: the exit status (1465-1484).
- `Fail`: every `?`; `Interrupt`, `InterruptAgain`: the handler (1829-1845).
- `Crash`, `PowerLoss`, `WriteBack`, `EditRoot`, `EditNested` are the
  surroundings. A crash keeps what was written (the page cache survives a
  process); a loss of power leaves the resume file as it is, as it last reached
  the disk, or as garbage, and the output files as they are or lost. An edit that
  adds or removes an entry of the root moves its mtime (`EditRoot`), one inside a
  subdirectory does not (`EditNested`).

`opened` and `late` are history variables: the evidence as the run opened it,
and the profiles it parsed after a Ctrl-C. Three bounds are in guards: `MaxRuns`
(`Launch`), `MaxEdits` (`EditRoot`, `EditNested`); `clock` is bounded by the
first. Two processes that a crash ended come back as `Launch` of the same `p`.

**`ContainerReader`.** One action is one blocking operation of a thread. A
channel is a sequence; a receive fails when it is empty and its senders are gone,
a send when its receiver is. `slot` is the `Option<ReaderChannel>` in the mutex,
which `drop` takes before it joins (173-180). The decoder is a library: opening
may fail, reading may return any prefix, fail or panic. Rust's borrow rules are
in the guards: `Drop` needs that no reader holds the source. `MaxReads` bounds
the reads of each reader.

**`ImageCarve`.** `carve_image_with` (124-170) over images reduced to where the
SQLite signatures start. `Fills` is `fill` (172-183): all that was asked for, or
what came before a read that returned nothing or an error. `HitsIn` is
`find_all` (185-200). `CarveAt` is `carve_sqlite_at`, reduced to the number of
records it appends, up to its own cap. `build` says whether unsigned subtraction
is checked (debug and test builds) or wraps (release). A difference that wraps is
larger than the window and is clipped to it; a read at an offset past the end
returns nothing, hence `n' = 0`.

**`EvidenceDb`.** `open_evidence_db` (72-149) and the queries over what it opened,
against the browser that owns the database; the parsers are used on live profiles
too (`tests/open_evidence_db.rs`). `Look` is the test for a non-empty `-wal`;
`CopyPage` is `copy_and_hash`, page by page since the browser may write between
two; `CopyLog` is `copy_if_exists` of the log; `ReadPage` is what SQLite answers,
from the copy with its log or, under `immutable=1`, from the database alone;
`Close` is the drop, or a `?` before. SQLite's file format is external: a page is
the number of the commit that wrote it last, a log the pair of the commits it was
started over and ends with. `intact` and `still` are history variables: the log
was not started anew since the open looked for it, and nothing was written at all.
`MaxCommits` bounds the commits (`CommitToLog`, `WritePage`).

The other modules abstract their data further, each in its own way; control stays.

**`Viewer`.** The `App` of `lib.rs`: a tree of sources, windows, tabs and history,
a cursor with one position per level, a sort, an incremental search, tags. Each
`Action` of the reducer is an operator on the `App`; `Sort`, `Reload` and the two
line editors of `tui.rs` are steps of the loop. A tab is its id, its title and its
URL; a query selects by one of them. `marked` remembers which tabs the user tagged,
by id, where the program keeps positions.

**`Reconstruct`, `HistoryChains`.** A visit is its id, the id it came from, whether
it is a redirect, its time and its session. Lists are what a corrupt database may
yield: ids that dangle, repeat or run in circles. Operators are named for the
functions of `reconstruct.rs`; their walks are recursive functions on positions.

**`Timeline`.** A site is a place where a profile is looked for, its history store
missing, unreadable, readable by URL only or visit by visit. `RunTimeline` computes
what the default, flat, graph and chain views show, with and without selectors, by
the same two paths as the code: one over the whole triage stream, one per selected
profile.

**`HistoryIntegrity`.** The browser visits (`VisitPage`), deletes what its user has it
delete (`DeleteVisits`) and drops by itself what grew too old (`ExpireVisits`: all visits
before a time, and the url rows that nothing refers to any more); another writer cuts
visits, the clock is set back, a log is checkpointed. They change rows, ids,
AUTOINCREMENT marks, tombstones and the file's mtime as the checks take a browser to do.
Expiry is honest, a deletion is not. `life` is history: among others `fresh`, the visits
that are in the log and not yet in the file, and `expired`, the addresses that expiry
took. Checks only read, so each is a function of the database and the properties hold or
fail of every state that a life may reach.

**`Triage`, `Findings`, `Find`.** A profile is a set of items `<<file, what, datum>>`.
A file that cannot be read has the item `broken`: every reader of it fails and adds
nothing. `CollectOneProfile` reads what the family's triage reads, with carving and
integrity at the tiers that have them. `Findings` makes findings of a report and of
each recovery engine, folds, ranks and shows them; a run of investigate is one step
that stops after the profiles it got to, as `Investigate` does step by step. `Find`
has the two collections of cli.rs, scoped and unscoped, windows, sources, carved
hits and what an empty answer says was searched. A term is a datum.

**`CacheCarve`.** A browser stores, rewrites and evicts entries in one of two
formats: files `<hash>_0` and `<hash>_s` with an index that is behind them, or
blocks with a bitmap and a hash table of chains. A block that is freed keeps its
content until another entry takes it. The carver reads in the order of carve.rs: the
index (228), the directory (231), each `_0` (245-250) and, between the look for its
`_0` (275) and the read (279), each `_s`; then `data_1` with map and entries (341) and
`data_1` again for the streams (353, at the first address). The browser moves between
any two of these. A name that is there from the opening of the directory on is
returned, one that comes or goes meanwhile may be or not. `carved` is what has been
read so far; `unlisted`, `evicted`, `untouched` and `since` are history. One
`fs::read` of one file is one step; streams and keys lie in `data_1` (not in `f_` files,
nor are keys too long for their entry modelled).

**`CachedBodies`.** A body is the sequence of codings around the text. cache2 keeps
it as it came, Cache.db as the page got it, the Cache API either. `DecodeDeclared` and the
readers' notes are `decompress.rs` and the three backends. Places are read one by
one while entries are stored, replaced and removed. `stored` is what the browser has,
`held` what its files hold: a change of Cache.db goes to its log first and to the file by
`CheckpointRows`, and the reader looks at the file only. An index.txt that is cut within a
cache decodes to nothing (`fields`); one that is cut between two is an index of those
before. `lasting` says what the browser had all the time, whatever the reader makes of
the index. A text is taken never to be, by
accident, a stream of another coding.

**`Deliver`.** A run collects, hashes the evidence, then writes file by file over
what is there; it fails or is killed between any two steps. An event carries the
version of the profile it was read from, a digest the version that was hashed.

**`Stores`, the parsers, `Artifacts`.** A file is named lists of rows: tables,
arrays, lines, directory entries. A list is here, absent or changed (a column the
query asks for is gone). A row is reduced to its key, its time (none, zero or
later), whether its other columns are sound, the row it refers to and whether it is
of the sort asked for. Each parser says which lists it needs, which rows it keeps,
which clock it converts by and in which order it reports; a missing time is, or is
not, converted, as in the code. A time is none, zero, later, or `Huge`: one that no
conversion can express, where all stop at the last time there is but two that multiply
unchecked (`timestamp.rs` 39, `site_security.rs` 71): with `OverflowChecks`, as in a debug
build, they end the run; without, as in a release build, the time wraps. `utf8` says
whether a file is text throughout: a JSON document, a plist and `prefs.js` are read as one
text (`Walk`), other files as bytes (`WalkBytes`), tables by the row. `Artifacts` adds
rows, takes from one what its columns hold (`SpoilRow`), makes its bytes no text
(`GarbleRow`), or its time huge (`StretchRow`).

**`PageRebuild`.** A page is a sequence of elements of eight kinds, a body its length,
an address a value. The index, the order in which elements are rewritten, each
budget and where it is looked at, the record of found and missing and the names of
the files written are the code's.

**`EvidenceTree`, `Discovery`.** Nodes are numbered, a directory before what it
holds and files that a walk sorts in the order of their paths; a link has a target, which a system call follows and the sweep does not. A place like
`AppData/Local/Google/Chrome/User Data` is one name at the root. `SweepDir` takes
one directory from the queue.

**`Secrets`.** A ciphertext is the scheme, the key and the plaintext it was made from.
A key that is not its own fails for GCM and for wrapped keys, and may yield
`Garbage` for CBC, which has no tag. Keys are found by walking the tree, master keys
by their user's directory. `terminal`, `secretsFile` and `keyedManifest` are what
leaves the program.

**`WebStorage`.** A LevelDB is a set of records with growing sequence numbers; pages
put and delete items, name and drop databases and stores, and compaction removes
any record that a later one supersedes. `RunStorage` reads all that is left.

## Runs

| run | instance | properties |
|---|---|---|
| `one_process` | 2 profiles, 1 root, 1 process, 2 runs, 1 edit, power may fail, standard with and without `--restart`, deep with and without `-o` and `--manifest`: 2.5 M states | `IInv`, `ResumeEquivalence`, `ResumableIsCurrent`, `ParsesOnlyUnsaved`, `OutputsInOrder`, `AtMostOneLateParse`, `TornOnlyByPowerLoss`, `StatusIsHonest`, `ImplementsUnitLog` |
| `two_processes` | 2 processes over one DIR, 2 profiles, 2 tiers: 1.6 M states | `ResumeEquivalence` |
| `live` | 1 process, 2 runs, every line, edits the fingerprint does not see | `RunsEnd` |
| `nested_edit` | as `live`, 2 profiles; *violated* | `ResumeEquivalence` |
| `deep_after_ctrlc` | one deep run; *violated* | `NoDeepAfterCtrlC` |
| `reader_lifecycle` | 2 readers, an image of 2 bytes, every request of up to 3 bytes, 2 reads each: 9 k states, deadlock checked | `OneExchange`, `NoThreadLeft`, `IInv`, `ImplementsPositionedRead`, `CallsReturn` |
| `carve_scan` | every image of length 10, signatures of 2, windows of 5, an overlap asked for of 0 and raised to 2, caps 3: 69 k states | `IInv`, `EverySignatureCarvedOnce`, `ScanStaysInBounds`, `ScanEnds` |
| `tail` | as `carve_scan`; *violated* | `PanicFree` |
| `evidence_live` | every verb of `Br4n6` over the small evidence of `MCBr4n6`: 1.42 M states | the nineteen below |
| `evidence_in_place` | 2 pages, 2 commits; *violated* | `InPlaceIsSafe` |
| `cache_live` | 2 hashes; 2 URLs, 3 blocks, 2 steps of the browser between the two reads of `data_1`: 8.5 M states | `CarvedIsWhatWasEvicted` |
| `overwritten_body` | 2 URLs, 3 blocks, a browser that rests while the carver reads; *violated* | `FullIsItsOwn` |

What the properties of the core say, beyond their names:

- `ResumeEquivalence`: everything merged so far is what an uninterrupted run
  would have merged: in plan order, at this run's tier, and parsed from what is
  there now wherever the profile is still as the run opened it.
- `ResumableIsCurrent`: a checkpoint that matches the present evidence holds
  current parses of that root's profiles only, each once. Runs that outlive their
  fingerprint keep writing checkpoints; this says that those are never resumed
  over evidence they do not describe.
- `ParsesOnlyUnsaved`: nothing that the file holds for this evidence and tier is
  parsed again. It is about one process per DIR: two overwrite each other.
- `ImplementsUnitLog`: for one process at a time the resume file is a log that
  grows unit by unit until another investigation begins one; a loss of power
  takes it back to the log on the disk, or to none.
- `OutputsInOrder`: findings of a run stand beside its whole summary or a later one,
  and both with its whole manifest or a later one, also after crashes and failures in
  the middle of writing them. The manifest is the file that the run's command line
  sent it to: `--manifest PATH` (cli.rs 1400-1402) leaves a `manifest.json` of an
  earlier run in DIR beside the files of this one, so that DIR alone does not tell
  whose manifest it holds. Without `-o` the option writes the manifest alone.
- `StatusIsHonest`: status 0 means every planned profile merged (and deep
  recovery done, at the deep tier); the interrupted status that a Ctrl-C really
  cut the plan short; and a summary that says deep recovery ran is of a run that did it,
  unless that run was interrupted, which is excepted by name.
- `OneExchange`: the lock makes one request and its answer exclusive, and an
  error answer is an answer too: none is ever left for the next reader.
- `CallsReturn`: `open` and every `read_at` return, and a dropped source ends,
  whatever the decoder does.
- `EverySignatureCarvedOnce`: the overlap is at least one signature, so none that
  straddles windows is lost and `seen_sqlite` keeps it from being carved twice.
- `ScanStaysInBounds`: the caps bound databases and artifacts, and as long as reads
  deliver what the image holds, `len - base` does not underflow.

Those of `evidence_live`, each named with its module:

- `IInv`, `ReadsACommittedState` (`EvidenceDb`): two files copied one after the
  other, page by page, while commits and checkpoints go on, read as one committed
  state and none from before the open; and a database at rest reads as the last
  commit, whether it had a log or not (rollback journals aside). It depends on the
  order of the copies: a page that was checkpointed meanwhile belongs to a commit
  that the later copy of the log has. It holds while the log is not started anew;
  after that the code gives no guarantee, and none is claimed.
- `TaggedIsWhatWasMarked`, `OnlyAStaleMatchLeavesTheList` (`Viewer`): with a tag set,
  y and e take the tabs the user tagged that have a current entry, unless a sort moved
  tabs under the tags; and of all sequences of keys only n or N after a change of order take the cursor off
  the lists.
- `ChainsFollowTheReferrers` (`HistoryChains`): the depth of a visit counts its
  recorded ancestors up to the bound, also on circles; redirect chains are linked,
  and disjoint where ids are unique.
- `ScopedTimelineIsScoped`, `NavigableHistoryAppearsOnce` (`Timeline`): a selector
  leaves events of selected profiles only, stamped as theirs, and of each of them all
  the history that can be read (but a WebCache's beside chains); the default view has
  each readable history of a navigable family once, by visit or else by URL, and no
  chain crosses from one profile to another with the same ids.
- `HonestHistoryIsClean`, `DeletionIsNoticed` (`HistoryIntegrity`): use without
  tampering, expiry included, raises no indicator but the named `HonestExceptions`:
  "in the future" for a visit that is still in the log only, so that the file's mtime
  does not know it (none once the log is checkpointed, none without a log); a tombstone
  of an address that expiry took; and, in a Chromium history that expiry took an address
  from, the three indicators that compare a counter with the rows. Gaps and the order of
  ids, counts, last visits and cookies are never excepted. A wipe shows until the next
  visit, and a visit cut by another writer for as long as its url row is there and no
  redirect makes up for it.
- `DeepLosesNothing` (`Findings`): what an interrupted run, a lesser tier or a
  recovery shows, the deep run that goes to the end finds alike: of the same text,
  source, state and priority, and by the same rule if investigate showed it (a recovery
  names the rule of an indicator otherwise). It finds nothing twice and shows all it
  found, but for whose a finding is: of what two profiles have alike the first one's is
  kept.
- `CarvedIsWhatWasEvicted` (`CacheCarve`, run `cache_live`): a `_0` that is carved was
  evicted before it was looked at, unless it is newer than the index that was read or
  that index was cut; a `_s` was; a carved block was on no chain when the map was read.
  What was evicted when the carver began and stays whole until it is done is carved if
  the index does not list it, and a freed entry whose blocks nobody takes before its
  streams are read is, with its own streams and graded as complete as they are. Of one
  whose blocks were taken it says nothing: that is the run `overwritten_body`.
- `HitsAreWhatIsHeld` (`Find`): each live hit is in a selected profile, in its class
  and window (`--from` and `--to`, both inclusive), and what a file that can be read
  holds is hit, whatever its kind: downloads too where a profile was selected, which is
  excepted by name where none was.
- `VerifiedBundleIsOneRun` (`Deliver`): a directory whose hashes are right is the
  bundle of one run, however many failed over it; a run that ends well leaves one.
- `RowsStandAlone`, `BackedUpBookmarksAreKept` (`Artifacts`): over every parser, a row
  that is added or damaged changes nothing of what other rows say, of their order or
  of the parser's success. Excepted by name: bytes that are no text in a document that is
  read as one (`ReadAsText`), and, with overflow checks, a time that overflows in the two
  formats that do not clamp it (`MayOverflow`). A bookmark that some readable backup holds is current or
  reported once.
- `PageIsAccountedFor` (`PageRebuild`): each address is in the manifest at most once,
  found if and only if its body is in the page; what the page needs is in it, but
  for what a style refers to beyond a budget; caps hold but for one.
- `NoProfileIsLost` (`Discovery`): the sweep finds each container once, agrees with
  the known places, and the history of what is investigated is hashed, as is each that a
  detection is about, but for one of another family than its profile's.
- `SecretsAreGenuine` (`Secrets`): a value shown as decrypted is what was stored, for
  the host it is bound to, but for what CBC cannot tell; passwords are in the file
  asked for and nowhere else; the manifest names the key that was used.
- `BodiesAreWhatWasDelivered` (`CachedBodies`): a body shown as usable without a note
  is the page's, but where the code cannot tell; what the browser had all the time is
  read, but for all caches of an index that is cut within one, and what Safari has in
  the log of Cache.db only (`PassedOver`).
- `StoredItemsAreAttributed` (`WebStorage`): the last that is shown of an item is what
  a page gets, with its origin's time or its database's names, compacted or not.

Why the bounds are enough. A resumed run depends on the file one earlier run
left, so two runs with arbitrary crashes, edits and interrupts between any two of
their steps show every pair; the file's first writer may itself have started over
a corrupt file (`Init`). Two profiles are the least with an order, a unit already
saved and one not; one edit the least that separates a fingerprint from the one
after it. A third run, a second root, more profiles and any number of processes
are covered by the proofs for the properties they state. For the reader, a second
request of one reader can meet whatever the first of either left behind. For the
scan, images of two windows and a half have signatures in, across and between
overlaps, caps that are and are not reached, and a short last window; sizes of
any kind are covered by the proofs.

For `evidence_live`: of the databases, two pages are the least that can be of
different commits, and four commits (`MaxCommits`) let one fall before the open, one
between the two copies and one after. The viewer's tree has a window with two tabs in
different orders by title and URL, an empty window and an empty source; a second tree
has a tab without history: a move may end anywhere there is something, or nothing. Lists of three visits link in every way,
with circles of one to three, dangling and repeated ids, and times on both sides of
`IdleGap`; `MaxChainDepth` is 3, so that a walk is cut. Sites are two Chromium
profiles with the same ids, a Safari and a WebCache one: the families that differ.
Three visits (`MaxRows`) over two addresses and a clock of two (`MaxClock`) let one be
deleted between two, redirected and repeated, and all visits before a time expire: all, some or, of an address, the
first alone. Evidence for findings and find is every
subset of six items that interfere, beside another family or a twin with the same
label. Three blocks hold an entry with both streams, or one entry that takes another's
block. Two runs and one change (`MaxRuns`, `MaxChanges`) let every file of a bundle be
of either run. A row (`MaxTableRows` 2) is wanting in at most one respect, since each is
tested by itself, and two rows show that one does not touch another. The instance is a build with overflow
checks, where a time may end the run; the theorem is of both builds. Pages are all of
up to three elements of eight sorts, with three sub-resources, six units of output and
two addresses per style: each budget binds, before, in and after a style; one more has an
icon and then a stylesheet of one address. Trees are of
at most 13 nodes, with links up, across and to files, unreadable directories and
containers at and beyond a `SWEEP_MAX_DEPTH` of 2. Roots of keys are of two users. Two
places and two edits (`MaxEdits`) let an entry change before and after it was read; of
three codings (`CodingNames`) the readers know two;
six records (`MaxRecords`) over two origins or databases, one key and two names let
each be written, superseded, deleted and compacted.

Deadlock is not checked in the runs of `Investigate` and `ImageCarve`, where a
system that has used up its bound of runs, or a scan that is done, stops, nor where
verbs end (`evidence_live`) or a carver is done (`cache_live`, `overwritten_body`); it is
checked in `ContainerReader`,
whose ended states have a step of their own (`Finished`), and in `EvidenceDb` by
itself (`evidence_in_place`), where the next open is always possible.

## Fairness

- `Investigate`, `FairSpec`: weak fairness of `Step(p)`, a run's own program: it
  is one sequential thread that never waits for another. Nothing is assumed of
  launches, interrupts, crashes, edits or write-back.
- `ContainerReader`, `FairSpec`: weak fairness of the owner, of the worker (the
  decoder returns from what it is asked) and of each reader that is inside
  `read_at`. No reader is forced to read. The mutex has to be handed on only to
  readers whose number of reads is bounded, so weak fairness is enough.
- `ImageCarve`, `FairSpec`: weak fairness of `Next`; one thread.
- The rest: none; only safety is claimed, and a browser may stop anywhere. Their
  verbs are loops over lists that are given, and end by that.

## Proofs

All theorems hold for every value of the constants that satisfies the named
assumptions of the modules.

**`InvestigateProofs`**, for any number of processes, profiles, roots, runs and
edits, with crashes and losses of power: `TypeCorrect`, `IInvInvariant`, and, under
`EditsAreSeen` (no nested edits; `nested_edit` shows that it is needed),
`ResumeIsEquivalent`, `ResumableCheckpointIsCurrent`. Neither of these two is
inductive: a checkpoint is copied from memory to a temp file, to the resume file,
to the disk, back after a loss of power and into another run's memory, while the
evidence moves. `IInv` (`InvestigateInv`) says of a checkpoint in each of these
places that its units are of its root and tier, distinct, and, if edits are seen,
current as long as its fingerprint is. An edit voids that claim for ever, since an mtime only grows;
so the claim survives every step. A session and a report, which may outlive their
fingerprint, are related to the evidence as the run opened it instead. The proof
has a lemma per operator (`OpenedSessionIsSound`, for the rebuilt index, and the
one for `RecordInMemory`), a lemma per action, and one for the surroundings.

The same module on how a run ends, for the same and for edits of any kind, nested
ones included: `RunInvariant`, `OneLateParse`,
`TornFilesAreOfPowerLoss`, `StatusTellsTheTruth`; and, where no two processes share a
DIR (`OneProcess`), `OutputsKeepOrder`. `RunInv` ties the length of the report to the
plan at every step, the interrupted flag to the Ctrl-C and to a plan cut short, and the
late parse to a step that no other parse follows. `OutInv` adds that the files a run has
begun to write bear its number and no file a later one; with two processes that is
false, which is why the condition is there.

And on its file as a log, under `OneProcess` and for any edits: `LogInvariant`,
`SavedWorkIsNotRepeated`, and `ResumeFileIsALog`, the refinement of `UnitLog`.
`LogInv` says where a session stands to the file it will replace (`Continues`): it
has the file's units, and one more between record and rename; or it is new, under a
number later than any file's, because the file did not match. So a rename is
`Begin` or `Extend` (`RenameIsLogged`); write-back is `Persist`, a loss of power
`LosePower`, and every other step leaves the log alone.

**`ContainerReaderProofs`**, for any readers and any image:
`IInvInvariant`, `TypeCorrect`, `ExchangesDoNotMix`, `ThreadIsJoined`,
`SourceImplementsPositionedRead`. `IInv` says where the one request or answer is
(`InFlight`), that it is the lock holder's own, and that all channels are empty
when nobody waits.

**`ImageCarveProofs`**, for any image, window, overlap and caps:
`IInvInvariant`, `ScanIsComplete`, `CarveIsBounded`,
`NoOverflowWithoutShortReads`, and of these two `ScanIsBounded`. `IInv` says that
every signature before the window is seen, lost or still to do. `WindowFacts` is the
arithmetic it rests on: the floor of the window and the clamps of the overlap give
`Step >= 1` and an overlap of at least one signature for whatever sizes a caller asks
for.

**`OrderProofs`** has the lemmas on lists that the proofs of verbs use. `SortedIsPermutation` and
those around it say of `StableSort` what its definition leaves to a count: that the
places of the elements are a permutation, so the sorted list has each element once.
`LeastNat` and `GreatestNat` stand in for induction: a claim about all numbers is proved
from a least, or greatest, counterexample; `CountingUp` is that argument for a range. The
list of a set (`ListedSet`), the join of two lists (`ConcatList`) and of many
(`FlattenedList`) have the elements they should; the last is of a function that is chosen
by its recursive equation, which `BuiltUp` shows to have a solution. `GrownUpto` and
`GrownSetIs` say the same of a set of places that is grown step by step, as the walk of a tree
does. Two lists agree on a set of elements (`Agree`) when they have those elements as often
and in the same order, whatever lies between; sorting by key, picking, mapping and
joining keep that (`AgreeSorted`, `AgreePicked`, `AgreeMapped`, `AgreeJoined`).

**`HistoryProofs`** has three parts. For any sites, stores, selectors and visits,
`ScopeCorrect` and `NavigationCorrect` of `Timeline`. `TimelineInv` is plain (what is
shown is the view of the evidence); the work is in the lemmas about the views, that the
two paths of the code, over the whole stream and profile by profile, stamp alike, keep
what is selected and have each visit once through merging, sorting by time and linking.

For any addresses, any number of rows and any clock, `IntegrityInvariant`,
`HonestHistoryCorrect` and `DeletionCorrect` of `HistoryIntegrity`. `IntegrityInv` says
what an honest life leaves behind (ids without a gap up to the last that was given, as
expiry takes the oldest, which are the first; ids in the order of their times; each url
row with the count and the last of its visits; no visit later than the file but those
that are `fresh`; marks above the rows and notes only where something expired:
`HonestSound`), and what any life of a
Chromium history does (marks above the ids, a count at least that of the visits that
count, and above it once another writer cut one: `ChromiumSound`). Counts are
cardinalities of sets of ids, so each step has a lemma on what it adds or takes.

For any visits, any bound on the depth and any gap, `ChainsCorrect` of `HistoryChains`.
The referrers that lead to a visit are a set grown by "came from", and the walk of the code
is cut at a bound; `DepthIs` relates them through the way back were it never cut, which,
ids being finite, ends or meets an id again within as many steps as there are ids
(`WayEnds`, by the pigeonhole of `OrderProofs`). A chain is a run of redirects whose head no earlier chain has; that
chains are disjoint needs ids to be distinct, as the property says.

**`ViewerProofs`**, for any tree of windows and tabs and any sequence of keys:
`TagsCorrect`, and the action property `CursorCorrect`. `ViewerInv` says that tags and
matches are places in the tree, that no two places show the same tab, and, until a sort
has moved tabs, that the tags are on the tabs that were marked. There is a lemma per
action; the hard one is `CycleSort`, which needs that sorting windows and tabs moves
each tab to one place (`TreeSorted`), and so `OrderProofs`. The action property has one
exception, and the proof shows that there is no other: n and N after a change of order.

**`VerbProofs`** has the theorems of seven more modules. `EvidenceDb`, for a database of any
size, any number of commits and any interleaving: `IInvInvariant`, `SnapshotTheorem`,
`AtRestTheorem`, and of these two `ReadsCommitted`. `IInv` says that later commits have
newer pages (`Growing`), that every page of the database is of a commit the log goes back
to (`FilesSound`), and that every copied page is of one that the copy of the log covers
(`CopySound`). `MergedIsLast` is the heart: such a page, seen through the log, is the
page of the log's last commit. `OpenUndisturbed` says that no step of the browser undoes
what was copied or read so far.

`Secrets`, for any roots, keys and rows: `SecretsCorrect`. What is shown follows from
what was revealed, and that from the rows still to be decrypted, so `SecretsInv` follows
a row through the phases: rows that wait are of the evidence (`RowsSound`), what is
revealed is what was stored or says that it failed (`RevealedSound`), the file has it and
only if it was asked for (`FileSound`), and what is printed is the revealed or, of
logins, the redacted list (`Stages`).

`Deliver`, for any profiles, number of runs and of changes of the evidence:
`DeliverInvariant`, `VerifiedIsOneRun`. That hashes which are right are of
one run is not inductive: while a run writes, the directory holds files of two.
`DeliverInv` says that the files written so far are this run's and no newer than what
is hashed after them (`GatheredSound`), and that the hashes on disk were taken of one
bundle, though its files may have gone since (`SumsSound`).

`Discovery`, for any tree of directories and links and any depth: `ProfilesCorrect`. What
is above a node is the least set closed under parents, which the provers know nothing of;
the lemmas before the sweep show, from the numbering, that it is what the walk up finds.
`SweepSound` says of the directories that wait that no two are one above the other, nor one
above or below what was taken, so nothing is found twice (`EachOnce`), and that every container is
found or below one that waits (`NoneLost`). The rest is of one state: a profile that the
known places have is a container to the sweep, or within one (`ProfileIsWithin`).

`Find`, for any profiles, terms, windows and sources: `SearchCorrect`. What is answered is
what of the events is left by selector, term, window and source; the lemmas say that these
events are exactly what the profiles hold and can read.

`Findings`, for any profiles and whatever they hold: `DeepCorrect`. A run shows the ranking
of what it collected (`ShownIsCollected`). Each of the generators makes a list of
findings of its kind only (`Kinds`, `MadeOfEach`), and of two kinds that have a datum, a
source and a state in common the rest is the same but for the rule of an indicator: so
findings of one key are alike (`MadeAlike`), which is what makes that key fit to fold by.
What is carved for a tier is in no finding, so a profile has the same findings under each
(`TiersAlike`); ranking keeps all (`RankedAre`); folding keeps the first of each key
(`DedupIs`), and those of the profiles come before those of the engines, so it is theirs
whose rule stays.

`PageRebuild`, for any caches, pages and budgets: `PagesCorrect`. `PageInv` says of a page
half rebuilt that the index has what the caches hold, that what is found is what was
inlined, that what is missing did not fit and does not fit now, as budgets only shrink,
and that each element passed is settled; of the pages written, that they are a prefix
of those the caches hold, each under a name of its own. That a free name is found in as
many tries as there are pages is the pigeonhole again.

**`StoreProofs`** is about stores that the browser goes on writing. `CacheCarve`, for any
finite set of blocks, any URLs and any stores, evictions and frees, wherever they stop:
`CacheInvariant`, `CarvedCorrect`. A block file's list is a hash chain through blocks that
are freed and taken again, so `CacheInv` says that there is a list of entries, none twice,
that the table begins (`IsChain`), that no two entries in use share a block and that one
freed and since untouched is whole (`BlockSound`); of the simple cache, that a hash which is in memory and not
in the index was stored since that was written (`IndexSound`). `CarverSound` says what
the carver may rely on between two reads: `FilesSound`, that whatever is in memory is
listed or newer than the index that was read, and that what was whole all the time is
listed, carved or a name still to come; `StreamsSound`, that the entries it holds were on
no chain and that those which are untouched are in their blocks as it read them. `ChainIs`
shows that the walk of the code, cut after as many steps as there are blocks, sees that
list and nothing else.

`CachedBodies`, for any answers, places and number of changes: `BodiesCorrect`.
`BodiesInv` says that each entry was kept as its browser keeps them (`Keeps`) and that the
file and the browser differ for Cache.db only (`PlacesSound`), that what
has been read is right of the entry it was read of (`ReadRight`), though that may be gone,
and that an entry which stays is still to be read or was, or is passed over (`StaysSound`). `WireIs` relates a declared
coding to the bytes: what undoes it gives what the page got. There is a lemma per
reader; Safari's has the case that the property excepts.

`WebStorage`, for any origins, keys, values and number of records: `StorageInvariant`,
`StorageCorrect`. `StorageInv` says of the log that of each item, name and time of change
that a page has there is a record that is live, right and the last of its key (`Says`), and
that a live last record is of an item that a page has (`ItemsSound`). Compaction drops a
record only if it is not last or no longer live, so it undoes neither (`CompactIs`);
that a batch has one record per key, also when it clears an origin or a database whose
items are any number, is what makes its records the last (`WriteIs`,
`TombstonesAreBatch`). Numbers of databases are never given twice (`CalledSound`), which
is why names that are read for a number were that database's.

`Artifacts`, for each parser, any number of rows and any damage: `BookmarksCorrect` and the
action property `RowsCorrect`. `FileInv` says that the file has the tables of its reader, that every
row has a number of its own and that no list is longer than all rows. For bookmarks:
of the backups that hold one, one is newest, so it is recovered from that one, and the
sorted list has it once. For rows that stand alone: two files agree but for some rows
(`FilesAgree`) when they have the same tables, in them the other rows in the same order,
the same leaves of their trees but those, and containers that name the same tables but for
those, and the exceptions do not bear on either. `TouchedAgree` shows that a step leaves such a file, the rows being the one that is
touched and those below it; for a tree that is where the walk does not reach
(`LeavesStay`, `BelowIs`). Of files that agree each parser makes outcomes that agree
(`ChromiumAgrees`, `FirefoxAgrees`, `SafariAgrees`), as each is put together of picking, sorting,
joining and mapping, and lists that agree are the same without those rows
(`OthersAreSame`).

The assumptions say of what shape the evidence is, beside `OneProcess` and, for the two
theorems named there, `EditsAreSeen`: a store that is read by visits has visits (`SiteAssumption`; one without is read by
URL); a tree is of windows and tabs, each tab with a name of its own in the model
(`SessionAssumption`); rows come in an order and a cookie's host is never the mark for
none (`SecretsAssumption`); a file of blocks is finite, and a key that stands for no URL
is none (`BlocksAssumption`); an answer's codings are a list of names of codings
(`BodiesAssumption`); a directory is numbered before what it holds (`DiscoveryAssumption`);
what a profile holds is finite, its rows are in files of its family, as no parser reads
them elsewhere, and downloads are looked at in a Chromium's history alone (`PathsAssumption`);
visits, and what a cached page or style refers to, are given
as lists (`VisitListsAssumption`, `PagesAssumption`); a reader is one of the parsers (`ReadersAssumption`) and
the epochs' offsets are numbers (`OffsetsAssumption`), the program is built with overflow checks or without
(`BuildAssumption`); bounds are natural numbers.

Model-checked only: liveness (`RunsEnd`, `CallsReturn`, `ScanEnds`), which the
provers do not handle under fairness. The library's induction theorems take
an operator as a parameter, which the provers cannot instantiate, and `SelectSeq` is an
unknown operator to them, so a filter is `Those` of `StableSort`; what a recursion computes has to be shown by a least
counterexample, and the existence of the function by hand (`BuiltUp`). Where a list stood for a set and its order meant
nothing, as for the records of web storage and the chain of the block file cache, the
model has the set, and the theorem.

## What the checks found

- `nested_edit`: the fingerprint of a directory is its own mtime, which a change
  in a file of a subdirectory does not move. Such a change between two runs, and
  the second merges the stale unit of the first; `cli.rs` 1039 promises "so the
  merged result equals an uninterrupted run".
- `deep_after_ctrlc`: the flag is looked at before each profile and never after
  the last, so a Ctrl-C during the last profile is followed by the deep phase;
  `cli.rs` 1190-1193 says that deep is skipped on an interrupt during the loop.
- `tail`: if the last window is read short, the scan advances past the end and
  `len - base` underflows: a panic where arithmetic is checked; `lib.rs` 115 says
  "panic-free on arbitrary bytes".
- `evidence_in_place`: without a `-wal` the original is opened with `immutable=1`,
  which takes no lock and ignores a rollback journal; a database with a transaction
  open, or with the hot journal a killed browser left, is read as a state that was
  never committed. `sqlite.rs` 83 says 'opening the original with `immutable=1` is
  safe and copy-free'.
- `overwritten_body`: `grade` looks at whether a body decodes and is not empty, so a
  freed entry whose body block another entry took is "full", with the other's bytes as
  its body; `carve.rs` 95 says of the other grade "Some part is missing/overwritten".

Seen while modelling and not given a run of their own. Where the model has the
behaviour, the property named with it excludes exactly that case.

- *Runs and output.* An interrupted deep run has no scope and the footer falls back to
  one, so its `summary.txt` claims a deep recovery that did not run; `investigate.rs` 352
  says "state what deep recovery ACTUALLY ran" (`StatusIsHonest`). `summary.txt` of an interrupted run does not say that it is
  partial (`cli.rs` 1000 promises an always-present footer; only the terminal gets
  it). The "hard cap" on artifacts (`imagecarve/src/lib.rs` 94) may be exceeded by one
  database's records less one; the SimpleCache entries of lines 24-26 are never looked
  for. `write_sqlite` says "refuse to clobber" and replaces silently. A cell of more
  than 32,767 characters fails the sheet, and with it the bundle after its
  `report.html`; the manifest hashes the evidence after it was collected and never a
  `-wal`; two processes that bundle into one directory may leave one that verifies.
- *Findings and find.* The key by which findings are folded (`investigate.rs` 316-327) is
  made for an indicator that two generators emit and has no origin, and the findings of
  all profiles are folded together. What two profiles have alike a standard run lists for
  each, a deep run for the first only: deep, which RFC 0001 (68) calls "standard +
  carving + cache reconstruction + memory + disk-wide scans", shows of the second less
  than standard, though "Every finding is stamped with its origin" (`cli.rs` 167;
  `DeepLosesNothing`). Without a selector find searches the triage stream, which has no
  downloads, and an empty answer still names "downloads" among what it searched;
  `output.rs` 19 says "an empty search must prove it looked" (`HitsAreWhatIsHeld`).
  `--standard` carves
  deleted records and makes no finding of them (`investigate.rs` 38-45 promises it).
  `find --iocs` also claims "cache"; `--source` does not narrow the claim; carved hits
  heed neither selectors nor `--from` and `--to`; recovered domains bear time 0, drop
  under `--from` and stay under any `--to`.
- *Timeline.* WebCache history leaves the default view once any profile has chains
  (`cli.rs` 2635; the comment says "never dropped"); unscoped export, report and
  correlation lack downloads, scoped ones have them; `--graph` resolves ids over all
  profiles together; "Chrome/Default" is the label of Edge's profile too.
- *Integrity.* A visit later than the file's mtime is called impossible (`history.rs`
  13-15), which a log makes usual; one failing check discards what earlier ones found;
  a Chromium wipe followed by one visit leaves no indicator; expiry of everything looks
  like a wipe, and expiry of the rows with the highest ids or of most rows like a cut
  (`HonestExceptions` has these); the verb takes every database for Chromium's; several products and
  differences of ids and times may overflow (`prev_ts * 1000`, `max_id * 5`).
- *Viewer.* Tags and matches are positions and a sort leaves them, so that y and e act on
  other tabs than the user tagged; an empty glob tags
  every tab with an entry; `t` tags a tab without one, which y and e leave out. (The
  proof of `TaggedIsWhatWasMarked` found the last: no tab of the trees that were
  checked was without history. One has such a tab now, and the property says so.)
- *Caches.* A stale or cut index makes live entries orphans; a freed body block with
  "://" at the right place is an evicted entry.
  `fields` takes an index.txt that is cut within a field for one without any, so the
  caches that are whole before the cut are not walked, though `cachestorage.rs` 126 says
  "malformed/truncated proto input yields whatever caches could be recovered (possibly
  none), never an error or panic — a partial index still lets the caller walk the cache
  directories that *are* present on disk" (that `decode` refuses such bytes is taken from
  the comment of `fields`, 44-45; its crate is not here). Cache.db's `-wal` is ignored
  (`immutable=1`, `safari.rs` 77): rows that are only there are not read, and rows that
  were removed there are. `BodiesAreWhatWasDelivered` excepts both (`PassedOver`). A body kept under several codings by Safari is shown as
  decoded; one over the caps is noted as stored decoded.
- *Parsers.* Two times are multiplied unchecked, so a row with one that is out of range
  ends a program built with overflow checks, and nothing of its file is printed, though
  `timestamp.rs` 6-8 says "All conversions use saturating arithmetic: untrusted browser
  artifacts can carry extreme integer values, and a parser must clamp rather than panic
  on overflow", and `site_security.rs` 13-14 that malformed lines are "never fatal"
  (`RowsStandAlone`, `MayOverflow`). One byte of `prefs.js` that is no UTF-8 fails the
  file (`ReadAsText`). A missing time becomes 1601 or 2001 in several parsers; DIPS without its
  table is an error; one Web Data table with changed columns loses the others' rows;
  visits without a url row vanish; extension versions compare as text, "10" before "9".
- *Pages.* A stylesheet around the last sub-resource exceeds the cap by one; what a
  style refers to beyond a budget is neither found nor missing; a later copy of an
  address replaces an earlier one whatever its time; a data: stylesheet is replaced by
  a comment. A stylesheet whose address was inlined as another kind of element, such as an icon,
  and whose link no longer fits is commented out as missing while the manifest lists the
  address as found only, and what it refers to is not looked at (`singlefile.rs` 189-223;
  lines 6-9 promise every sub-resource in the manifest). (The proof of
  `PageIsAccountedFor` found this; a page that is checked has it now, and the property
  says so.)
- *Discovery.* The detection basis of a manifest has the histories of every family in a profile
  (`cli.rs` 1233-1247), the bundle hashes those of the profile's own: a `places.sqlite` in a
  Chrome profile is detected upon and never hashed. (The proof of `NoProfileIsLost` found
  this; a tree that is checked has such a file now, and the property says so.)
  A linked profile is investigated twice and never swept; a User Data
  directory is detected as a profile and neither discovered nor hashed; a profile in a
  container is dropped (README.md 207 says that nothing silently is).
- *Secrets.* With `--keys` a plaintext cookie is shown as failed; a wrong CBC key may
  yield garbage that counts as decrypted (`cli.rs` 3323-3325 says "never a fabricated
  value"); the first Local State in path order serves every profile; one login that
  fails fails all.
- *Web storage.* A superseded value bears its origin's latest time; a profile whose
  stores are all unreadable is said to contain none.

## What is not modelled

- Record carving (`carve`), memory images (`memory`), disk images (`image`): byte
  patterns and walks over libraries, one stateless pass each; byte formats are better
  served by the repository's own tests and fuzz targets. What such an engine finds is
  given in `Findings` and `Find`.
- Interpretation of values, rendering, the texts of reports and findings: formatting.
- The MCP bridge and the Python bindings: neither keeps state between requests.
- Of the partly modelled parts: how a selector's text is read, the classification of
  terms and the patterns of the extractors, co-occurrence and the host rollup, SQLite's
  own checks of pages and header, signature carving of caches, the layout of session
  files and of the values of IndexedDB (`v8.rs`), the derivation of keys from passwords,
  the full tables of browser names.
- The bytes of databases, caches and images: the carve keeps only where a signature
  starts, a parse is one deterministic step.
- A reader of a container source that panics while it holds the mutex; the code
  between lock and release copies bytes and does not.
- Mixed outcomes of a loss of power for the output files: they are all there as
  written, or all lost.
- Of SQLite: frames behind the last commit, the `-shm` (rebuilt from the log), and
  the checkpoint on close of a read-write connection, which the tool never opens.
  The provenance record (path, hash, time) is left out of `EvidenceDb`.

## Plan

Done: the core (`ResumeState`, `Investigate` with `UnitLog`; `ContainerReader` with
`PositionedRead`; `ImageCarve`; `EvidenceDb`) with its invariants proved; the verbs
over live and damaged evidence, composed in `Br4n6`; the proofs of all safety properties
of the verbs. Next, in order:

1. The steps of the deep phase in `Investigate`, engine by engine, over `Findings`.
2. The parts left out of partly modelled components: signature carving, the host
   rollup, the MCP bridge's request loop.
