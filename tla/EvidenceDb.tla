----------------------------- MODULE EvidenceDb -----------------------------
(***************************************************************************)
(* Opening a browser's SQLite database as evidence                         *)
(* (browser-forensic-core/src/sqlite.rs, open_evidence_db) while the        *)
(* browser may be at work on it.                                           *)
(*                                                                         *)
(* SQLite is external.  A page is known by the number of the transaction    *)
(* that wrote it last, so a committed state is a function from pages to     *)
(* numbers.  A log (`-wal`) that was started over commit b and now ends      *)
(* with commit e is the pair of the two: it holds the newest version of      *)
(* every page that a commit after b wrote, and of no other.  Frames behind   *)
(* the last commit are read by nobody and left out, and so is the `-shm`,    *)
(* which is rebuilt from the log.                                          *)
(***************************************************************************)
EXTENDS Naturals, Sequences

CONSTANTS
    Pages,        \* pages of the database
    MaxCommits    \* bound: committed states, the first one included

ASSUME CommitsAssumption == MaxCommits \in Nat

VARIABLES
    mode,       \* journal mode of the database: "wal" or "rollback"
    commits,    \* every state committed so far
    db,         \* the database file
    log,        \* the commit that the log was started over
    logFile,    \* there is a -wal that is not empty
    hot,        \* pages that an open transaction has saved in the journal
    pc,         \* where open_evidence_db is
    copyDb,     \* the working copy: pages of the database
    copied,     \* which of them have been copied
    copyLog,    \* the working copy: its log, first and last commit
    view,       \* what the queries have read through the connection
    seen,       \* which pages they have read
    atOpen,     \* history: commits when the log was looked for
    intact,     \* history: the log was not started anew since
    still       \* history: no file was touched since

files == <<mode, commits, db, log, logFile, hot>>
copy  == <<copyDb, copied, copyLog>>
reads == <<view, seen>>
vars  == <<files, pc, copy, reads, atOpen, intact, still>>

States == [Pages -> Nat]
Zero   == [p \in Pages |-> 0]

LastCommit == Len(commits)

\* SQLite's answer for a page: from the log, if it is there.
Merged(main, from, upto, p) ==
    IF commits[upto][p] # commits[from][p] THEN commits[upto][p] ELSE main[p]

PCs == {"closed", "copy", "snapshot", "in_place"}

TypeOK ==
    /\ mode \in {"wal", "rollback"}
    /\ commits \in Seq(States) /\ LastCommit >= 1
    /\ db \in States
    /\ log \in 1..LastCommit
    /\ logFile \in BOOLEAN
    /\ hot \in SUBSET Pages
    /\ pc \in PCs
    /\ copyDb \in States /\ copied \in SUBSET Pages
    /\ copyLog \in [first: 1..LastCommit, last: 1..LastCommit]
    /\ view \in States /\ seen \in SUBSET Pages
    /\ atOpen \in 1..LastCommit
    /\ intact \in BOOLEAN /\ still \in BOOLEAN

Init ==
    /\ mode \in {"wal", "rollback"}
    /\ commits = <<Zero>> /\ db = Zero
    /\ log = 1 /\ logFile = FALSE /\ hot = {}
    /\ pc = "closed"
    /\ copyDb = Zero /\ copied = {} /\ copyLog = [first |-> 1, last |-> 1]
    /\ view = Zero /\ seen = {}
    /\ atOpen = 1 /\ intact = TRUE /\ still = TRUE

-----------------------------------------------------------------------------
(* The browser.  It may also stop at any moment and leave everything as it  *)
(* is: nothing says that it takes another step.                            *)

Touched == still' = FALSE /\ UNCHANGED <<pc, copy, reads, atOpen>>

\* A transaction of a database with a log.
CommitToLog ==
    /\ mode = "wal" /\ LastCommit < MaxCommits
    /\ \E S \in SUBSET Pages :
          /\ S # {}
          /\ commits' = Append(commits,
                           [p \in Pages |-> IF p \in S THEN LastCommit ELSE commits[LastCommit][p]])
    /\ logFile' = TRUE
    /\ Touched /\ UNCHANGED <<mode, db, log, hot, intact>>

\* A checkpoint writes pages of the log to the database one by one, never an
\* older version over a newer.
CheckpointPage(p) ==
    /\ mode = "wal"
    /\ \E k \in log..LastCommit :
          /\ db[p] < commits[k][p]
          /\ db' = [db EXCEPT ![p] = commits[k][p]]
    /\ Touched /\ UNCHANGED <<mode, commits, log, logFile, hot, intact>>

\* Once every page of it is in the database the log starts anew, over the
\* same file, or is deleted by the last connection that closes.
RestartLog ==
    /\ mode = "wal" /\ logFile /\ db = commits[LastCommit]
    /\ log' = LastCommit
    /\ logFile' \in BOOLEAN
    /\ intact' = FALSE
    /\ Touched /\ UNCHANGED <<mode, commits, db, hot>>

\* Without a log a transaction saves a page in the journal and writes the
\* database; the commit deletes the journal, a rollback puts the pages back.
WritePage(p) ==
    /\ mode = "rollback" /\ LastCommit < MaxCommits
    /\ hot' = hot \cup {p}
    /\ db' = [db EXCEPT ![p] = LastCommit]
    /\ Touched /\ UNCHANGED <<mode, commits, log, logFile, intact>>

CommitJournal ==
    /\ mode = "rollback" /\ hot # {}
    /\ commits' = Append(commits, db)
    /\ hot' = {}
    /\ Touched /\ UNCHANGED <<mode, db, log, logFile, intact>>

RollBack ==
    /\ mode = "rollback" /\ hot # {}
    /\ db' = commits[LastCommit]
    /\ hot' = {}
    /\ Touched /\ UNCHANGED <<mode, commits, log, logFile, intact>>

Browser ==
    \/ CommitToLog \/ RestartLog \/ CommitJournal \/ RollBack
    \/ \E p \in Pages : CheckpointPage(p) \/ WritePage(p)

-----------------------------------------------------------------------------
(* open_evidence_db, the queries of a parser over it, and the drop.         *)

\* Mistake: opened in place, log or no log.
LookInPlace ==
    /\ pc = "closed"
    /\ pc' = "in_place"
    /\ atOpen' = LastCommit /\ intact' = TRUE /\ still' = TRUE
    /\ UNCHANGED <<files, copy, reads>>

\* A -wal that is not empty is looked for, once; without one the database is
\* opened in place.
Look ==
    /\ pc = "closed"
    /\ pc' = IF logFile THEN "copy" ELSE "in_place"
    /\ atOpen' = LastCommit /\ intact' = TRUE /\ still' = TRUE
    /\ UNCHANGED <<files, copy, reads>>

\* copy_and_hash: the file is read while it may be written.
CopyPage(p) ==
    /\ pc = "copy" /\ p \notin copied
    /\ copyDb' = [copyDb EXCEPT ![p] = db[p]]
    /\ copied' = copied \cup {p}
    /\ UNCHANGED <<files, pc, copyLog, reads, atOpen, intact, still>>

\* Mistake: the sidecars are left behind.
CopyLogForgotten ==
    /\ pc = "copy" /\ copied = Pages
    /\ copyLog' = [first |-> LastCommit, last |-> LastCommit]
    /\ pc' = "snapshot"
    /\ UNCHANGED <<files, copyDb, copied, reads, atOpen, intact, still>>

\* copy_if_exists, after the database.  The log only grows while it is not
\* started anew, so copying it in pieces is copying what it was at one moment.
\* Then the copy is opened.
CopyLog ==
    /\ pc = "copy" /\ copied = Pages
    /\ copyLog' = IF logFile THEN [first |-> log, last |-> LastCommit]
                             ELSE [first |-> LastCommit, last |-> LastCommit]
    /\ pc' = "snapshot"
    /\ UNCHANGED <<files, copyDb, copied, reads, atOpen, intact, still>>

\* immutable=1 asks for no lock and looks at neither log nor journal.
ReadPage(p) ==
    /\ pc \in {"snapshot", "in_place"} /\ p \notin seen
    /\ view' = [view EXCEPT ![p] =
                   IF pc = "snapshot"
                   THEN Merged(copyDb, copyLog.first, copyLog.last, p)
                   ELSE db[p]]
    /\ seen' = seen \cup {p}
    /\ UNCHANGED <<files, pc, copy, atOpen, intact, still>>

\* The connection is dropped and the working copy with it; or a step failed
\* and none was made.  The next open starts from nothing.
Close ==
    /\ pc # "closed"
    /\ pc' = "closed"
    /\ copyDb' = Zero /\ copied' = {} /\ copyLog' = [first |-> 1, last |-> 1]
    /\ view' = Zero /\ seen' = {}
    /\ UNCHANGED <<files, atOpen, intact, still>>

Tool ==
    \/ Look \/ CopyLog \/ Close
    \/ \E p \in Pages : CopyPage(p) \/ ReadPage(p)

Next == Browser \/ Tool

Spec == Init /\ [][Next]_vars

-----------------------------------------------------------------------------
(* Properties.                                                             *)

ViewIs(k) == \A p \in seen : view[p] = commits[k][p]

\* The working copy is made of two files, page by page, while the browser
\* commits and checkpoints: unless the log was started anew in between, what
\* is read through it is still one committed state, and none from before the
\* open.
SnapshotIsCommitted ==
    pc = "snapshot" /\ intact => \E k \in atOpen..LastCommit : ViewIs(k)

\* Evidence at rest, a disk image or the profile of a browser that is gone:
\* what is read is the last committed state, the log included.  (Except for
\* a transaction that a rollback journal would undo.)
AtRestIsLatest ==
    pc \in {"snapshot", "in_place"} /\ still /\ hot = {} => ViewIs(LastCommit)

\* What open_evidence_db lets a parser read is one committed state, by copy or, at rest,
\* in place.
ReadsACommittedState == SnapshotIsCommitted /\ AtRestIsLatest

-----------------------------------------------------------------------------
(* What a comment says of the open and the code does not do.               *)

\* sqlite.rs 83: "No `-wal`: opening the original with `immutable=1` is safe
\* and copy-free."
InPlaceIsSafe == pc = "in_place" => \E k \in 1..LastCommit : ViewIs(k)

-----------------------------------------------------------------------------
(* The inductive invariant.                                                *)

\* Later commits have newer pages.
Growing ==
    \A i, j \in 1..LastCommit : i <= j =>
        \A p \in Pages : commits[i][p] <= commits[j][p]

\* What the files are between two steps of the browser.
FilesSound ==
    /\ \A p \in Pages : \A i \in 1..LastCommit : commits[i][p] < LastCommit
    /\ mode = "wal" =>
          /\ ~logFile => log = LastCommit
          /\ \A p \in Pages : \E k \in log..LastCommit : db[p] = commits[k][p]
    /\ mode = "rollback" =>
          /\ ~logFile
          /\ hot = {} => db = commits[LastCommit]
          /\ \A p \in Pages : db[p] \in {commits[LastCommit][p], LastCommit}

\* A page copied while the log is intact is of a commit the log goes back to,
\* and no later than the copy of the log.
PagesFrom(S, first, last) ==
    \A p \in S : \E k \in first..last : copyDb[p] = commits[k][p]

CopySound ==
    /\ pc = "closed" => copied = {}
    /\ pc = "copy" /\ intact =>
          mode = "wal" /\ logFile /\ PagesFrom(copied, log, LastCommit)
    /\ pc = "snapshot" /\ intact =>
          /\ mode = "wal"
          /\ copyLog.first <= copyLog.last /\ atOpen <= copyLog.last
          /\ PagesFrom(Pages, copyLog.first, copyLog.last)
          /\ still => copyLog.last = LastCommit

ViewSound ==
    /\ pc = "snapshot" /\ intact => ViewIs(copyLog.last)
    /\ pc = "in_place" /\ still => ~logFile /\ \A p \in seen : view[p] = db[p]
    /\ pc \in {"closed", "copy"} => seen = {}
    /\ still => intact

IInv == TypeOK /\ Growing /\ FilesSound /\ CopySound /\ ViewSound
=============================================================================
