----------------------------- MODULE VerbProofs -----------------------------
(***************************************************************************)
(* What the verbs read from the evidence and hand over: a database opened  *)
(* in place, secrets shown decrypted, the bundle of a run, the profiles of *)
(* a sweep, the hits of a search, the findings of investigate and recover, *)
(* and the pages that reconstruct rebuilds with their manifests, for any   *)
(* size of the evidence and any interleaving with the browser that writes  *)
(* it.                                                                     *)
(***************************************************************************)
EXTENDS EvidenceDb, Secrets, Deliver, Discovery, Find, Findings, PageRebuild, OrderProofs,
        SequenceTheorems

-----------------------------------------------------------------------------
(* Databases: any size, any number of commits and any interleaving of the browser. *)

\* What Append does to the commits of before.
LEMMA AppendKeeps ==
    ASSUME NEW s \in Seq(States), NEW c \in States
    PROVE  /\ Append(s, c) \in Seq(States)
           /\ Len(Append(s, c)) = Len(s) + 1
           /\ Append(s, c)[Len(s) + 1] = c
           /\ \A i \in 1..Len(s) : Append(s, c)[i] = s[i]
  OBVIOUS

LEMMA CommitTypes ==
    ASSUME TypeOK
    PROVE  LastCommit \in Nat /\ LastCommit >= 1 /\ \A i \in 1..LastCommit : commits[i] \in States
BY DEF TypeOK, LastCommit

\* The heart of it: a page copied from a commit between the two ends of the
\* log, seen through the log, is the page of its last commit.
LEMMA MergedIsLast ==
    ASSUME TypeOK, Growing, NEW p \in Pages, NEW main \in States,
           NEW from \in 1..LastCommit, NEW upto \in 1..LastCommit,
           NEW k \in from..upto, main[p] = commits[k][p]
    PROVE  Merged(main, from, upto, p) = commits[upto][p]
<1>0. LastCommit \in Nat /\ \A i \in 1..LastCommit : commits[i] \in States
  BY CommitTypes
<1>1. /\ k \in 1..LastCommit
      /\ commits[from][p] \in Nat /\ commits[k][p] \in Nat /\ commits[upto][p] \in Nat
  BY <1>0 DEF States
<1>2. commits[from][p] <= commits[k][p] /\ commits[k][p] <= commits[upto][p]
  BY <1>1 DEF Growing
<1> QED BY <1>1, <1>2 DEF Merged

LEMMA InitIInv == Init => IInv
<1> SUFFICES ASSUME Init
             PROVE  IInv
  OBVIOUS
<1>1. Zero \in States /\ \A p \in Pages : Zero[p] = 0
  BY DEF Zero, States
<1>2. LastCommit = 1 /\ commits[1] = Zero /\ commits \in Seq(States)
  BY <1>1 DEF Init, LastCommit
<1>3. TypeOK
  <2>1. 1 \in 1..LastCommit /\ LastCommit >= 1
    BY <1>2
  <2>2. copyLog \in [first: 1..LastCommit, last: 1..LastCommit]
    BY <2>1 DEF Init
  <2> QED BY <1>1, <1>2, <2>1, <2>2 DEF Init, TypeOK, PCs
<1>4. Growing
  <2> SUFFICES ASSUME NEW i \in 1..LastCommit, NEW j \in 1..LastCommit, NEW p \in Pages
               PROVE  commits[i][p] <= commits[j][p]
    BY DEF Growing
  <2>1. i = 1 /\ j = 1
    BY <1>2
  <2> QED BY <1>1, <1>2, <2>1
<1>5. FilesSound
  BY <1>1, <1>2 DEF Init, FilesSound
<1>6. CopySound /\ ViewSound
  BY <1>2 DEF Init, CopySound, ViewSound
<1> QED BY <1>3, <1>4, <1>5, <1>6 DEF IInv

-----------------------------------------------------------------------------
(* The browser.                                                            *)

\* A commit is newer than every one before it, and what is known of an
\* earlier one stays so.
LEMMA CommitIsNewest ==
    ASSUME TypeOK, Growing, FilesSound, NEW c \in States,
           commits' = Append(commits, c),
           \A p \in Pages : commits[LastCommit][p] <= c[p] /\ c[p] <= LastCommit
    PROVE  /\ commits' \in Seq(States) /\ LastCommit' = LastCommit + 1
           /\ commits'[LastCommit'] = c
           /\ \A i \in 1..LastCommit : commits'[i] = commits[i]
           /\ Growing'
           /\ \A p \in Pages : \A i \in 1..LastCommit' : commits'[i][p] < LastCommit'
<1>1. /\ commits' \in Seq(States) /\ LastCommit' = LastCommit + 1 /\ LastCommit \in Nat /\ LastCommit >= 1
      /\ commits'[LastCommit'] = c
      /\ \A i \in 1..LastCommit : commits'[i] = commits[i] /\ commits[i] \in States
  BY AppendKeeps DEF TypeOK, LastCommit
<1>2. \A i \in 1..LastCommit' : i \in 1..LastCommit \/ i = LastCommit'
  <2>1. LastCommit \in Nat /\ LastCommit' = LastCommit + 1
    BY <1>1
  <2> QED BY <2>1
<1>3. \A p \in Pages : \A i \in 1..LastCommit : commits[i][p] <= c[p]
  <2> TAKE p \in Pages
  <2> TAKE i \in 1..LastCommit
  <2>1. commits[i][p] <= commits[LastCommit][p] /\ commits[LastCommit][p] <= c[p]
    BY <1>1 DEF Growing
  <2>2. commits[i][p] \in Nat /\ commits[LastCommit][p] \in Nat /\ c[p] \in Nat
    BY <1>1 DEF States
  <2> QED BY <2>1, <2>2
<1>4. Growing'
  <2> SUFFICES ASSUME NEW i \in 1..LastCommit', NEW j \in 1..LastCommit', i <= j, NEW p \in Pages
               PROVE  commits'[i][p] <= commits'[j][p]
    BY DEF Growing
  <2>1. CASE j \in 1..LastCommit
    <3>1. i \in 1..LastCommit
      BY <1>1, <2>1
    <3> QED BY <1>1, <2>1, <3>1 DEF Growing
  <2>2. CASE j = LastCommit' /\ i \in 1..LastCommit
    <3>1. commits'[i] = commits[i] /\ commits'[j] = c
      BY <1>1, <2>2
    <3> QED BY <1>3, <2>2, <3>1
  <2>3. CASE j = LastCommit' /\ i = LastCommit'
    <3>1. commits'[i] = c /\ commits'[j] = c /\ c[p] \in Nat
      BY <1>1, <2>3 DEF States
    <3> QED BY <3>1
  <2> QED BY <1>2, <2>1, <2>2, <2>3
<1>5. \A p \in Pages : \A i \in 1..LastCommit' : commits'[i][p] < LastCommit'
  <2> TAKE p \in Pages
  <2> TAKE i \in 1..LastCommit'
  <2>1. CASE i \in 1..LastCommit
    <3>1. commits'[i] = commits[i]
      BY <1>1, <2>1
    <3>2. commits[i][p] < LastCommit /\ commits[i][p] \in Nat
      BY <1>1, <2>1 DEF FilesSound, States
    <3> QED BY <1>1, <3>1, <3>2
  <2>2. CASE i = LastCommit'
    <3>1. commits'[i] = c /\ c[p] \in Nat /\ c[p] <= LastCommit
      BY <1>1, <2>2 DEF States
    <3> QED BY <1>1, <3>1
  <2> QED BY <1>2, <2>1, <2>2
<1> QED BY <1>1, <1>4, <1>5

\* What the open has copied and read so far stands while the browser commits
\* and checkpoints; when it starts the log anew, nothing is claimed any more.
LEMMA OpenUndisturbed ==
    ASSUME IInv, LastCommit' \in Nat, LastCommit <= LastCommit',
           \A i \in 1..LastCommit : commits'[i] = commits[i],
           UNCHANGED <<mode, pc, copy, reads, atOpen>>, still' = FALSE,
           intact' = FALSE \/ (intact' = intact /\ log' = log /\ (logFile => logFile'))
    PROVE  CopySound' /\ ViewSound'
<1> USE DEF copy, reads
<1>1. TypeOK /\ CopySound /\ ViewSound /\ LastCommit \in Nat
  BY CommitTypes DEF IInv
<1>2. CASE intact' = FALSE
  BY <1>1, <1>2 DEF CopySound, ViewSound
<1>3. CASE intact' = intact /\ log' = log /\ (logFile => logFile')
  <2>1. ASSUME NEW S \in SUBSET Pages, NEW first \in 1..LastCommit, NEW last \in 1..LastCommit,
               NEW last2 \in 1..LastCommit', last <= last2, PagesFrom(S, first, last)
        PROVE  \A p \in S : \E k \in first..last2 : copyDb[p] = commits'[k][p]
    <3> TAKE p \in S
    <3>1. PICK k \in first..last : copyDb[p] = commits[k][p]
      BY <2>1 DEF PagesFrom
    <3>2. k \in 1..LastCommit /\ k \in first..last2
      BY <1>1, <2>1
    <3> QED BY <3>1, <3>2
  <2>2. CopySound'
    <3>1. CASE pc = "copy" /\ intact
      <4>1. log \in 1..LastCommit /\ LastCommit \in 1..LastCommit /\ LastCommit' \in 1..LastCommit' /\ copied \in SUBSET Pages
        BY <1>1 DEF TypeOK
      <4>2. PagesFrom(copied, log, LastCommit) /\ mode = "wal" /\ logFile
        BY <1>1, <3>1 DEF CopySound
      <4>3. \A p \in copied : \E k \in log..LastCommit' : copyDb[p] = commits'[k][p]
        BY <2>1, <4>1, <4>2
      <4> QED BY <1>3, <3>1, <4>2, <4>3 DEF CopySound, PagesFrom
    <3>2. CASE pc = "snapshot" /\ intact
      <4>1. copyLog.first \in 1..LastCommit /\ copyLog.last \in 1..LastCommit /\ copyLog.last \in 1..LastCommit'
        BY <1>1 DEF TypeOK
      <4>2. /\ PagesFrom(Pages, copyLog.first, copyLog.last) /\ mode = "wal"
            /\ copyLog.first <= copyLog.last /\ atOpen <= copyLog.last
        BY <1>1, <3>2 DEF CopySound
      <4>3. \A p \in Pages : \E k \in copyLog.first..copyLog.last :
               copyDb[p] = commits'[k][p]
        BY <2>1, <4>1, <4>2
      <4> QED BY <1>3, <3>2, <4>2, <4>3 DEF CopySound, PagesFrom
    <3> QED BY <1>1, <1>3, <3>1, <3>2 DEF CopySound
  <2>3. ViewSound'
    <3>1. copyLog.last \in 1..LastCommit
      BY <1>1 DEF TypeOK
    <3> QED BY <1>1, <1>3, <3>1 DEF ViewSound, ViewIs
  <2> QED BY <2>2, <2>3
<1> QED BY <1>2, <1>3

LEMMA BrowserIInv ==
    ASSUME IInv, Browser
    PROVE  IInv'
<1> USE DEF copy, reads, Touched
<1>0. /\ TypeOK /\ Growing /\ FilesSound
      /\ LastCommit \in Nat /\ LastCommit >= 1 /\ \A i \in 1..LastCommit : commits[i] \in States
  BY CommitTypes DEF IInv
<1>newest. LastCommit \in 1..LastCommit /\ commits[LastCommit] \in States
  BY <1>0
<1>1. ASSUME NEW c \in States, commits' = Append(commits, c),
             \A p \in Pages : commits[LastCommit][p] <= c[p] /\ c[p] <= LastCommit,
             UNCHANGED <<mode, db, log, intact>>, Touched,
             hot' \in SUBSET Pages, logFile' \in BOOLEAN, logFile => logFile',
             mode = "wal" => logFile',
             mode = "rollback" => ~logFile' /\ db = c
      PROVE  IInv'
  <2>1. /\ commits' \in Seq(States) /\ LastCommit' = LastCommit + 1 /\ commits'[LastCommit'] = c
        /\ \A i \in 1..LastCommit : commits'[i] = commits[i]
        /\ Growing'
        /\ \A p \in Pages : \A i \in 1..LastCommit' : commits'[i][p] < LastCommit'
    BY <1>0, <1>1, CommitIsNewest
  <2>2. LastCommit' \in Nat /\ LastCommit <= LastCommit' /\ \A i \in 1..LastCommit : i \in 1..LastCommit'
    BY <1>0, <2>1
  <2>3. TypeOK'
    <3>1. copyLog' \in [first: 1..LastCommit', last: 1..LastCommit']
      BY <1>0, <1>1, <2>2 DEF TypeOK
    <3>2. log' \in 1..LastCommit' /\ atOpen' \in 1..LastCommit' /\ LastCommit' >= 1
      BY <1>0, <1>1, <2>1, <2>2 DEF TypeOK
    <3> QED BY <1>0, <1>1, <2>1, <3>1, <3>2 DEF TypeOK
  <2>4. FilesSound'
    <3>1. ASSUME mode = "wal", NEW p \in Pages
          PROVE  \E k \in log..LastCommit' : db[p] = commits'[k][p]
      <4>1. PICK k \in log..LastCommit : db[p] = commits[k][p]
        BY <1>0, <3>1 DEF FilesSound
      <4>2. k \in 1..LastCommit /\ k \in log..LastCommit'
        BY <1>0, <2>1 DEF TypeOK
      <4> QED BY <2>1, <4>1, <4>2
    <3>2. mode = "rollback" => db = commits'[LastCommit']
      BY <1>1, <2>1
    <3> QED BY <1>1, <2>1, <3>1, <3>2 DEF FilesSound
  <2>5. CopySound' /\ ViewSound'
    BY <1>1, <2>1, <2>2, OpenUndisturbed
  <2> QED BY <2>1, <2>3, <2>4, <2>5 DEF IInv
<1>2. ASSUME UNCHANGED <<mode, commits>>, Touched, db' \in States,
             log' \in 1..LastCommit, logFile' \in BOOLEAN, hot' \in SUBSET Pages,
             FilesSound',
             intact' = FALSE \/ (intact' = intact /\ log' = log /\ (logFile => logFile'))
      PROVE  IInv'
  <2>1. LastCommit' = LastCommit
    BY <1>2 DEF LastCommit
  <2>2. TypeOK'
    BY <1>0, <1>2, <2>1 DEF TypeOK
  <2>3. Growing'
    BY <1>0, <1>2, <2>1 DEF Growing
  <2>4. CopySound' /\ ViewSound'
    <3>1. LastCommit' \in Nat /\ LastCommit <= LastCommit' /\ \A i \in 1..LastCommit : commits'[i] = commits[i]
      BY <1>0, <1>2, <2>1
    <3> QED BY <1>2, <3>1, OpenUndisturbed
  <2> QED BY <1>2, <2>2, <2>3, <2>4 DEF IInv
<1>3. CASE CommitToLog
  <2>1. PICK S \in SUBSET Pages :
           commits' = Append(commits,
                         [p \in Pages |-> IF p \in S THEN LastCommit ELSE commits[LastCommit][p]])
    BY <1>3 DEF CommitToLog
  <2> DEFINE c == [p \in Pages |-> IF p \in S THEN LastCommit ELSE commits[LastCommit][p]]
  <2>2. \A p \in Pages : commits[LastCommit][p] \in Nat /\ commits[LastCommit][p] < LastCommit
    BY <1>0, <1>newest DEF FilesSound, States
  <2>3. c \in States /\ \A p \in Pages : commits[LastCommit][p] <= c[p] /\ c[p] <= LastCommit
    BY <1>0, <2>2 DEF States
  <2> QED BY <1>0, <1>1, <1>3, <2>1, <2>3 DEF CommitToLog, TypeOK
<1>4. ASSUME NEW p \in Pages, CheckpointPage(p)
      PROVE  IInv'
  <2>1. PICK k \in log..LastCommit : db' = [db EXCEPT ![p] = commits[k][p]]
    BY <1>4 DEF CheckpointPage
  <2>2. commits[k][p] \in Nat /\ db' \in States
    BY <1>0, <2>1 DEF TypeOK, States
  <2>3. FilesSound'
    <3>1. ASSUME NEW q \in Pages
          PROVE  \E j \in log..LastCommit : db'[q] = commits[j][q]
      BY <1>0, <1>4, <2>1 DEF FilesSound, CheckpointPage, TypeOK, States
    <3> QED BY <1>0, <1>4, <3>1 DEF FilesSound, CheckpointPage, LastCommit
  <2> QED BY <1>0, <1>2, <1>4, <2>2, <2>3 DEF CheckpointPage, TypeOK
<1>5. CASE RestartLog
  <2>1. FilesSound'
    <3>1. \A p \in Pages : \E k \in LastCommit..LastCommit : db[p] = commits[k][p]
      BY <1>0, <1>5 DEF RestartLog
    <3> QED BY <1>0, <1>5, <3>1 DEF FilesSound, RestartLog, LastCommit
  <2> QED BY <1>0, <1>2, <1>5, <1>newest, <2>1 DEF RestartLog, TypeOK
<1>6. ASSUME NEW p \in Pages, WritePage(p)
      PROVE  IInv'
  <2>1. db' \in States /\ hot' # {}
    BY <1>0, <1>6 DEF WritePage, TypeOK, States
  <2>2. FilesSound'
    BY <1>0, <1>6, <2>1 DEF FilesSound, WritePage, TypeOK, States, LastCommit
  <2> QED BY <1>0, <1>2, <1>6, <2>1, <2>2 DEF WritePage, TypeOK
<1>7. CASE CommitJournal
  <2>1. \A p \in Pages : /\ commits[LastCommit][p] \in Nat /\ commits[LastCommit][p] < LastCommit
                         /\ db[p] \in {commits[LastCommit][p], LastCommit}
    BY <1>0, <1>7, <1>newest DEF FilesSound, States, CommitJournal
  <2>2. \A p \in Pages : commits[LastCommit][p] <= db[p] /\ db[p] <= LastCommit
    <3> TAKE p \in Pages
    <3>1. LastCommit \in Nat /\ commits[LastCommit][p] \in Nat /\ commits[LastCommit][p] < LastCommit
      BY <1>0, <2>1
    <3>2. CASE db[p] = commits[LastCommit][p]
      BY <3>1, <3>2
    <3>3. CASE db[p] = LastCommit
      BY <3>1, <3>3
    <3> QED BY <2>1, <3>2, <3>3
  <2>3. ~logFile
    BY <1>0, <1>7 DEF FilesSound, CommitJournal
  <2> QED BY <1>0, <1>1, <1>7, <2>2, <2>3 DEF CommitJournal, TypeOK
<1>8. CASE RollBack
  <2>1. FilesSound'
    BY <1>0, <1>8 DEF FilesSound, RollBack, LastCommit
  <2> QED BY <1>0, <1>2, <1>8, <1>newest, <2>1 DEF RollBack, TypeOK
<1> QED BY <1>3, <1>4, <1>5, <1>6, <1>7, <1>8 DEF Browser

-----------------------------------------------------------------------------
(* open_evidence_db and the queries.                                        *)

LEMMA ToolIInv ==
    ASSUME IInv, Tool
    PROVE  IInv'
<1> USE DEF copy, reads, files
<1>0. /\ TypeOK /\ Growing /\ FilesSound /\ CopySound /\ ViewSound
      /\ LastCommit \in Nat /\ LastCommit >= 1 /\ \A i \in 1..LastCommit : commits[i] \in States
  BY CommitTypes DEF IInv
<1>1. ASSUME UNCHANGED files
      PROVE  LastCommit' = LastCommit /\ Growing' /\ FilesSound'
  BY <1>0, <1>1 DEF LastCommit, Growing, FilesSound
<1>2. CASE Look
  <2>1. UNCHANGED <<files, copy, reads>> /\ pc = "closed"
    BY <1>2 DEF Look
  <2>2. LastCommit' = LastCommit /\ Growing' /\ FilesSound'
    BY <1>1, <2>1
  <2>3. TypeOK'
    BY <1>0, <1>2, <2>2 DEF Look, TypeOK, PCs
  <2>4. copied = {} /\ seen = {} /\ (logFile => mode = "wal")
    BY <1>0, <2>1 DEF CopySound, ViewSound, FilesSound, TypeOK
  <2>5. CopySound' /\ ViewSound'
    BY <1>2, <2>1, <2>4 DEF Look, CopySound, ViewSound, PagesFrom
  <2> QED BY <2>2, <2>3, <2>5 DEF IInv
<1>3. ASSUME NEW p \in Pages, CopyPage(p)
      PROVE  IInv'
  <2>1. /\ UNCHANGED <<files, pc, copyLog, reads, atOpen, intact, still>>
        /\ pc = "copy" /\ copied' = copied \cup {p}
        /\ copyDb' = [copyDb EXCEPT ![p] = db[p]]
    BY <1>3 DEF CopyPage
  <2>2. LastCommit' = LastCommit /\ Growing' /\ FilesSound'
    BY <1>1, <2>1
  <2>3. TypeOK'
    BY <1>0, <2>1, <2>2 DEF TypeOK, States
  <2>4. CopySound'
    <3>1. ASSUME intact
          PROVE  mode = "wal" /\ logFile /\ PagesFrom(copied, log, LastCommit)'
      <4>1. mode = "wal" /\ logFile /\ PagesFrom(copied, log, LastCommit)
        BY <1>0, <2>1, <3>1 DEF CopySound
      <4>2. \E k \in log..LastCommit : db[p] = commits[k][p]
        BY <1>0, <4>1 DEF FilesSound
      <4>3. copyDb'[p] = db[p] /\ \A q \in Pages \ {p} : copyDb'[q] = copyDb[q]
        BY <1>0, <2>1 DEF TypeOK, States
      <4>4. copied \subseteq Pages
        BY <1>0 DEF TypeOK
      <4> QED BY <2>1, <2>2, <4>1, <4>2, <4>3, <4>4 DEF PagesFrom
    <3> QED BY <2>1, <3>1 DEF CopySound, PagesFrom
  <2>5. ViewSound'
    BY <1>0, <2>1 DEF ViewSound
  <2> QED BY <2>2, <2>3, <2>4, <2>5 DEF IInv
<1>4. CASE CopyLog
  <2>1. /\ UNCHANGED <<files, copyDb, copied, reads, atOpen, intact, still>>
        /\ pc = "copy" /\ copied = Pages /\ pc' = "snapshot"
        /\ copyLog' = IF logFile THEN [first |-> log, last |-> LastCommit]
                                 ELSE [first |-> LastCommit, last |-> LastCommit]
    BY <1>4 DEF CopyLog
  <2>2. LastCommit' = LastCommit /\ Growing' /\ FilesSound'
    BY <1>1, <2>1
  <2>3. log \in 1..LastCommit /\ LastCommit \in 1..LastCommit /\ atOpen \in 1..LastCommit
    BY <1>0 DEF TypeOK
  <2>4. TypeOK'
    <3>1. copyLog' \in [first: 1..LastCommit, last: 1..LastCommit]
      BY <2>1, <2>3
    <3> QED BY <1>0, <2>1, <2>2, <3>1 DEF TypeOK, PCs
  <2>5. seen = {}
    BY <1>0, <2>1 DEF ViewSound
  <2>6. CopySound'
    <3>1. ASSUME intact
          PROVE  /\ mode = "wal" /\ PagesFrom(Pages, log, LastCommit)
                 /\ copyLog' = [first |-> log, last |-> LastCommit]
      BY <1>0, <2>1, <3>1 DEF CopySound
    <3>2. ASSUME intact
          PROVE  /\ mode' = "wal"
                 /\ copyLog'.first <= copyLog'.last /\ atOpen' <= copyLog'.last
                 /\ PagesFrom(Pages, copyLog.first, copyLog.last)'
                 /\ copyLog'.last = LastCommit'
      BY <1>0, <2>1, <2>2, <2>3, <3>1, <3>2 DEF PagesFrom
    <3> QED BY <2>1, <3>2 DEF CopySound
  <2>7. ViewSound'
    BY <1>0, <2>1, <2>5 DEF ViewSound, ViewIs
  <2> QED BY <2>2, <2>4, <2>6, <2>7 DEF IInv
<1>5. ASSUME NEW p \in Pages, ReadPage(p)
      PROVE  IInv'
  <2> DEFINE v == IF pc = "snapshot"
                  THEN Merged(copyDb, copyLog.first, copyLog.last, p)
                  ELSE db[p]
  <2>1. /\ UNCHANGED <<files, pc, copy, atOpen, intact, still>>
        /\ pc \in {"snapshot", "in_place"}
        /\ seen' = seen \cup {p}
        /\ view' = [view EXCEPT ![p] = v]
    BY <1>5 DEF ReadPage
  <2>2. LastCommit' = LastCommit /\ Growing' /\ FilesSound'
    BY <1>1, <2>1
  <2>3. copyLog.first \in 1..LastCommit /\ copyLog.last \in 1..LastCommit /\ seen \subseteq Pages
    BY <1>0 DEF TypeOK
  <2>4. v \in Nat
    BY <1>0, <2>3 DEF Merged, TypeOK, States
  <2>5. /\ view'[p] = v /\ view' \in States
        /\ \A q \in Pages \ {p} : view'[q] = view[q]
    BY <1>0, <2>1, <2>4 DEF TypeOK, States
  <2>6. TypeOK'
    BY <1>0, <2>1, <2>2, <2>5 DEF TypeOK
  <2>7. CopySound'
    BY <1>0, <2>1, <2>2 DEF CopySound, PagesFrom, LastCommit
  <2>8. ViewSound'
    <3>1. ASSUME pc = "snapshot", intact
          PROVE  ViewIs(copyLog.last)'
      <4>1. /\ ViewIs(copyLog.last) /\ PagesFrom(Pages, copyLog.first, copyLog.last)
        BY <1>0, <3>1 DEF ViewSound, CopySound
      <4>2. PICK k \in copyLog.first..copyLog.last : copyDb[p] = commits[k][p]
        BY <4>1 DEF PagesFrom
      <4>3. v = commits[copyLog.last][p]
        <5>1. copyDb \in States
          BY <1>0 DEF TypeOK
        <5> QED BY <1>0, <2>3, <3>1, <4>2, <5>1, MergedIsLast
      <4> QED BY <2>1, <2>3, <2>5, <4>1, <4>3 DEF ViewIs
    <3>2. ASSUME pc = "in_place", still
          PROVE  ~logFile /\ \A q \in seen' : view'[q] = db[q]
      BY <1>0, <2>1, <2>3, <2>5, <3>2 DEF ViewSound
    <3> QED BY <1>0, <2>1, <3>1, <3>2 DEF ViewSound
  <2> QED BY <2>2, <2>6, <2>7, <2>8 DEF IInv
<1>6. CASE Close
  <2>1. LastCommit' = LastCommit /\ Growing' /\ FilesSound'
    BY <1>1, <1>6 DEF Close
  <2>2. TypeOK'
    <3>1. 1 \in 1..LastCommit /\ Zero \in States
      BY <1>0 DEF Zero, States
    <3>2. copyLog' \in [first: 1..LastCommit, last: 1..LastCommit]
      BY <1>6, <3>1 DEF Close
    <3> QED BY <1>0, <1>6, <2>1, <3>1, <3>2 DEF Close, TypeOK, PCs
  <2>3. CopySound' /\ ViewSound'
    BY <1>0, <1>6 DEF Close, CopySound, ViewSound
  <2> QED BY <2>1, <2>2, <2>3 DEF IInv
<1> QED BY <1>2, <1>3, <1>4, <1>5, <1>6 DEF Tool

LEMMA StepIInv == IInv /\ [Next]_vars => IInv'
<1> SUFFICES ASSUME IInv, [Next]_vars
             PROVE  IInv'
  OBVIOUS
<1>1. CASE UNCHANGED vars
  BY <1>1 DEF IInv, TypeOK, Growing, FilesSound, CopySound, ViewSound, PagesFrom,
              ViewIs, LastCommit, vars, files, copy, reads
<1> QED BY <1>1, BrowserIInv, ToolIInv DEF Next

\* What holds of the database, of the working copy and of what has been read
\* through it, whatever the browser does and whenever it does it.
THEOREM IInvInvariant == Spec => []IInv
BY InitIInv, StepIInv, PTL DEF Spec

-----------------------------------------------------------------------------
(* What open_evidence_db promises.                                         *)

LEMMA IInvSnapshot == IInv => SnapshotIsCommitted
<1> SUFFICES ASSUME IInv, pc = "snapshot", intact
             PROVE  \E k \in atOpen..LastCommit : ViewIs(k)
  BY DEF SnapshotIsCommitted
<1>1. copyLog.last \in 1..LastCommit /\ atOpen \in 1..LastCommit /\ LastCommit \in Nat
  BY CommitTypes DEF IInv, TypeOK
<1>2. atOpen <= copyLog.last /\ ViewIs(copyLog.last)
  BY DEF IInv, CopySound, ViewSound
<1>3. copyLog.last \in atOpen..LastCommit
  BY <1>1, <1>2
<1> QED BY <1>2, <1>3

LEMMA IInvAtRest == IInv => AtRestIsLatest
<1> SUFFICES ASSUME IInv, pc \in {"snapshot", "in_place"}, still, hot = {}
             PROVE  ViewIs(LastCommit)
  BY DEF AtRestIsLatest
<1>1. TypeOK /\ FilesSound /\ CopySound /\ ViewSound /\ LastCommit \in Nat
  BY CommitTypes DEF IInv
<1>2. CASE pc = "snapshot"
  <2>1. intact
    BY <1>1 DEF ViewSound
  <2>2. copyLog.last = LastCommit /\ ViewIs(copyLog.last)
    BY <1>1, <1>2, <2>1 DEF CopySound, ViewSound
  <2> QED BY <2>2
<1>3. CASE pc = "in_place"
  <2>1. ~logFile /\ \A p \in seen : view[p] = db[p]
    BY <1>1, <1>3 DEF ViewSound
  <2>2. \A p \in Pages : db[p] = commits[LastCommit][p]
    <3>1. CASE mode = "wal"
      <4>1. log = LastCommit /\ \A p \in Pages : \E k \in log..LastCommit : db[p] = commits[k][p]
        BY <1>1, <2>1, <3>1 DEF FilesSound
      <4>2. \A k \in LastCommit..LastCommit : k = LastCommit
        BY <1>1
      <4> QED BY <4>1, <4>2
    <3>2. CASE mode = "rollback"
      BY <1>1, <3>2 DEF FilesSound
    <3> QED BY <1>1, <3>1, <3>2 DEF TypeOK
  <2>3. seen \subseteq Pages
    BY <1>1 DEF TypeOK
  <2> QED BY <2>1, <2>2, <2>3 DEF ViewIs
<1> QED BY <1>2, <1>3

\* The two files that open_evidence_db copies one after the other show one
\* committed state of the database, no older than the open, as long as the
\* browser does not start the log anew in between.
THEOREM SnapshotTheorem == Spec => []SnapshotIsCommitted
BY IInvInvariant, IInvSnapshot, PTL

\* Read at rest, by copy or in place, a database shows its last commit.
THEOREM AtRestTheorem == Spec => []AtRestIsLatest
BY IInvInvariant, IInvAtRest, PTL

\* Whatever open_evidence_db chose, what it lets a parser read was committed.
THEOREM ReadsCommitted == Spec => []ReadsACommittedState
<1>1. IInv => ReadsACommittedState
  BY IInvSnapshot, IInvAtRest DEF ReadsACommittedState
<1> QED BY <1>1, IInvInvariant, PTL

-----------------------------------------------------------------------------
(* Secrets: what is shown as decrypted is what the browser stored. *)

SecretRows == UNION {{w.rows[i] : i \in DOMAIN w.rows} : w \in CookiesGiven \cup LoginsGiven}
HasSite(row) == wanted.artifact = "cookies" => row.host # "none"

\* A cookie as it was stored, and a login of which the password may be missing.
GenuineCookie(r) ==
    IF r.bound THEN r.value = Unbound(r.row.plain.text) /\ r.row.plain.boundTo = r.row.host
    ELSE IsOf(r.value, r.row.plain, r.row)
GenuineLogin(r) ==
    /\ r = [row |-> r.row, user |-> r.user, value |-> r.value]
    /\ IsOf(r.user, r.row.plain, r.row)
    /\ r.value # DecryptFailed
    /\ wanted.reveal => IsOf(r.value, r.row.password, r.row)
Genuine(r) == IF wanted.artifact = "logins" THEN GenuineLogin(r) ELSE GenuineCookie(r)

Records == {revealed[k] : k \in DOMAIN revealed}
Printed == IF wanted.artifact = "logins" THEN RedactLoginPasswords(revealed) ELSE revealed

RowsSound ==
    /\ locked \in Seq(SecretRows) /\ wanted.rows \in Seq(SecretRows)
    /\ \A k \in DOMAIN locked : HasSite(locked[k])
    /\ \A k \in DOMAIN wanted.rows : HasSite(wanted.rows[k])

\* What is revealed is genuine, before it is printed and after.
RevealedSound ==
    /\ revealed \in Seq(Records)
    /\ \A k \in DOMAIN revealed : Genuine(revealed[k])

\* The file has what is revealed, of logins of which the passwords were asked for.
FileSound ==
    secretsFile.made =>
        /\ wanted.reveal /\ wanted.artifact = "logins"
        /\ \A k \in DOMAIN secretsFile.lines : GenuineLogin(secretsFile.lines[k])

\* What there is at each phase; the key is found before anything is revealed.
Stages ==
    /\ phase \in {"start", "decrypting", "printed", "failed", "done"}
    /\ phase = "start" => revealed = <<>> /\ ~secretsFile.made
    /\ phase \in {"start", "decrypting"} => terminal = <<>>
    /\ phase # "done" => ~keyedManifest.made
    /\ terminal \in {<<>>, Printed}
    /\ phase \in {"printed", "done"} => terminal = Printed
    /\ keyedManifest.made =>
          /\ keyedManifest.sources = unlocked.from
          /\ keyedManifest.decrypted = Cardinality(Decrypted(revealed))

SecretsInv == RowsSound /\ RevealedSound /\ FileSound /\ Stages

-----------------------------------------------------------------------------

\* What a key makes of a ciphertext is what was encrypted, or is told from it.
LEMMA PlaintextsAreOf ==
    ASSUME NEW row, NEW plain, NEW value \in Plaintexts(row, plain)
    PROVE  IsOf(value, plain, row)
BY DEF Plaintexts, IsOf

\* The values that stand for something else differ.
LEMMA MarksDiffer ==
    /\ NotDecrypted # DecryptFailed /\ SECRET_PLACEHOLDER # DecryptFailed
    /\ Garbage.boundTo = "none" /\ DecryptFailed.boundTo = "none"
BY DEF NotDecrypted, DecryptFailed, SECRET_PLACEHOLDER, Garbage, Unbound

\* A list with an element more is a list of the elements.
LEMMA AppendedList ==
    ASSUME NEW s, s \in Seq({s[k] : k \in DOMAIN s}), NEW r
    PROVE  LET t == Append(s, r)
           IN  /\ t \in Seq({t[k] : k \in DOMAIN t})
               /\ \A k \in DOMAIN t : (k \in DOMAIN s /\ t[k] = s[k]) \/ t[k] = r
<1> DEFINE R == {s[k] : k \in DOMAIN s} \cup {r}
           t == Append(s, r)
<1>1. s \in Seq(R) /\ t \in Seq(R) /\ Len(t) = Len(s) + 1
  <2>1. Len(s) \in Nat /\ DOMAIN s = 1..Len(s)
    OBVIOUS
  <2>2. s \in [1..Len(s) -> R]
    BY <2>1
  <2>3. s \in Seq(R)
    BY <2>1, <2>2
  <2> QED  BY <2>3
<1>2. \A k \in 1..Len(s) : t[k] = s[k]
  BY <1>1
<1>3. t[Len(s) + 1] = r
  BY <1>1
<1>4. DOMAIN t = 1..(Len(s) + 1) /\ DOMAIN s = 1..Len(s) /\ Len(s) \in Nat
  BY <1>1
<1> HIDE DEF t, R
<1>5. t \in Seq({t[k] : k \in DOMAIN t})
  BY <1>1
<1> QED  BY <1>2, <1>3, <1>4, <1>5 DEF t

\* A run begins with its rows to be decrypted, and nothing shown.
LEMMA SecretsInitSound == SecretsInit => SecretsInv
<1> SUFFICES ASSUME SecretsInit PROVE SecretsInv
  OBVIOUS
<1>1. wanted.rows \in Seq(SecretRows)
  <2>1. CASE wanted = NothingWanted
    BY <2>1 DEF NothingWanted
  <2>2. CASE wanted \in CookiesGiven \cup LoginsGiven
    <3>1. wanted.rows \in Seq({wanted.rows[i] : i \in DOMAIN wanted.rows})
      BY <2>2, SecretsAssumption
    <3>2. {wanted.rows[i] : i \in DOMAIN wanted.rows} \subseteq SecretRows
      BY <2>2 DEF SecretRows
    <3> QED  BY <3>1, <3>2
  <2> QED  BY <2>1, <2>2 DEF SecretsInit
<1>2. \A k \in DOMAIN wanted.rows : HasSite(wanted.rows[k])
  <2>1. CASE wanted = NothingWanted
    <3>1. DOMAIN wanted.rows = {}
      BY <2>1 DEF NothingWanted
    <3> QED  BY <3>1
  <2>2. CASE wanted \in CookiesGiven \cup LoginsGiven
    BY <2>2, SecretsAssumption DEF HasSite
  <2> QED  BY <2>1, <2>2 DEF SecretsInit
<1>3. ~keyedManifest.made /\ ~secretsFile.made
  BY DEF SecretsInit, Unwritten
<1>4. RowsSound
  BY <1>1, <1>2 DEF SecretsInit, RowsSound
<1>5. RevealedSound /\ FileSound /\ Stages
  BY <1>3 DEF SecretsInit, RevealedSound, FileSound, Stages, Records
<1> QED  BY <1>4, <1>5 DEF SecretsInv

-----------------------------------------------------------------------------
(* Each step. *)

\* What a step does not touch stays sound.
LEMMA RowsRest == RowsSound /\ UNCHANGED <<wanted, locked>> => RowsSound'
BY DEF RowsSound, HasSite

LEMMA GenuineRests ==
    ASSUME UNCHANGED <<wanted, unlocked>>
    PROVE  \A r : Genuine(r) = Genuine(r)' /\ GenuineLogin(r) = GenuineLogin(r)'
BY DEF Genuine, GenuineCookie, GenuineLogin, IsOf

LEMMA RevealedRests ==
    RevealedSound /\ UNCHANGED <<wanted, unlocked, revealed>> => RevealedSound'
BY GenuineRests DEF RevealedSound, Records

LEMMA FileRests == FileSound /\ UNCHANGED <<wanted, unlocked, secretsFile>> => FileSound'
BY GenuineRests DEF FileSound

\* A key is found once, before anything is revealed.
LEMMA ResolveSound ==
    ASSUME SecretsInv, phase = "start", NEW key, NEW scheme, NEW from,
           Locked(key, scheme, from, wanted.rows) \/ Fails,
           UNCHANGED <<wanted, revealed, terminal, secretsFile, keyedManifest>>
    PROVE  SecretsInv'
<1>1. ~secretsFile.made /\ ~keyedManifest.made /\ revealed = <<>> /\ terminal = <<>>
  BY DEF SecretsInv, Stages
<1>2. RowsSound'
  BY DEF Locked, Fails, SecretsInv, RowsSound, HasSite
<1>3. RevealedSound'
  BY <1>1 DEF RevealedSound, Records
<1>4. phase' \in {"decrypting", "failed"}
  BY DEF Locked, Fails
<1>5. FileSound' /\ Stages'
  BY <1>1, <1>4 DEF FileSound, Stages
<1> QED  BY <1>2, <1>3, <1>5 DEF SecretsInv

\* The rows that are left are as sound as all.
LEMMA RowTaken ==
    ASSUME RowsSound, locked # <<>>, locked' = Tail(locked), UNCHANGED wanted
    PROVE  HasSite(Head(locked)) /\ RowsSound'
<1>1. Head(locked) = locked[1] /\ 1 \in DOMAIN locked
  BY DEF RowsSound
<1>2. \A k \in DOMAIN Tail(locked) : Tail(locked)[k] = locked[k + 1] /\ k + 1 \in DOMAIN locked
  BY DEF RowsSound
<1>3. Tail(locked) \in Seq(SecretRows)
  BY DEF RowsSound
<1> QED  BY <1>1, <1>2, <1>3 DEF RowsSound, HasSite

\* A genuine record more.
LEMMA RecordAdded ==
    ASSUME RevealedSound, UNCHANGED <<wanted, unlocked>>, NEW r, Genuine(r),
           revealed' = Append(revealed, r)
    PROVE  RevealedSound'
<1>1. revealed \in Seq({revealed[k] : k \in DOMAIN revealed})
  BY DEF RevealedSound, Records
<1>2. /\ revealed' \in Seq({revealed'[k] : k \in DOMAIN revealed'})
      /\ \A k \in DOMAIN revealed' :
            (k \in DOMAIN revealed /\ revealed'[k] = revealed[k]) \/ revealed'[k] = r
  BY <1>1, AppendedList
<1>3. \A k \in DOMAIN revealed' : Genuine(revealed'[k])
  BY <1>2 DEF RevealedSound
<1> QED  BY <1>2, <1>3, GenuineRests DEF RevealedSound, Records

\* While values are decrypted nothing is printed.
LEMMA StillDecrypting ==
    ASSUME Stages, phase = "decrypting", phase' \in {"decrypting", "failed"},
           UNCHANGED <<terminal, keyedManifest>>
    PROVE  Stages'
BY DEF Stages

\* A cookie is called bound only to the host that it was stored for.
LEMMA DecryptCookieSound == SecretsInv /\ DecryptCookie => SecretsInv'
<1> SUFFICES ASSUME SecretsInv, DecryptCookie PROVE SecretsInv'
  OBVIOUS
<1> DEFINE row == Head(locked)
<1>1. /\ phase = "decrypting" /\ wanted.artifact = "cookies" /\ locked # <<>>
      /\ locked' = Tail(locked) /\ phase' \in {"decrypting", "failed"}
      /\ UNCHANGED <<wanted, unlocked, terminal, secretsFile, keyedManifest>>
  BY DEF DecryptCookie
<1>2. RowsSound' /\ HasSite(row)
  BY <1>1, RowTaken DEF SecretsInv
<1>3. FileSound' /\ Stages'
  BY <1>1, FileRests, StillDecrypting DEF SecretsInv
<1>4. CASE UNCHANGED revealed
  BY <1>1, <1>2, <1>3, <1>4, RevealedRests DEF SecretsInv
<1>5. ASSUME NEW plain \in Plaintexts(row, row.plain),
             revealed' = Append(revealed,
                 [row |-> row, value |-> StripDomainHashPrefix(plain, row.host).value,
                  bound |-> StripDomainHashPrefix(plain, row.host).bound])
      PROVE  RevealedSound'
  <2> DEFINE r == [row |-> row, value |-> StripDomainHashPrefix(plain, row.host).value,
                   bound |-> StripDomainHashPrefix(plain, row.host).bound]
  <2>1. IsOf(plain, row.plain, row)
    BY <1>5, PlaintextsAreOf
  <2>2. ASSUME plain.boundTo = row.host PROVE GenuineCookie(r)
    <3>1. r.bound /\ r.value = Unbound(plain.text) /\ r.row = row
      BY <2>2 DEF StripDomainHashPrefix
    <3>2. row.host # "none"
      BY <1>1, <1>2 DEF HasSite
    <3>3. plain = row.plain
      BY <2>1, <2>2, <3>2, MarksDiffer DEF IsOf
    <3> QED  BY <2>2, <3>1, <3>3 DEF GenuineCookie
  <2>3. ASSUME plain.boundTo # row.host PROVE GenuineCookie(r)
    <3>1. ~r.bound /\ r.value = plain /\ r.row = row
      BY <2>3 DEF StripDomainHashPrefix
    <3> QED  BY <2>1, <3>1 DEF GenuineCookie
  <2>4. GenuineCookie(r)
    BY <2>2, <2>3
  <2>5. Genuine(r)
    BY <1>1, <2>4 DEF Genuine
  <2> HIDE DEF r
  <2> QED  BY <1>1, <1>5, <2>5, RecordAdded DEF SecretsInv, r
<1> QED  BY <1>2, <1>3, <1>4, <1>5 DEF SecretsInv, DecryptCookie

\* Of a login that did not decrypt nothing is revealed.
LEMMA DecryptLoginSound == SecretsInv /\ DecryptLogin => SecretsInv'
<1> SUFFICES ASSUME SecretsInv, DecryptLogin PROVE SecretsInv'
  OBVIOUS
<1> DEFINE row == Head(locked)
           passwords == IF wanted.reveal THEN Plaintexts(row, row.password) ELSE {NotDecrypted}
<1>1. /\ phase = "decrypting" /\ wanted.artifact = "logins" /\ locked # <<>>
      /\ locked' = Tail(locked) /\ phase' \in {"decrypting", "failed"}
      /\ UNCHANGED <<wanted, unlocked, terminal, secretsFile, keyedManifest>>
  BY DEF DecryptLogin
<1>2. RowsSound'
  BY <1>1, RowTaken DEF SecretsInv
<1>3. FileSound' /\ Stages'
  BY <1>1, FileRests, StillDecrypting DEF SecretsInv
<1>4. CASE UNCHANGED revealed
  BY <1>1, <1>2, <1>3, <1>4, RevealedRests DEF SecretsInv
<1>5. ASSUME NEW user \in Plaintexts(row, row.plain), NEW password \in passwords,
             DecryptFailed \notin {user, password},
             revealed' = Append(revealed, [row |-> row, user |-> user, value |-> password])
      PROVE  RevealedSound'
  <2> DEFINE r == [row |-> row, user |-> user, value |-> password]
  <2>1. IsOf(user, row.plain, row)
    BY <1>5, PlaintextsAreOf
  <2>2. wanted.reveal => IsOf(password, row.password, row)
    BY <1>5, PlaintextsAreOf
  <2>3. GenuineLogin(r)
    BY <1>5, <2>1, <2>2 DEF GenuineLogin
  <2>4. Genuine(r)
    BY <1>1, <2>3 DEF Genuine
  <2> HIDE DEF r
  <2> QED  BY <1>1, <1>5, <2>4, RecordAdded DEF SecretsInv, r
<1> QED  BY <1>2, <1>3, <1>4, <1>5 DEF SecretsInv, DecryptLogin

\* Printing shows what is revealed, passwords covered.
LEMMA PrintSound == SecretsInv /\ (PrintCookies \/ PrintLogins) => SecretsInv'
<1> SUFFICES ASSUME SecretsInv, PrintCookies \/ PrintLogins PROVE SecretsInv'
  OBVIOUS
<1>1. /\ phase = "decrypting" /\ phase' = "printed"
      /\ UNCHANGED <<wanted, unlocked, locked, revealed, secretsFile, keyedManifest>>
  BY DEF PrintCookies, PrintLogins
<1>2. terminal' = Printed'
  BY <1>1 DEF PrintCookies, PrintLogins, Printed, RedactLoginPasswords
<1>3. Stages'
  BY <1>1, <1>2 DEF SecretsInv, Stages
<1> QED  BY <1>1, <1>3, RowsRest, RevealedRests, FileRests DEF SecretsInv

\* The file of the passwords holds what is revealed.
LEMMA WriteSecretsFileSound == SecretsInv /\ WriteSecretsFile => SecretsInv'
<1> SUFFICES ASSUME SecretsInv, WriteSecretsFile PROVE SecretsInv'
  OBVIOUS
<1>1. /\ phase = "decrypting" /\ wanted.artifact = "logins" /\ wanted.reveal
      /\ secretsFile'.lines \in {<<>>, revealed} /\ phase' \in {"decrypting", "failed"}
      /\ UNCHANGED <<wanted, unlocked, locked, revealed, terminal, keyedManifest>>
  BY DEF WriteSecretsFile
<1>2. \A k \in DOMAIN secretsFile'.lines : GenuineLogin(secretsFile'.lines[k])
  BY <1>1 DEF SecretsInv, RevealedSound, Genuine
<1>3. FileSound'
  BY <1>1, <1>2, GenuineRests DEF FileSound
<1> QED  BY <1>1, <1>3, RowsRest, RevealedRests, StillDecrypting DEF SecretsInv

\* The manifest counts what was decrypted.
LEMMA WriteKeyedManifestSound == SecretsInv /\ WriteKeyedManifest => SecretsInv'
<1> SUFFICES ASSUME SecretsInv, WriteKeyedManifest PROVE SecretsInv'
  OBVIOUS
<1>1. /\ phase = "printed" /\ phase' \in {"done", "failed"}
      /\ UNCHANGED <<wanted, unlocked, locked, revealed, terminal, secretsFile>>
  BY DEF WriteKeyedManifest
<1>2. keyedManifest'.made =>
         /\ phase' = "done" /\ keyedManifest'.sources = unlocked.from
         /\ keyedManifest'.decrypted = Cardinality(Decrypted(revealed))
  BY <1>1 DEF WriteKeyedManifest, SecretsInv, Stages
<1>3. Printed' = Printed /\ Decrypted(revealed)' = Decrypted(revealed)
  BY <1>1 DEF Printed, RedactLoginPasswords, Decrypted
<1>4. Stages'
  BY <1>1, <1>2, <1>3 DEF SecretsInv, Stages
<1> QED  BY <1>1, <1>4, RowsRest, RevealedRests, FileRests DEF SecretsInv

-----------------------------------------------------------------------------

\* Every step keeps the invariant.
LEMMA SecretsStepSound == SecretsInv /\ [SecretsNext]_secretVars => SecretsInv'
<1> SUFFICES ASSUME SecretsInv, [SecretsNext]_secretVars PROVE SecretsInv'
  OBVIOUS
<1>1. CASE ResolveChromiumKeys
  BY <1>1, ResolveSound DEF ResolveChromiumKeys, ResolveWindows, ResolveMacos
<1>2. CASE LocateFirefoxKey4
  BY <1>2, ResolveSound DEF LocateFirefoxKey4
<1>3. CASE UNCHANGED secretVars
  <2>1. Stages'
    BY <1>3 DEF secretVars, SecretsInv, Stages, Printed, RedactLoginPasswords, Decrypted
  <2> QED  BY <1>3, <2>1, RowsRest, RevealedRests, FileRests DEF secretVars, SecretsInv
<1> QED  BY <1>1, <1>2, <1>3, DecryptCookieSound, DecryptLoginSound, PrintSound,
            WriteSecretsFileSound, WriteKeyedManifestSound DEF SecretsNext

\* What is printed of logins is all there is but the passwords.
LEMMA PrintedLogins ==
    ASSUME SecretsInv, wanted.artifact = "logins"
    PROVE  /\ DOMAIN Printed = DOMAIN revealed
           /\ \A k \in DOMAIN Printed :
                 /\ Printed[k].value = SECRET_PLACEHOLDER /\ revealed[k].value # DecryptFailed
                 /\ Printed[k].user = revealed[k].user /\ Printed[k].row = revealed[k].row
                 /\ IsOf(revealed[k].user, revealed[k].row.plain, revealed[k].row)
<1>1. Printed = [k \in DOMAIN revealed |-> [revealed[k] EXCEPT !.value = SECRET_PLACEHOLDER]]
  BY DEF Printed, RedactLoginPasswords
<1>2. \A k \in DOMAIN revealed : GenuineLogin(revealed[k])
  BY DEF SecretsInv, RevealedSound, Genuine
<1>3. ASSUME NEW k \in DOMAIN revealed
      PROVE  LET r == revealed[k]
             IN  Printed[k] = [row |-> r.row, user |-> r.user, value |-> SECRET_PLACEHOLDER]
  <2> DEFINE r == revealed[k]
  <2>1. r = [row |-> r.row, user |-> r.user, value |-> r.value]
    BY <1>2 DEF GenuineLogin
  <2>2. Printed[k] = [r EXCEPT !.value = SECRET_PLACEHOLDER]
    BY <1>1
  <2> HIDE DEF r
  <2>3. [r EXCEPT !.value = SECRET_PLACEHOLDER]
           = [row |-> r.row, user |-> r.user, value |-> SECRET_PLACEHOLDER]
    BY <2>1
  <2> QED  BY <2>2, <2>3 DEF r
<1> QED  BY <1>1, <1>2, <1>3 DEF GenuineLogin

\* The invariant says that secrets are genuine.
LEMMA SecretsInvImplies == SecretsInv => SecretsAreGenuine
<1> SUFFICES ASSUME SecretsInv PROVE SecretsAreGenuine
  OBVIOUS
<1>1. \A k \in DOMAIN terminal :
         LET r == terminal[k]
         IN  IF wanted.artifact = "logins"
             THEN r.value = SECRET_PLACEHOLDER /\ IsOf(r.user, r.row.plain, r.row)
             ELSE IF r.bound
             THEN r.value = Unbound(r.row.plain.text) /\ r.row.plain.boundTo = r.row.host
             ELSE IsOf(r.value, r.row.plain, r.row)
  <2>1. CASE terminal = <<>>
    BY <2>1
  <2>2. CASE terminal = Printed /\ wanted.artifact = "logins"
    BY <2>2, PrintedLogins
  <2>3. CASE terminal = Printed /\ wanted.artifact # "logins"
    BY <2>3 DEF Printed, SecretsInv, RevealedSound, Genuine, GenuineCookie
  <2> QED  BY <2>1, <2>2, <2>3 DEF SecretsInv, Stages
<1>2. phase \notin {"printed", "done", "failed"} => terminal = <<>>
  BY DEF SecretsInv, Stages
<1>3. secretsFile.made =>
         /\ wanted.reveal
         /\ \A k \in DOMAIN secretsFile.lines :
               LET r == secretsFile.lines[k] IN IsOf(r.value, r.row.password, r.row)
  BY DEF SecretsInv, FileSound, GenuineLogin
<1>4. keyedManifest.made =>
         /\ keyedManifest.sources = unlocked.from
         /\ keyedManifest.decrypted =
               Cardinality({k \in DOMAIN terminal : terminal[k].value # DecryptFailed})
  <2> SUFFICES ASSUME keyedManifest.made
               PROVE  Decrypted(revealed)
                         = {k \in DOMAIN terminal : terminal[k].value # DecryptFailed}
    BY DEF SecretsInv, Stages
  <2>1. terminal = Printed
    BY DEF SecretsInv, Stages
  <2>2. CASE wanted.artifact = "logins"
    BY <2>1, <2>2, PrintedLogins, MarksDiffer DEF Decrypted
  <2>3. CASE wanted.artifact # "logins"
    BY <2>1, <2>3 DEF Decrypted, Printed
  <2> QED  BY <2>2, <2>3
<1> QED  BY <1>1, <1>2, <1>3, <1>4 DEF SecretsAreGenuine

\* What is shown as decrypted is what the browser stored, a password never reaches
\* the terminal, and the manifest counts what was decrypted (cli.rs, dispatch_cookies,
\* dispatch_logins).
THEOREM SecretsCorrect == SecretsSpec => []SecretsAreGenuine
<1>1. SecretsInit => SecretsInv
  BY SecretsInitSound
<1>2. SecretsInv /\ [SecretsNext]_secretVars => SecretsInv'
  BY SecretsStepSound
<1>3. SecretsInv => SecretsAreGenuine
  BY SecretsInvImplies
<1> QED  BY <1>1, <1>2, <1>3, PTL DEF SecretsSpec

-----------------------------------------------------------------------------
(* Deliver: a bundle whose hashes are right is of one run. *)

Evidence == [version : Nat, long : BOOLEAN]
IsGathered(events) == \E S \in SUBSET Cases : events \in [S -> Evidence]

\* The shape of the state.
Shapes ==
    /\ profiles \in [Cases -> Evidence]
    /\ bundleRun = [stage |-> bundleRun.stage, number |-> bundleRun.number,
                    events |-> bundleRun.events, digests |-> bundleRun.digests,
                    next |-> bundleRun.next]
    /\ bundleRun.stage \in {"idle", "collected", "writing", "failed", "done"}
    /\ bundleRun.number \in Nat /\ bundleRun.next \in Nat
    /\ IsGathered(bundleRun.events) /\ IsGathered(bundleRun.digests)
    /\ outDir = [n \in FileNames |-> outDir[n]]

\* What was seen later is as new.
NoOlder(events, later) ==
    \A c \in DOMAIN events : c \in DOMAIN later /\ events[c].version <= later[c].version

\* What a run has gathered, and the files it has written of it so far.
GatheredSound ==
    /\ bundleRun.stage = "collected" => NoOlder(bundleRun.events, profiles)
    /\ bundleRun.stage = "writing" =>
          /\ NoOlder(bundleRun.events, bundleRun.digests)
          /\ bundleRun.next \in 1..5
          /\ \A k \in 1..4 : k < bundleRun.next => outDir[HashedFiles[k]] = Content(HashedFiles[k])
          /\ bundleRun.next > 2 => ~Long(bundleRun.events)

\* Contents that are the bundle of one run.
OneBundle(contents) ==
    /\ DOMAIN contents = 1..4
    /\ \A k \in 1..4 : contents[k] \notin {Absent, Torn}
    /\ contents[1].run = contents[4].run /\ contents[2].run = contents[4].run
    /\ contents[2].events = contents[1].events /\ contents[3].events = contents[1].events
    /\ ~Long(contents[1].events)
    /\ NoOlder(contents[1].events, contents[4].digests)

\* The hashes that are there were taken of one bundle, though the files may have
\* gone since.
SumsSound == outDir[Sums].type = Sums => OneBundle(outDir[Sums].of)

DeliverInv ==
    /\ Shapes /\ GatheredSound /\ SumsSound
    /\ bundleRun.stage = "done" => Verifies

-----------------------------------------------------------------------------

\* The names of the files differ.
LEMMA NamesDiffer ==
    /\ DOMAIN HashedFiles = 1..4 /\ Len(HashedFiles) = 4
    /\ \A k \in 1..4 : HashedFiles[k] \in FileNames /\ HashedFiles[k] # Sums
    /\ \A k, m \in 1..4 : HashedFiles[k] = HashedFiles[m] => k = m
    /\ Sums \in FileNames
    /\ \A n \in SingleFiles : n \in FileNames /\ n # Sums
    /\ \A n \in SingleFiles, k \in 1..4 : n # HashedFiles[k]
<1>1. DOMAIN HashedFiles = 1..4 /\ Len(HashedFiles) = 4
  BY DEF HashedFiles
<1>2. /\ HashedFiles[1] = "report.html" /\ HashedFiles[2] = "timeline.xlsx"
      /\ HashedFiles[3] = "timeline.jsonl" /\ HashedFiles[4] = "manifest.json"
  BY DEF HashedFiles
<1>3. \A k \in 1..4 : k = 1 \/ k = 2 \/ k = 3 \/ k = 4
  OBVIOUS
<1>4. \A k \in 1..4 : HashedFiles[k] \in FileNames /\ HashedFiles[k] # Sums
  BY <1>1, <1>2, <1>3 DEF FileNames, Sums
<1>5. \A k, m \in 1..4 : HashedFiles[k] = HashedFiles[m] => k = m
  BY <1>2, <1>3
<1>6. \A n \in SingleFiles, k \in 1..4 : n # HashedFiles[k]
  BY <1>2, <1>3 DEF SingleFiles
<1> QED
  BY <1>1, <1>4, <1>5, <1>6 DEF FileNames, Sums, SingleFiles

\* What one run writes of what it has gathered is one bundle.
LEMMA ContentsAreOneBundle ==
    ASSUME NoOlder(bundleRun.events, bundleRun.digests), ~Long(bundleRun.events)
    PROVE  OneBundle([k \in DOMAIN HashedFiles |-> Content(HashedFiles[k])])
<1> DEFINE contents == [k \in DOMAIN HashedFiles |-> Content(HashedFiles[k])]
<1>1. DOMAIN contents = 1..4
  BY NamesDiffer
<1>2. /\ contents[1] = [type |-> "report.html", run |-> bundleRun.number,
                     events |-> bundleRun.events]
      /\ contents[2] = [type |-> "timeline.xlsx", run |-> bundleRun.number,
                     events |-> bundleRun.events]
      /\ contents[3] = [type |-> "timeline.jsonl", events |-> bundleRun.events]
      /\ contents[4] = [type |-> "manifest.json", run |-> bundleRun.number,
                     digests |-> bundleRun.digests]
  BY NamesDiffer DEF HashedFiles, Content
<1>3. \A k \in 1..4 : contents[k].type \notin {"absent", "torn"}
  BY <1>2
<1>4. \A k \in 1..4 : contents[k] \notin {Absent, Torn}
  BY <1>3 DEF Absent, Torn
<1> QED
  BY <1>1, <1>2, <1>4 DEF OneBundle

\* A step that leaves the files and the run alone, or writes neither a file of the
\* bundle nor its hashes, disturbs nothing.
LEMMA OtherFileWritten ==
    ASSUME DeliverInv, NEW name \in SingleFiles, NEW content, Put(name, content),
           UNCHANGED <<profiles, bundleRun>>
    PROVE  DeliverInv'
<1> USE DEF DeliverInv
<1>1. outDir' = [n \in FileNames |-> outDir'[n]]
  BY DEF Shapes, Put
<1>2. /\ outDir'[Sums] = outDir[Sums]
      /\ \A k \in 1..4 : outDir'[HashedFiles[k]] = outDir[HashedFiles[k]]
  BY NamesDiffer DEF Shapes, Put
<1>3. Shapes'
  BY <1>1 DEF Shapes, IsGathered, Evidence
<1>4. GatheredSound'
  BY <1>2 DEF GatheredSound, NoOlder, Content, Long
<1>5. SumsSound'
  BY <1>2 DEF SumsSound
<1>6. bundleRun'.stage = "done" => Verifies'
  <2>1. SUFFICES ASSUME bundleRun.stage = "done" PROVE Verifies'
    OBVIOUS
  <2>2. DOMAIN outDir[Sums].of = 1..4
    BY <2>1 DEF Verifies, SumsSound, OneBundle
  <2> QED
    BY <1>2, <2>1, <2>2 DEF Verifies
<1> QED
  BY <1>3, <1>4, <1>5, <1>6

LEMMA InitSound == DeliverInit => DeliverInv
<1> SUFFICES ASSUME DeliverInit PROVE DeliverInv
  OBVIOUS
<1>1. IsGathered(NoEvidence)
  <2>1. NoEvidence \in [{} -> Evidence]
    BY DEF NoEvidence
  <2> QED
    BY <2>1 DEF IsGathered
<1>2. Shapes
  BY <1>1 DEF DeliverInit, Shapes, Idle, Evidence
<1>3. outDir[Sums].type = "absent"
  BY NamesDiffer DEF DeliverInit, Absent
<1>4. SumsSound
  BY <1>3 DEF SumsSound, Sums
<1> QED
  BY <1>2, <1>4 DEF DeliverInit, DeliverInv, GatheredSound, Idle

LEMMA BrowserChangesSound == DeliverInv /\ BrowserChanges => DeliverInv'
<1> SUFFICES ASSUME DeliverInv, BrowserChanges PROVE DeliverInv'
  OBVIOUS
<1> USE DEF DeliverInv, BrowserChanges
<1>1. PICK c \in Cases, long \in BOOLEAN :
          profiles' = [profiles EXCEPT ![c] = [version |-> @.version + 1, long |-> long]]
  OBVIOUS
<1>2. /\ profiles' \in [Cases -> Evidence]
      /\ \A d \in Cases : profiles[d].version <= profiles'[d].version
  BY <1>1 DEF Shapes, Evidence
<1>3. Shapes'
  BY <1>2 DEF Shapes
<1>4. \A d \in DOMAIN bundleRun.events : d \in Cases => bundleRun.events[d].version \in Nat
  BY DEF Shapes, IsGathered, Evidence
<1>5. bundleRun.stage = "collected" => NoOlder(bundleRun.events, profiles')
  <2> SUFFICES ASSUME bundleRun.stage = "collected", NEW d \in DOMAIN bundleRun.events
               PROVE  d \in DOMAIN profiles' /\ bundleRun.events[d].version <= profiles'[d].version
    BY DEF NoOlder
  <2>1. d \in DOMAIN profiles /\ bundleRun.events[d].version <= profiles[d].version
    BY DEF GatheredSound, NoOlder
  <2>2. d \in Cases /\ profiles[d].version \in Nat /\ profiles'[d].version \in Nat
    BY <1>2, <2>1 DEF Shapes, Evidence
  <2> QED
    BY <1>2, <1>4, <2>1, <2>2
<1>6. GatheredSound'
  BY <1>5 DEF GatheredSound, Content, Long
<1>7. SumsSound' /\ (bundleRun'.stage = "done" => Verifies')
  BY DEF SumsSound, Verifies
<1> QED
  BY <1>3, <1>6, <1>7

LEMMA CollectSound == DeliverInv /\ CollectInvestigation => DeliverInv'
<1> SUFFICES ASSUME DeliverInv, CollectInvestigation PROVE DeliverInv'
  OBVIOUS
<1> USE DEF DeliverInv, CollectInvestigation
<1>1. PICK S \in SUBSET Cases :
          bundleRun' = [Idle EXCEPT !.stage = "collected", !.number = bundleRun.number + 1,
                                    !.events = Of(S)]
  OBVIOUS
<1>2. bundleRun' = [stage |-> "collected", number |-> bundleRun.number + 1, events |-> Of(S),
                    digests |-> NoEvidence, next |-> 0]
  BY <1>1 DEF Idle
<1>3. Of(S) \in [S -> Evidence]
  BY DEF Of, Shapes
<1>4. NoEvidence \in [{} -> Evidence]
  BY DEF NoEvidence
<1>5. Shapes'
  <2>1. IsGathered(Of(S)) /\ IsGathered(NoEvidence)
    BY <1>3, <1>4 DEF IsGathered
  <2>2. IsGathered(bundleRun.events)' /\ IsGathered(bundleRun.digests)'
    BY <1>2, <2>1 DEF IsGathered, Evidence
  <2>3. bundleRun' = [stage |-> bundleRun'.stage, number |-> bundleRun'.number,
                      events |-> bundleRun'.events, digests |-> bundleRun'.digests,
                      next |-> bundleRun'.next]
    BY <1>2
  <2>4. /\ bundleRun'.stage = "collected"
        /\ bundleRun'.number \in Nat /\ bundleRun'.next \in Nat
    <3>1. /\ bundleRun'.stage = "collected"
          /\ bundleRun'.number = bundleRun.number + 1 /\ bundleRun'.next = 0
      BY <1>2
    <3>2. bundleRun.number \in Nat
      BY DEF Shapes
    <3> QED
      BY <3>1, <3>2
  <2>5. profiles' \in [Cases -> Evidence] /\ outDir' = [n \in FileNames |-> outDir'[n]]
    BY DEF Shapes
  <2> QED
    BY <2>2, <2>3, <2>4, <2>5 DEF Shapes, Evidence
<1>6. NoOlder(Of(S), profiles)
  BY DEF NoOlder, Of, Shapes, Evidence
<1>7. GatheredSound'
  BY <1>2, <1>6 DEF GatheredSound
<1>8. SumsSound'
  BY DEF SumsSound
<1> QED
  BY <1>2, <1>5, <1>7, <1>8

LEMMA BuildManifestSound == DeliverInv /\ BuildBundleManifest => DeliverInv'
<1> SUFFICES ASSUME DeliverInv, BuildBundleManifest PROVE DeliverInv'
  OBVIOUS
<1> USE DEF DeliverInv, BuildBundleManifest
<1>1. bundleRun' = [stage |-> "writing", number |-> bundleRun.number,
                    events |-> bundleRun.events, digests |-> Of(Cases), next |-> 1]
  BY DEF Shapes
<1>2. Of(Cases) \in [Cases -> Evidence]
  BY DEF Of, Shapes
<1>3. Shapes'
  <2>1. IsGathered(bundleRun.events) /\ IsGathered(Of(Cases))
    BY <1>2 DEF Shapes, IsGathered
  <2>2. IsGathered(bundleRun.events)' /\ IsGathered(bundleRun.digests)'
    BY <1>1, <2>1 DEF IsGathered, Evidence
  <2>3. bundleRun' = [stage |-> bundleRun'.stage, number |-> bundleRun'.number,
                      events |-> bundleRun'.events, digests |-> bundleRun'.digests,
                      next |-> bundleRun'.next]
    BY <1>1
  <2>4. /\ bundleRun'.stage = "writing"
        /\ bundleRun'.number \in Nat /\ bundleRun'.next \in Nat
    BY <1>1 DEF Shapes
  <2>5. profiles' \in [Cases -> Evidence] /\ outDir' = [n \in FileNames |-> outDir'[n]]
    BY DEF Shapes
  <2> QED
    BY <2>2, <2>3, <2>4, <2>5 DEF Shapes, Evidence
<1>4. NoOlder(bundleRun.events, Of(Cases))
  BY DEF GatheredSound, NoOlder, Of, Shapes
<1>5. GatheredSound'
  BY <1>1, <1>4 DEF GatheredSound
<1>6. SumsSound'
  BY DEF SumsSound
<1> QED
  BY <1>1, <1>3, <1>5, <1>6

LEMMA WriteFileSound == DeliverInv /\ WriteFile => DeliverInv'
<1> SUFFICES ASSUME DeliverInv, WriteFile PROVE DeliverInv'
  OBVIOUS
<1> USE DEF DeliverInv, WriteFile
<1> DEFINE k == bundleRun.next
           name == HashedFiles[k]
<1>1. k \in 1..4 /\ name \in FileNames /\ name # Sums
  BY NamesDiffer
<1>2. CASE /\ ~Unwritable(name) /\ Put(name, Content(name))
           /\ bundleRun' = [bundleRun EXCEPT !.next = @ + 1]
  <2>1. bundleRun' = [stage |-> "writing", number |-> bundleRun.number,
                      events |-> bundleRun.events, digests |-> bundleRun.digests, next |-> k + 1]
    BY <1>2 DEF Shapes
  <2>2. outDir' = [n \in FileNames |-> IF n = name THEN Content(name) ELSE outDir[n]]
    BY <1>1, <1>2 DEF Put, Shapes
  <2>3. Shapes'
    BY <1>1, <2>1, <2>2 DEF Shapes, IsGathered, Evidence
  <2>4. ASSUME NEW m \in 1..4, m < k + 1
        PROVE  outDir'[HashedFiles[m]] = Content(HashedFiles[m])'
    <3>1. Content(HashedFiles[m])' = Content(HashedFiles[m])
      BY <2>1 DEF Content
    <3>2. CASE m = k
      BY <1>1, <2>2, <3>1, <3>2
    <3>3. CASE m # k
      <4>1. m < k
        BY <1>1, <2>4, <3>3
      <4>2. outDir[HashedFiles[m]] = Content(HashedFiles[m])
        BY <4>1 DEF GatheredSound
      <4> QED
        BY <1>1, <2>2, <3>1, <3>3, <4>2, NamesDiffer
    <3> QED
      BY <3>2, <3>3
  <2>5. k + 1 > 2 => ~Long(bundleRun.events)
    <3>1. CASE k = 2
      <4>1. name = "timeline.xlsx"
        BY <3>1 DEF HashedFiles
      <4> QED
        BY <1>2, <4>1 DEF Unwritable
    <3>2. CASE k > 2
      BY <3>2 DEF GatheredSound
    <3> QED
      BY <1>1, <3>1, <3>2
  <2>6. GatheredSound'
    BY <1>1, <2>1, <2>4, <2>5 DEF GatheredSound, NoOlder, Long
  <2>7. outDir'[Sums] = outDir[Sums]
    BY <1>1, <2>2, NamesDiffer
  <2>8. SumsSound'
    BY <2>7 DEF SumsSound
  <2> QED
    BY <2>1, <2>3, <2>6, <2>8
<1>3. CASE bundleRun' = [bundleRun EXCEPT !.stage = "failed"] /\ UNCHANGED outDir
  <2>1. bundleRun' = [stage |-> "failed", number |-> bundleRun.number,
                      events |-> bundleRun.events, digests |-> bundleRun.digests,
                      next |-> bundleRun.next]
    BY <1>3 DEF Shapes
  <2>2. Shapes'
    BY <1>3, <2>1 DEF Shapes, IsGathered, Evidence
  <2> QED
    BY <1>3, <2>1, <2>2 DEF GatheredSound, SumsSound
<1> QED
  BY <1>2, <1>3

LEMMA WriteSumsSound == DeliverInv /\ WriteSums => DeliverInv'
<1> SUFFICES ASSUME DeliverInv, WriteSums PROVE DeliverInv'
  OBVIOUS
<1> USE DEF DeliverInv, WriteSums
<1>1. bundleRun' = [stage |-> "done", number |-> bundleRun.number,
                    events |-> bundleRun.events, digests |-> bundleRun.digests,
                    next |-> bundleRun.next]
  BY DEF Shapes
<1>2. outDir' = [n \in FileNames |->
                    IF n = Sums THEN [type |-> Sums, of |-> Sha256Sums] ELSE outDir[n]]
  BY NamesDiffer DEF Put, Shapes
<1>3. Shapes'
  BY <1>1, <1>2 DEF Shapes, IsGathered, Evidence
<1>4. Sha256Sums = [k \in DOMAIN HashedFiles |-> Content(HashedFiles[k])]
  BY NamesDiffer DEF GatheredSound, Sha256Sums
<1>5. OneBundle(Sha256Sums)
  <2>1. NoOlder(bundleRun.events, bundleRun.digests) /\ ~Long(bundleRun.events)
    BY NamesDiffer DEF GatheredSound
  <2> QED
    BY <1>4, <2>1, ContentsAreOneBundle
<1>6. outDir'[Sums] = [type |-> Sums, of |-> Sha256Sums]
  BY <1>2, NamesDiffer
<1>7. SumsSound'
  BY <1>5, <1>6 DEF SumsSound, OneBundle, NoOlder, Long, Absent, Torn
<1>8. \A k \in 1..4 : outDir'[HashedFiles[k]] = Sha256Sums[k]
  BY <1>2, NamesDiffer DEF Sha256Sums
<1>9. Verifies'
  BY <1>6, <1>8, NamesDiffer DEF Verifies, Sha256Sums
<1> QED
  BY <1>1, <1>3, <1>7, <1>9 DEF GatheredSound

LEMMA StopRunSound == DeliverInv /\ StopRun => DeliverInv'
<1> SUFFICES ASSUME DeliverInv, StopRun PROVE DeliverInv'
  OBVIOUS
<1> USE DEF DeliverInv, StopRun
<1>1. bundleRun' = [stage |-> "failed", number |-> bundleRun.number,
                    events |-> bundleRun.events, digests |-> bundleRun.digests,
                    next |-> bundleRun.next]
  BY DEF Shapes
<1>2. CASE UNCHANGED outDir
  BY <1>1, <1>2 DEF Shapes, IsGathered, Evidence, GatheredSound, SumsSound
<1>3. ASSUME NEW name \in FileNames, Put(name, Torn)
      PROVE  DeliverInv'
  <2>1. outDir' = [n \in FileNames |-> IF n = name THEN Torn ELSE outDir[n]]
    BY <1>3 DEF Put, Shapes
  <2>2. Shapes'
    BY <1>1, <2>1 DEF Shapes, IsGathered, Evidence
  <2>3. outDir'[Sums] = outDir[Sums] \/ outDir'[Sums].type = "torn"
    BY <2>1, NamesDiffer DEF Torn
  <2>4. SumsSound'
    BY <2>3 DEF SumsSound, Sums
  <2> QED
    BY <1>1, <2>2, <2>4 DEF GatheredSound
<1> QED
  BY <1>2, <1>3, NamesDiffer

LEMMA SingleFilesSound ==
    DeliverInv /\ ((\E sheet \in BOOLEAN : RunExport(sheet)) \/ RunReport \/ RunManifest)
    => DeliverInv'
<1> SUFFICES ASSUME DeliverInv,
                    (\E sheet \in BOOLEAN : RunExport(sheet)) \/ RunReport \/ RunManifest
             PROVE  DeliverInv'
  OBVIOUS
<1>1. CASE \E sheet \in BOOLEAN : RunExport(sheet)
  BY <1>1, OtherFileWritten DEF RunExport, SingleFiles
<1>2. CASE RunReport
  <2>1. PICK S \in (SUBSET Cases) \ {{}} :
            Put("report", [type |-> "report", events |-> Of(S), flags |-> Of(Cases)])
    BY <1>2 DEF RunReport
  <2> QED
    BY <1>2, <2>1, OtherFileWritten DEF RunReport, SingleFiles
<1>3. CASE RunManifest
  BY <1>3, OtherFileWritten DEF RunManifest, SingleFiles
<1> QED
  BY <1>1, <1>2, <1>3

\* Nothing a run, the browser or the end of a run does undoes the invariant.
THEOREM DeliverInvariant == DeliverSpec => []DeliverInv
<1>1. DeliverInv /\ [DeliverNext]_deliverVars => DeliverInv'
  <2> SUFFICES ASSUME DeliverInv, [DeliverNext]_deliverVars PROVE DeliverInv'
    OBVIOUS
  <2>1. CASE DeliverNext
    BY <2>1, BrowserChangesSound, CollectSound, BuildManifestSound, WriteFileSound,
       WriteSumsSound, StopRunSound, SingleFilesSound DEF DeliverNext
  <2>2. CASE UNCHANGED deliverVars
    BY <2>2 DEF deliverVars, DeliverInv, Shapes, IsGathered, GatheredSound, SumsSound,
                NoOlder, OneBundle, Verifies, Content, Long, Evidence
  <2> QED
    BY <2>1, <2>2
<1> QED
  BY <1>1, InitSound, PTL DEF DeliverSpec

\* What the hashes vouch for is the bundle of one run, and a run that ends well leaves
\* such a bundle, whatever other runs did over the directory (bundle.rs 60-96).
THEOREM VerifiedIsOneRun == DeliverSpec => []VerifiedBundleIsOneRun
<1>1. DeliverInv => VerifiedBundleIsOneRun
  <2> SUFFICES ASSUME DeliverInv, Verifies
               PROVE  LET html == outDir["report.html"]
                          manifest == outDir["manifest.json"]
                      IN  /\ {n \in FileNames \ SingleFiles : outDir[n] \in {Absent, Torn}} = {}
                          /\ {html.run, outDir["timeline.xlsx"].run} = {manifest.run}
                          /\ outDir["timeline.xlsx"].events = html.events
                          /\ outDir["timeline.jsonl"].events = html.events
                          /\ ~Long(html.events)
                          /\ \A c \in DOMAIN html.events :
                                html.events[c].version <= manifest.digests[c].version
    BY DEF VerifiedBundleIsOneRun, DeliverInv
  <2> DEFINE of == outDir[Sums].of
  <2>1. OneBundle(of) /\ \A k \in 1..4 : outDir[HashedFiles[k]] = of[k]
    BY DEF DeliverInv, SumsSound, Verifies, OneBundle
  <2>2. /\ outDir["report.html"] = of[1] /\ outDir["timeline.xlsx"] = of[2]
        /\ outDir["timeline.jsonl"] = of[3] /\ outDir["manifest.json"] = of[4]
    BY <2>1 DEF HashedFiles
  <2>3. \A n \in FileNames \ SingleFiles : outDir[n] \notin {Absent, Torn}
    <3> SUFFICES ASSUME NEW n \in FileNames \ SingleFiles PROVE outDir[n] \notin {Absent, Torn}
      OBVIOUS
    <3>1. n = Sums \/ \E k \in 1..4 : n = HashedFiles[k]
      BY NamesDiffer DEF FileNames
    <3>2. outDir[Sums] \notin {Absent, Torn}
      BY DEF Verifies, Sums, Absent, Torn
    <3> QED
      BY <2>1, <3>1, <3>2 DEF OneBundle
  <2> QED
    BY <2>1, <2>2, <2>3 DEF OneBundle, NoOlder
<1> QED
  BY <1>1, DeliverInvariant, PTL

-----------------------------------------------------------------------------
(* Trees of any size: the nodes above a node are the least set that holds it and with  *)
(* each node the one it is in.                                                         *)

Nodes(t) == {Root} \cup DOMAIN t
ClosedUp(t) == {S \in SUBSET Nodes(t) : \A k \in S : k # Root => t[k].in \in S}
Ancestors(t, k) == {x \in Nodes(t) : \A S \in ClosedUp(t) : k \in S => x \in S}

LEMMA NodesAre ==
    ASSUME NEW t, IsTree(t)
    PROVE  /\ Len(t) \in Nat /\ Nodes(t) = 0..Len(t) /\ Root = 0
           /\ \A k \in Nodes(t) : k # Root => k \in DOMAIN t /\ t[k].in \in Nodes(t) /\ t[k].in < k
<1>1. Len(t) \in Nat /\ DOMAIN t = 1..Len(t) /\ \A k \in DOMAIN t : t[k].in \in 0..(k - 1)
  BY DEF IsTree
<1> QED  BY <1>1 DEF Nodes, Root

LEMMA AncestorsAre ==
    ASSUME NEW t, IsTree(t)
    PROVE  /\ Ancestors(t, Root) = {Root}
           /\ \A k \in DOMAIN t : Ancestors(t, k) = {k} \cup Ancestors(t, t[k].in)
<1>1. /\ Root \in Nodes(t) /\ \A k \in DOMAIN t : k \in Nodes(t) /\ k # Root /\ t[k].in \in Nodes(t)
  BY NodesAre DEF Nodes, Root, IsTree
<1>2. Ancestors(t, Root) = {Root}
  <2>1. {Root} \in ClosedUp(t)
    BY <1>1 DEF ClosedUp
  <2> QED  BY <1>1, <2>1 DEF Ancestors
<1>3. ASSUME NEW k \in DOMAIN t
      PROVE  Ancestors(t, k) = {k} \cup Ancestors(t, t[k].in)
  <2>1. \A S \in ClosedUp(t) : k \in S => t[k].in \in S
    BY <1>1 DEF ClosedUp
  <2>2. {k} \cup Ancestors(t, t[k].in) \subseteq Ancestors(t, k)
    BY <1>1, <2>1 DEF Ancestors
  <2>3. ASSUME NEW x \in Ancestors(t, k), x # k
        PROVE  x \in Ancestors(t, t[k].in)
    <3>1. SUFFICES ASSUME NEW S \in ClosedUp(t), t[k].in \in S
                   PROVE  x \in S
      BY <2>3 DEF Ancestors
    <3>2. S \cup {k} \in ClosedUp(t)
      BY <1>1, <3>1 DEF ClosedUp
    <3> QED  BY <2>3, <3>2 DEF Ancestors
  <2> QED  BY <2>2, <2>3
<1> QED  BY <1>2, <1>3

LEMMA AncestorsOrder ==
    ASSUME NEW t, IsTree(t), NEW k \in Nodes(t)
    PROVE  /\ k \in Ancestors(t, k) /\ Ancestors(t, k) \in SUBSET (0..k)
           /\ Ancestors(t, k) \in ClosedUp(t) /\ IsFiniteSet(Ancestors(t, k))
           /\ \A a \in Ancestors(t, k) :
                 /\ a \in Nodes(t) /\ Ancestors(t, a) \subseteq Ancestors(t, k)
                 /\ a # k => \E c \in Children(t, a) : c \in Ancestors(t, k)
<1>1. k \in Nat /\ Len(t) \in Nat /\ Nodes(t) = 0..Len(t)
  BY NodesAre
<1>2. 0..k \in ClosedUp(t)
  <2>1. 0..k \in SUBSET Nodes(t)
    BY <1>1
  <2>2. ASSUME NEW j \in 0..k, j # Root PROVE t[j].in \in 0..k
    <3>1. j \in Nodes(t) /\ t[j].in \in Nodes(t) /\ t[j].in < j
      BY <2>1, <2>2, NodesAre
    <3> QED  BY <1>1, <3>1
  <2> QED  BY <2>1, <2>2 DEF ClosedUp
<1>3. k \in Ancestors(t, k) /\ Ancestors(t, k) \in SUBSET (0..k)
  <2>1. k \in 0..k
    BY <1>1
  <2> QED  BY <1>2, <2>1 DEF Ancestors
<1>4. Ancestors(t, k) \in ClosedUp(t)
  BY NodesAre DEF Ancestors, ClosedUp
<1>5. IsFiniteSet(Ancestors(t, k))
  <2>1. IsFiniteSet(0..k)
    BY <1>1, FS_Interval
  <2> QED  BY <1>3, <2>1, FS_Subset
<1>6. ASSUME NEW a \in Ancestors(t, k)
      PROVE  a \in Nodes(t) /\ Ancestors(t, a) \subseteq Ancestors(t, k)
  BY DEF Ancestors
<1>7. ASSUME NEW a \in Ancestors(t, k), a # k
      PROVE  \E c \in Children(t, a) : c \in Ancestors(t, k)
  <2> DEFINE S == Ancestors(t, k) \ {a}
  <2>1. k \in S /\ S \in SUBSET Nodes(t) /\ a \notin S
    BY <1>3, <1>7 DEF Ancestors
  <2>2. S \notin ClosedUp(t)
    <3> HIDE DEF S
    <3> QED  BY <2>1 DEF Ancestors
  <2>3. PICK c \in S : c # Root /\ t[c].in \notin S
    BY <2>1, <2>2 DEF ClosedUp
  <2>4. c \in Ancestors(t, k) /\ t[c].in \in Ancestors(t, k)
    BY <1>4, <2>3 DEF ClosedUp
  <2>5. t[c].in = a
    BY <2>3, <2>4
  <2>6. c \in Children(t, a)
    BY <2>3, <2>4, <2>5, <1>6, NodesAre DEF Children
  <2> QED  BY <2>4, <2>6
<1> QED  BY <1>3, <1>4, <1>5, <1>6, <1>7

LEMMA AboveIs ==
    ASSUME NEW t, IsTree(t)
    PROVE  \A k \in Nodes(t) : Above(t, k) = Ancestors(t, k)
<1> DEFINE D(f) == [k \in {Root} \cup DOMAIN t |->
                      IF k = Root THEN {Root} ELSE {k} \cup f[t[k].in]]
           h == [k \in {Root} \cup DOMAIN t |-> Ancestors(t, k)]
           g == CHOOSE f : f = D(f)
<1>1. h = D(h)
  <2>1. ASSUME NEW k \in {Root} \cup DOMAIN t
        PROVE  h[k] = IF k = Root THEN {Root} ELSE {k} \cup h[t[k].in]
    <3>1. k # Root => k \in DOMAIN t /\ t[k].in \in {Root} \cup DOMAIN t
      BY NodesAre DEF Nodes
    <3> QED  BY <3>1, AncestorsAre
  <2> HIDE DEF h
  <2>2. D(h) = [k \in {Root} \cup DOMAIN t |-> h[k]]
    BY <2>1
  <2>3. h = [k \in {Root} \cup DOMAIN t |-> h[k]]
    BY DEF h
  <2> QED  BY <2>2, <2>3
<1>2. g = D(g)
  <2> HIDE DEF D, h
  <2> QED  BY <1>1
<1>3. \A k \in Nodes(t) : g[k] = Ancestors(t, k)
  <2> DEFINE T == {k \in Nodes(t) : g[k] # Ancestors(t, k)}
  <2> SUFFICES ASSUME T # {} PROVE FALSE
    OBVIOUS
  <2>1. T \in SUBSET Nat
    BY NodesAre
  <2>2. PICK k \in T : \A m \in T : k <= m
    <3> HIDE DEF T
    <3> QED  BY <2>1, LeastNat
  <2> HIDE DEF g
  <2>3. k \in {Root} \cup DOMAIN t /\ k \in Nat
    BY <2>1 DEF Nodes
  <2>4. g[k] = IF k = Root THEN {Root} ELSE {k} \cup g[t[k].in]
    <3>1. g[k] = D(g)[k]
      BY <1>2
    <3> QED  BY <2>3, <3>1
  <2>5. CASE k = Root
    BY <2>2, <2>4, <2>5, AncestorsAre
  <2>6. CASE k # Root
    <3>1. k \in DOMAIN t /\ t[k].in \in Nodes(t) /\ t[k].in < k /\ t[k].in \in Nat
      BY <2>3, <2>6, NodesAre
    <3>2. t[k].in \notin T
      BY <2>2, <2>3, <3>1
    <3>3. g[t[k].in] = Ancestors(t, t[k].in)
      BY <3>1, <3>2
    <3> QED  BY <2>4, <2>6, <3>1, <3>3, AncestorsAre
  <2> QED  BY <2>5, <2>6
<1>4. \A k : Above(t, k) = g[k]
  BY DEF Above
<1> QED  BY <1>3, <1>4

\* A node is as deep as there are nodes above it.
LEMMA DepthIs ==
    ASSUME NEW t, IsTree(t)
    PROVE  \A k \in Nodes(t) : DepthOf(t, k) = Cardinality(Ancestors(t, k)) - 1
<1> DEFINE D(f) == [k \in {Root} \cup DOMAIN t |-> IF k = Root THEN 0 ELSE f[t[k].in] + 1]
           h == [k \in {Root} \cup DOMAIN t |-> Cardinality(Ancestors(t, k)) - 1]
           g == CHOOSE f : f = D(f)
<1>0. ASSUME NEW k \in DOMAIN t
      PROVE  Cardinality(Ancestors(t, k)) = Cardinality(Ancestors(t, t[k].in)) + 1
  <2>1. k \in Nodes(t) /\ t[k].in \in Nodes(t) /\ k \in Nat /\ t[k].in \in Nat /\ t[k].in < k
    BY NodesAre DEF Nodes, IsTree
  <2>2. /\ IsFiniteSet(Ancestors(t, t[k].in)) /\ Ancestors(t, t[k].in) \in SUBSET (0..t[k].in)
    BY <2>1, AncestorsOrder
  <2>3. k \notin Ancestors(t, t[k].in)
    BY <2>1, <2>2
  <2>4. Ancestors(t, k) = Ancestors(t, t[k].in) \cup {k}
    BY AncestorsAre
  <2> QED  BY <2>2, <2>3, <2>4, FS_AddElement
<1>1. h = D(h)
  <2>1. ASSUME NEW k \in {Root} \cup DOMAIN t
        PROVE  h[k] = IF k = Root THEN 0 ELSE h[t[k].in] + 1
    <3>1. CASE k = Root
      <4>1. Cardinality(Ancestors(t, k)) = 1
        BY <3>1, AncestorsAre, FS_Singleton
      <4> QED  BY <3>1, <4>1
    <3>2. CASE k # Root
      <4>1. k \in DOMAIN t /\ t[k].in \in Nodes(t)
        BY <3>2, NodesAre DEF Nodes
      <4>2. Cardinality(Ancestors(t, t[k].in)) \in Nat
        BY <4>1, AncestorsOrder, FS_CardinalityType
      <4>3. h[k] = Cardinality(Ancestors(t, k)) - 1 /\ h[t[k].in] = Cardinality(Ancestors(t, t[k].in)) - 1
        BY <4>1 DEF Nodes
      <4> HIDE DEF h
      <4> QED  BY <1>0, <3>2, <4>1, <4>2, <4>3
    <3> QED  BY <3>1, <3>2
  <2> HIDE DEF h
  <2>2. D(h) = [k \in {Root} \cup DOMAIN t |-> h[k]]
    BY <2>1
  <2>3. h = [k \in {Root} \cup DOMAIN t |-> h[k]]
    BY DEF h
  <2> QED  BY <2>2, <2>3
<1>2. g = D(g)
  <2> HIDE DEF D, h
  <2> QED  BY <1>1
<1>3. \A k \in Nodes(t) : g[k] = h[k]
  <2> DEFINE T == {k \in Nodes(t) : g[k] # h[k]}
  <2> SUFFICES ASSUME T # {} PROVE FALSE
    OBVIOUS
  <2>1. T \in SUBSET Nat
    BY NodesAre
  <2>2. PICK k \in T : \A m \in T : k <= m
    <3> HIDE DEF T
    <3> QED  BY <2>1, LeastNat
  <2>3. k \in {Root} \cup DOMAIN t /\ k \in Nat
    BY <2>1 DEF Nodes
  <2>4. \A f : f = D(f) => f[k] = IF k = Root THEN 0 ELSE f[t[k].in] + 1
    <3> SUFFICES ASSUME NEW f, f = D(f) PROVE f[k] = IF k = Root THEN 0 ELSE f[t[k].in] + 1
      OBVIOUS
    <3>1. f[k] = D(f)[k]
      OBVIOUS
    <3> QED  BY <2>3, <3>1
  <2> HIDE DEF g, h, D
  <2>5. /\ g[k] = IF k = Root THEN 0 ELSE g[t[k].in] + 1
        /\ h[k] = IF k = Root THEN 0 ELSE h[t[k].in] + 1
    BY <1>1, <1>2, <2>4
  <2>6. CASE k = Root
    BY <2>2, <2>5, <2>6
  <2>7. CASE k # Root
    <3>1. t[k].in \in Nodes(t) /\ t[k].in < k /\ t[k].in \in Nat
      BY <2>3, <2>7, NodesAre
    <3>2. t[k].in \notin T
      BY <2>2, <2>3, <3>1
    <3>3. g[t[k].in] = h[t[k].in]
      BY <3>1, <3>2
    <3> QED  BY <2>2, <2>5, <2>7, <3>3
  <2> QED  BY <2>6, <2>7
<1>4. \A k : DepthOf(t, k) = g[k]
  BY DEF DepthOf
<1>5. \A k \in Nodes(t) : h[k] = Cardinality(Ancestors(t, k)) - 1
  BY DEF Nodes
<1> HIDE DEF g, h
<1> QED  BY <1>3, <1>4, <1>5

\* What the walks ask of a tree.
LEMMA TreeIs ==
    ASSUME NEW t, IsTree(t), NEW k \in Nodes(t)
    PROVE  /\ k \in Nat /\ DepthOf(t, k) \in Nat
           /\ k \in Above(t, k) /\ Above(t, k) \in SUBSET (0..k) /\ Above(t, k) \in SUBSET Nodes(t)
           /\ \A a \in Above(t, k) :
                 /\ Above(t, a) \subseteq Above(t, k)
                 /\ DepthOf(t, a) <= DepthOf(t, k)
                 /\ a # k => \E c \in Children(t, a) : c \in Above(t, k)
           /\ \A c \in Children(t, k) :
                 /\ c \in Nodes(t) /\ c > k
                 /\ Above(t, c) = {c} \cup Above(t, k) /\ DepthOf(t, c) = DepthOf(t, k) + 1
<1>1. /\ k \in Nat /\ \A a \in Nodes(t) : Above(t, a) = Ancestors(t, a)
      /\ Above(t, k) = Ancestors(t, k)
  BY NodesAre, AboveIs
<1>2. ASSUME NEW a \in Nodes(t)
      PROVE  /\ IsFiniteSet(Ancestors(t, a)) /\ Cardinality(Ancestors(t, a)) \in Nat
             /\ DepthOf(t, a) = Cardinality(Ancestors(t, a)) - 1 /\ DepthOf(t, a) \in Nat
  <2>1. IsFiniteSet(Ancestors(t, a)) /\ a \in Ancestors(t, a)
    BY AncestorsOrder
  <2>2. Cardinality(Ancestors(t, a)) \in Nat /\ Cardinality(Ancestors(t, a)) # 0
    BY <2>1, FS_CardinalityType, FS_EmptySet
  <2>3. DepthOf(t, a) = Cardinality(Ancestors(t, a)) - 1
    BY DepthIs
  <2> QED  BY <2>1, <2>2, <2>3
<1>3. /\ k \in Above(t, k) /\ Above(t, k) \in SUBSET (0..k) /\ Above(t, k) \in SUBSET Nodes(t)
  BY <1>1, AncestorsOrder
<1>4. ASSUME NEW a \in Above(t, k)
      PROVE  /\ Above(t, a) \subseteq Above(t, k)
             /\ DepthOf(t, a) <= DepthOf(t, k)
             /\ a # k => \E c \in Children(t, a) : c \in Above(t, k)
  <2>1. a \in Nodes(t) /\ Ancestors(t, a) \subseteq Ancestors(t, k)
        /\ (a # k => \E c \in Children(t, a) : c \in Ancestors(t, k))
    BY <1>1, AncestorsOrder
  <2>2. Cardinality(Ancestors(t, a)) <= Cardinality(Ancestors(t, k))
    BY <1>2, <2>1, FS_Subset
  <2> QED  BY <1>1, <1>2, <2>1, <2>2
<1>5. ASSUME NEW c \in Children(t, k)
      PROVE  /\ c \in Nodes(t) /\ c > k
             /\ Above(t, c) = {c} \cup Above(t, k) /\ DepthOf(t, c) = DepthOf(t, k) + 1
  <2>1. c \in DOMAIN t /\ t[c].in = k /\ c \in Nodes(t)
    BY DEF Children, Nodes
  <2>2. c \in Nat /\ c > k /\ c # Root
    BY <1>1, <2>1, NodesAre DEF IsTree
  <2>3. Ancestors(t, c) = {c} \cup Ancestors(t, k)
    BY <2>1, AncestorsAre
  <2>4. c \notin Ancestors(t, k)
    BY <1>1, <1>3, <2>2
  <2>5. Cardinality(Ancestors(t, c)) = Cardinality(Ancestors(t, k)) + 1
    <3>1. Ancestors(t, c) = Ancestors(t, k) \cup {c}
      BY <2>3
    <3> QED  BY <1>2, <2>4, <3>1, FS_AddElement
  <2>6. DepthOf(t, c) = Cardinality(Ancestors(t, c)) - 1 /\ DepthOf(t, k) = Cardinality(Ancestors(t, k)) - 1
        /\ Cardinality(Ancestors(t, k)) \in Nat
    BY <1>2, <2>1
  <2>7. DepthOf(t, c) = DepthOf(t, k) + 1
    BY <2>5, <2>6
  <2>8. Above(t, c) = {c} \cup Above(t, k)
    BY <1>1, <2>1, <2>3
  <2> QED  BY <2>1, <2>2, <2>7, <2>8
<1> QED  BY <1>1, <1>2, <1>3, <1>4, <1>5

-----------------------------------------------------------------------------
(* The sweep: what waits is apart, in the tree, from what else waits and from what was *)
(* found, and a container is found or below what waits.                                *)

Entered(d) ==
    /\ KindAt(tree, d) = "dir"
    /\ \A up \in Above(tree, d) \ {d} :
          KindAt(tree, up) = "dir" /\ Reads(tree, up) /\ ~IsContainer(up)
Waiting ==
    {e \in [dir : Nodes(tree), depth : Nat] : e.depth = DepthOf(tree, e.dir) /\ Entered(e.dir)}
Taken == {FoundProfile(b, d) : b \in {"Chromium", "Firefox"}, d \in Containers}
Apart(a, b) == a \notin Above(tree, b) /\ b \notin Above(tree, a)

NoneLost(p, s) ==
    \A c \in Containers :
       \/ \E k \in DOMAIN s : s[k].at = c
       \/ \E k \in DOMAIN p : p[k].dir \in Above(tree, c)
EachOnce(p, s) ==
    /\ \A j, k \in DOMAIN p : j # k => Apart(p[j].dir, p[k].dir)
    /\ \A j \in DOMAIN s, k \in DOMAIN p : Apart(s[j].at, p[k].dir)
    /\ \A j, k \in DOMAIN s : s[j].at = s[k].at => j = k
SweepSound(p, s) ==
    p \in Seq(Waiting) /\ s \in Seq(Taken) /\ NoneLost(p, s) /\ EachOnce(p, s)

LEMMA TailIs ==
    ASSUME NEW S, NEW p \in Seq(S), p # <<>>
    PROVE  /\ Len(p) \in Nat /\ Len(p) >= 1 /\ Head(p) = p[1] /\ p[1] \in S
           /\ DOMAIN p = 1..Len(p)
           /\ Tail(p) \in Seq(S) /\ DOMAIN Tail(p) = 1..(Len(p) - 1)
           /\ \A k \in 1..(Len(p) - 1) : Tail(p)[k] = p[k + 1]
<1>1. Len(p) \in Nat /\ DOMAIN p = 1..Len(p)
  OBVIOUS
<1>2. Len(p) >= 1
  <2>1. Len(p) # 0
    BY EmptySeq
  <2> QED  BY <1>1, <2>1
<1>3. Tail(p) \in Seq(S) /\ Len(Tail(p)) = Len(p) - 1
  BY HeadTailProperties
<1>4. \A k \in 1..(Len(p) - 1) : Tail(p)[k] = p[k + 1]
  BY HeadTailProperties
<1> QED  BY <1>1, <1>2, <1>3, <1>4

\* A directory's entries in some order are each of them, once.
LEMMA InOrderIs ==
    ASSUME NEW S, IsFiniteSet(S), NEW s \in InSomeOrder(S)
    PROVE  /\ Cardinality(S) \in Nat /\ DOMAIN s = 1..Cardinality(S)
           /\ \A k \in DOMAIN s : s[k] \in S
           /\ \A x \in S : \E k \in DOMAIN s : s[k] = x
           /\ \A j, k \in DOMAIN s : j # k => s[j] # s[k]
<1> DEFINE n == Cardinality(S)
<1>1. n \in Nat /\ s \in [1..n -> S] /\ \A j, k \in 1..n : j # k => s[j] # s[k]
  BY FS_CardinalityType DEF InSomeOrder
<1>2. s \in Injection(1..n, S)
  BY <1>1 DEF Injection, IsInjective
<1>3. Cardinality(1..n) = n
  BY <1>1, FS_Interval
<1>4. s \in Surjection(1..n, S)
  BY <1>2, <1>3, FS_Injection
<1> QED  BY <1>1, <1>4 DEF Surjection

LEMMA ContainerIs ==
    ASSUME NEW c \in Containers
    PROVE  /\ c \in Nodes(tree) /\ IsContainer(c) /\ DepthOf(tree, c) <= SWEEP_MAX_DEPTH
           /\ \A up \in Above(tree, c) : KindAt(tree, up) = "dir" /\ Reads(tree, up)
           /\ \A up \in Above(tree, c) : up # c => ~IsContainer(up)
BY DEF Containers, Walked, Nodes

LEMMA Skipped ==
    ASSUME IsTree(tree), SweepSound(pending, swept), pending # <<>>,
           Head(pending).depth > SWEEP_MAX_DEPTH \/ ~Reads(tree, Head(pending).dir)
    PROVE  SweepSound(Tail(pending), swept)
<1>1. /\ Len(pending) \in Nat /\ Len(pending) >= 1 /\ Head(pending) = pending[1]
      /\ pending[1] \in Waiting /\ DOMAIN pending = 1..Len(pending)
      /\ Tail(pending) \in Seq(Waiting) /\ DOMAIN Tail(pending) = 1..(Len(pending) - 1)
      /\ \A k \in 1..(Len(pending) - 1) : Tail(pending)[k] = pending[k + 1]
  BY TailIs DEF SweepSound
<1> DEFINE here == pending[1]
<1>2. /\ here.dir \in Nodes(tree) /\ here.depth = DepthOf(tree, here.dir) /\ here.depth \in Nat
  BY <1>1 DEF Waiting
<1>3. ASSUME NEW c \in Containers
      PROVE  here.dir \notin Above(tree, c)
  <2> SUFFICES ASSUME here.dir \in Above(tree, c) PROVE FALSE
    OBVIOUS
  <2>1. /\ c \in Nodes(tree) /\ DepthOf(tree, c) <= SWEEP_MAX_DEPTH /\ Reads(tree, here.dir)
    BY ContainerIs
  <2>2. DepthOf(tree, here.dir) <= DepthOf(tree, c) /\ DepthOf(tree, c) \in Nat
    BY <2>1, TreeIs
  <2> QED  BY <1>1, <1>2, <2>1, <2>2, DiscoveryAssumption
<1>4. ASSUME NEW k \in DOMAIN pending, k # 1
      PROVE  k - 1 \in DOMAIN Tail(pending) /\ Tail(pending)[k - 1] = pending[k]
  BY <1>1, <1>4
<1>5. ASSUME NEW k \in DOMAIN Tail(pending)
      PROVE  k + 1 \in DOMAIN pending /\ Tail(pending)[k] = pending[k + 1]
  BY <1>1
<1>6. NoneLost(Tail(pending), swept)
  BY <1>3, <1>4 DEF NoneLost, SweepSound
<1>7. EachOnce(Tail(pending), swept)
  <2>1. \A j, k \in DOMAIN Tail(pending) : j # k => j + 1 # k + 1
    BY <1>1
  <2> QED  BY <1>5, <2>1 DEF EachOnce, SweepSound
<1> QED  BY <1>1, <1>6, <1>7 DEF SweepSound

LEMMA TookOne ==
    ASSUME IsTree(tree), SweepSound(pending, swept), pending # <<>>,
           ~(Head(pending).depth > SWEEP_MAX_DEPTH \/ ~Reads(tree, Head(pending).dir)),
           IsContainer(Head(pending).dir)
    PROVE  SweepSound(Tail(pending), Append(swept, ClassifyDir(Head(pending).dir)))
<1>1. /\ Len(pending) \in Nat /\ Len(pending) >= 1 /\ Head(pending) = pending[1]
      /\ pending[1] \in Waiting /\ DOMAIN pending = 1..Len(pending)
      /\ Tail(pending) \in Seq(Waiting) /\ DOMAIN Tail(pending) = 1..(Len(pending) - 1)
      /\ \A k \in 1..(Len(pending) - 1) : Tail(pending)[k] = pending[k + 1]
  BY TailIs DEF SweepSound
<1> DEFINE d == pending[1].dir
           s == Append(swept, ClassifyDir(d))
<1>2. /\ d \in Nodes(tree) /\ pending[1].depth = DepthOf(tree, d) /\ pending[1].depth \in Nat /\ Entered(d)
  BY <1>1 DEF Waiting
<1>3. d \in Containers
  <2>1. DepthOf(tree, d) <= SWEEP_MAX_DEPTH /\ Reads(tree, d)
    BY <1>1, <1>2, DiscoveryAssumption
  <2>2. \A up \in Above(tree, d) : KindAt(tree, up) = "dir" /\ Reads(tree, up)
    BY <1>2, <2>1 DEF Entered
  <2>3. \A up \in Above(tree, d) \ {d} : ~IsContainer(up)
    BY <1>2 DEF Entered
  <2>4. d \in {Root} \cup DOMAIN tree
    BY <1>2 DEF Nodes
  <2>5. IsContainer(d)
    BY <1>1
  <2> HIDE DEF d
  <2> QED  BY <2>1, <2>2, <2>3, <2>4, <2>5 DEF Containers, Walked
<1>4. ClassifyDir(d) \in Taken /\ ClassifyDir(d).at = d
  <2>1. \E b \in {"Chromium", "Firefox"} : ClassifyDir(d) = FoundProfile(b, d)
    BY DEF ClassifyDir
  <2> QED  BY <1>3, <2>1 DEF Taken, FoundProfile
<1>5. /\ swept \in Seq(Taken) /\ s \in Seq(Taken) /\ Len(swept) \in Nat
      /\ DOMAIN swept = 1..Len(swept) /\ DOMAIN s = 1..(Len(swept) + 1)
      /\ s[Len(swept) + 1].at = d /\ \A k \in 1..Len(swept) : s[k] = swept[k]
  <2>1. swept \in Seq(Taken)
    BY DEF SweepSound
  <2> QED  BY <1>4, <2>1
<1> HIDE DEF s
<1>6. ASSUME NEW k \in DOMAIN pending, k # 1
      PROVE  k - 1 \in DOMAIN Tail(pending) /\ Tail(pending)[k - 1] = pending[k]
  BY <1>1, <1>6
<1>7. ASSUME NEW k \in DOMAIN Tail(pending)
      PROVE  k + 1 \in DOMAIN pending /\ k + 1 # 1 /\ Tail(pending)[k] = pending[k + 1]
  BY <1>1
<1>8. NoneLost(Tail(pending), s)
  <2> SUFFICES ASSUME NEW c \in Containers
               PROVE  \/ \E k \in DOMAIN s : s[k].at = c
                      \/ \E k \in DOMAIN Tail(pending) : Tail(pending)[k].dir \in Above(tree, c)
    BY DEF NoneLost
  <2>1. CASE \E k \in DOMAIN swept : swept[k].at = c
    BY <1>5, <2>1
  <2>2. CASE d \in Above(tree, c)
    <3>1. d = c
      BY <1>1, <2>2, ContainerIs
    <3> QED  BY <1>5, <3>1
  <2>3. CASE \E k \in DOMAIN pending : k # 1 /\ pending[k].dir \in Above(tree, c)
    BY <1>6, <2>3
  <2> QED  BY <2>1, <2>2, <2>3 DEF NoneLost, SweepSound
<1>9. EachOnce(Tail(pending), s)
  <2>0. 1 \in DOMAIN pending
    BY <1>1
  <2>1. \A j, k \in DOMAIN Tail(pending) : j # k => Apart(Tail(pending)[j].dir, Tail(pending)[k].dir)
    <3>1. \A j, k \in DOMAIN Tail(pending) : j # k => j + 1 # k + 1
      BY <1>1
    <3> QED  BY <1>7, <3>1 DEF EachOnce, SweepSound
  <2>2. ASSUME NEW j \in DOMAIN s, NEW k \in DOMAIN Tail(pending)
        PROVE  Apart(s[j].at, Tail(pending)[k].dir)
    <3>1. CASE j \in DOMAIN swept
      BY <1>5, <1>7, <3>1 DEF EachOnce, SweepSound
    <3>2. CASE j = Len(swept) + 1
      <4>1. Apart(d, pending[k + 1].dir)
        BY <1>7, <2>0 DEF EachOnce, SweepSound
      <4> QED  BY <1>5, <1>7, <3>2, <4>1
    <3> QED  BY <1>5, <3>1, <3>2
  <2>3. ASSUME NEW j \in DOMAIN s, NEW k \in DOMAIN s, s[j].at = s[k].at
        PROVE  j = k
    <3>1. \A i \in DOMAIN swept : swept[i].at # d
      <4>1. d \in Above(tree, d)
        BY <1>2, TreeIs
      <4> QED  BY <2>0, <4>1 DEF EachOnce, SweepSound, Apart
    <3>2. \A i, l \in DOMAIN swept : swept[i].at = swept[l].at => i = l
      BY DEF EachOnce, SweepSound
    <3>3. \A i \in DOMAIN s : i \in DOMAIN swept \/ i = Len(swept) + 1
      BY <1>5
    <3> QED  BY <1>5, <2>3, <3>1, <3>2, <3>3
  <2> QED  BY <2>1, <2>2, <2>3 DEF EachOnce
<1>10. SweepSound(Tail(pending), s)
  BY <1>1, <1>5, <1>8, <1>9 DEF SweepSound
<1> QED  BY <1>1, <1>10 DEF s

LEMMA WentIn ==
    ASSUME IsTree(tree), SweepSound(pending, swept), pending # <<>>,
           ~(Head(pending).depth > SWEEP_MAX_DEPTH \/ ~Reads(tree, Head(pending).dir)),
           ~IsContainer(Head(pending).dir),
           NEW within \in PendingIn(Head(pending).dir, Head(pending).depth)
    PROVE  SweepSound(within \o Tail(pending), swept)
<1>1. /\ Len(pending) \in Nat /\ Len(pending) >= 1 /\ Head(pending) = pending[1]
      /\ pending[1] \in Waiting /\ DOMAIN pending = 1..Len(pending)
      /\ Tail(pending) \in Seq(Waiting) /\ DOMAIN Tail(pending) = 1..(Len(pending) - 1)
      /\ \A k \in 1..(Len(pending) - 1) : Tail(pending)[k] = pending[k + 1]
  BY TailIs DEF SweepSound
<1> DEFINE d == pending[1].dir
           S == {n \in Children(tree, d) : tree[n].is = "dir"}
           W == Len(within)
           p == within \o Tail(pending)
<1>2. /\ d \in Nodes(tree) /\ pending[1].depth = DepthOf(tree, d) /\ pending[1].depth \in Nat /\ Entered(d)
  BY <1>1 DEF Waiting
<1>3. PICK s \in InSomeOrder(S) : within = [k \in DOMAIN s |-> [dir |-> s[k], depth |-> DepthOf(tree, d) + 1]]
  BY <1>1, <1>2 DEF PendingIn
<1>4. /\ DOMAIN s = 1..Cardinality(S) /\ Cardinality(S) \in Nat
      /\ \A k \in DOMAIN s : s[k] \in S
      /\ \A x \in S : \E k \in DOMAIN s : s[k] = x
      /\ \A j, k \in DOMAIN s : j # k => s[j] # s[k]
  <2>1. Len(tree) \in Nat /\ DOMAIN tree = 1..Len(tree)
    BY DEF IsTree
  <2>2. IsFiniteSet(1..Len(tree))
    BY <2>1, FS_Interval
  <2>3. S \in SUBSET (1..Len(tree))
    BY <2>1 DEF Children
  <2>4. IsFiniteSet(S)
    BY <2>2, <2>3, FS_Subset
  <2> HIDE DEF S
  <2> QED  BY <2>4, InOrderIs
<1>5. ASSUME NEW c \in S
      PROVE  /\ c \in Nodes(tree) /\ c \in Nat /\ d \in Nat /\ c > d
             /\ Above(tree, c) = {c} \cup Above(tree, d) /\ Above(tree, d) \subseteq 0..d
             /\ DepthOf(tree, c) = DepthOf(tree, d) + 1
             /\ Entered(c)
  <2>1. /\ c \in Children(tree, d) /\ tree[c].is = "dir"
    OBVIOUS
  <2>2. /\ c \in Nodes(tree) /\ c \in Nat /\ d \in Nat /\ c > d
        /\ Above(tree, c) = {c} \cup Above(tree, d) /\ Above(tree, d) \subseteq 0..d
        /\ DepthOf(tree, c) = DepthOf(tree, d) + 1
    BY <1>2, <2>1, TreeIs
  <2>3. KindAt(tree, c) = "dir"
    BY <2>1, <2>2 DEF KindAt, Root
  <2>4. \A up \in Above(tree, d) : KindAt(tree, up) = "dir" /\ Reads(tree, up) /\ ~IsContainer(up)
    BY <1>1, <1>2 DEF Entered
  <2> HIDE DEF d
  <2> QED  BY <2>2, <2>3, <2>4 DEF Entered
<1>6. /\ W \in Nat /\ W = Cardinality(S) /\ within \in Seq(Waiting)
      /\ \A k \in 1..W : k \in DOMAIN s /\ within[k].dir = s[k]
  <2>1. ASSUME NEW k \in DOMAIN s
        PROVE  within[k] \in Waiting /\ within[k].dir = s[k]
    <3>1. /\ s[k] \in Nodes(tree) /\ DepthOf(tree, s[k]) = DepthOf(tree, d) + 1 /\ Entered(s[k])
      BY <1>4, <1>5
    <3>2. DepthOf(tree, d) + 1 \in Nat
      BY <1>2
    <3>3. within[k] = [dir |-> s[k], depth |-> DepthOf(tree, d) + 1]
      BY <1>3
    <3> QED  BY <3>1, <3>2, <3>3 DEF Waiting
  <2>2. within \in [1..Cardinality(S) -> Waiting]
    BY <1>3, <1>4, <2>1
  <2>3. within \in Seq(Waiting) /\ Len(within) = Cardinality(S)
    <3>1. PICK n \in Nat : n = Cardinality(S)
      BY <1>4
    <3> HIDE DEF S
    <3>2. within \in [1..n -> Waiting]
      BY <2>2, <3>1
    <3> QED  BY <3>1, <3>2
  <2> QED  BY <1>4, <2>1, <2>3
<1>7. /\ p \in Seq(Waiting) /\ DOMAIN p = 1..(W + Len(pending) - 1)
      /\ \A k \in 1..W : p[k] = within[k]
      /\ \A k \in 1..(Len(pending) - 1) : p[W + k] = Tail(pending)[k]
  <2>1. Len(Tail(pending)) = Len(pending) - 1
    BY <1>1
  <2>2. within \in Seq(Waiting) /\ Tail(pending) \in Seq(Waiting)
    BY <1>1, <1>6
  <2>3. /\ p \in Seq(Waiting) /\ Len(p) = W + Len(Tail(pending))
        /\ \A i \in 1..Len(p) : p[i] = IF i <= W THEN within[i] ELSE Tail(pending)[i - W]
    BY <2>2, ConcatProperties
  <2> HIDE DEF p, W
  <2>4. W \in Nat
    BY <1>6
  <2>5. \A k \in 1..W : p[k] = within[k]
    BY <1>1, <2>1, <2>3, <2>4
  <2>6. ASSUME NEW k \in 1..(Len(pending) - 1) PROVE p[W + k] = Tail(pending)[k]
    <3>1. W + k \in 1..Len(p) /\ ~(W + k <= W) /\ (W + k) - W = k
      BY <1>1, <2>1, <2>3, <2>4
    <3> QED  BY <2>3, <3>1
  <2>7. DOMAIN p = 1..Len(p) /\ W + (Len(pending) - 1) = W + Len(pending) - 1
    BY <1>1, <2>1, <2>3, <2>4
  <2> QED  BY <2>1, <2>3, <2>5, <2>6, <2>7
<1> HIDE DEF p, W, S
\* Where what waits comes from: the directory that was entered, or what waited before.
<1>8. ASSUME NEW k \in DOMAIN p
      PROVE  \/ k \in DOMAIN s /\ p[k].dir = s[k] /\ k <= W
             \/ k - W + 1 \in DOMAIN pending /\ k - W + 1 # 1 /\ p[k] = pending[k - W + 1] /\ k > W
  <2>1. CASE k \in 1..W
    BY <1>6, <1>7, <2>1
  <2>2. CASE k \notin 1..W
    <3>1. k - W \in 1..(Len(pending) - 1) /\ W + (k - W) = k /\ k > W
      BY <1>1, <1>6, <1>7, <2>2
    <3>2. p[k] = pending[(k - W) + 1]
      BY <1>1, <1>7, <3>1
    <3> QED  BY <1>1, <1>6, <3>1, <3>2
  <2> QED  BY <2>1, <2>2
<1>9. ASSUME NEW k \in DOMAIN pending, k # 1
      PROVE  \E j \in DOMAIN p : p[j] = pending[k]
  <2>1. k - 1 \in 1..(Len(pending) - 1) /\ Tail(pending)[k - 1] = pending[k]
    BY <1>1, <1>9
  <2>2. p[W + (k - 1)] = Tail(pending)[k - 1]
    BY <1>7, <2>1
  <2>3. W + (k - 1) \in 1..(W + Len(pending) - 1)
    BY <1>1, <1>6, <2>1
  <2> QED  BY <1>7, <2>1, <2>2, <2>3
<1>10. ASSUME NEW x \in S
       PROVE  \E j \in DOMAIN p : p[j].dir = x
  <2>1. PICK k \in DOMAIN s : s[k] = x
    BY <1>4
  <2>2. k \in 1..W /\ k \in DOMAIN p
    BY <1>1, <1>4, <1>6, <1>7, <2>1
  <2> QED  BY <1>6, <1>7, <2>1, <2>2
<1>11. NoneLost(p, swept)
  <2> SUFFICES ASSUME NEW c \in Containers, \A k \in DOMAIN swept : swept[k].at # c
               PROVE  \E k \in DOMAIN p : p[k].dir \in Above(tree, c)
    BY DEF NoneLost
  <2>1. CASE \E k \in DOMAIN pending : k # 1 /\ pending[k].dir \in Above(tree, c)
    BY <1>9, <2>1
  <2>2. CASE d \in Above(tree, c)
    <3>1. d # c /\ c \in Nodes(tree)
      BY <1>1, ContainerIs
    <3>2. PICK x \in Children(tree, d) : x \in Above(tree, c)
      BY <2>2, <3>1, TreeIs
    <3>3. KindAt(tree, x) = "dir"
      BY <3>2, ContainerIs
    <3>4. x # Root
      BY <1>2, <3>2, TreeIs DEF Root
    <3>5. x \in S
      BY <3>2, <3>3, <3>4 DEF S, KindAt
    <3> QED  BY <1>10, <3>2, <3>5
  <2> QED  BY <2>1, <2>2 DEF NoneLost, SweepSound
<1>12. \A k \in DOMAIN pending : k # 1 => Apart(d, pending[k].dir)
  <2>1. 1 \in DOMAIN pending
    BY <1>1
  <2> QED  BY <2>1 DEF EachOnce, SweepSound
<1>13. \A k \in DOMAIN swept : Apart(swept[k].at, d)
  <2>1. 1 \in DOMAIN pending
    BY <1>1
  <2> QED  BY <2>1 DEF EachOnce, SweepSound
\* What is apart from a directory is apart from what is in it.
<1>14. ASSUME NEW x \in S, NEW q \in Nodes(tree), Apart(d, q) \/ Apart(q, d)
       PROVE  Apart(x, q) /\ Apart(q, x)
  <2>1. d \notin Above(tree, q) /\ q \notin Above(tree, d)
    BY <1>14 DEF Apart
  <2>2. d \in Above(tree, x) /\ Above(tree, x) = {x} \cup Above(tree, d)
    BY <1>2, <1>5, TreeIs
  <2>3. x \notin Above(tree, q)
    BY <2>1, <2>2, TreeIs
  <2>4. q # x
    BY <1>5, <2>3, TreeIs
  <2> QED  BY <2>1, <2>2, <2>3, <2>4 DEF Apart
<1>15. EachOnce(p, swept)
  <2>0. \A k \in DOMAIN pending : pending[k].dir \in Nodes(tree)
    <3>1. \A k \in DOMAIN pending : pending[k] \in Waiting
      BY DEF SweepSound
    <3> QED  BY <3>1 DEF Waiting
  <2>1. ASSUME NEW j \in DOMAIN p, NEW k \in DOMAIN p, j # k
        PROVE  Apart(p[j].dir, p[k].dir)
    <3>1. CASE j <= W /\ k <= W
      <4>1. /\ s[j] \in S /\ s[k] \in S /\ s[j] # s[k] /\ p[j].dir = s[j] /\ p[k].dir = s[k]
        BY <1>4, <1>6, <1>7, <1>8, <2>1, <3>1
      <4>2. s[j] \notin Above(tree, d) /\ s[k] \notin Above(tree, d)
        BY <1>5, <4>1
      <4> QED  BY <1>5, <4>1, <4>2 DEF Apart
    <3>2. CASE j <= W /\ k > W
      <4>1. s[j] \in S /\ p[j].dir = s[j]
        BY <1>4, <1>6, <1>7, <1>8, <3>2
      <4>2. PICK i \in DOMAIN pending : i # 1 /\ p[k] = pending[i]
        BY <1>6, <1>7, <1>8, <3>2
      <4> QED  BY <1>12, <1>14, <2>0, <4>1, <4>2
    <3>3. CASE j > W /\ k <= W
      <4>1. s[k] \in S /\ p[k].dir = s[k]
        BY <1>4, <1>6, <1>7, <1>8, <3>3
      <4>2. PICK i \in DOMAIN pending : i # 1 /\ p[j] = pending[i]
        BY <1>6, <1>7, <1>8, <3>3
      <4> QED  BY <1>12, <1>14, <2>0, <4>1, <4>2
    <3>4. CASE j > W /\ k > W
      <4>1. /\ j - W + 1 \in DOMAIN pending /\ p[j] = pending[j - W + 1]
            /\ k - W + 1 \in DOMAIN pending /\ p[k] = pending[k - W + 1]
            /\ j - W + 1 # k - W + 1
        BY <1>6, <1>7, <1>8, <2>1, <3>4
      <4> QED  BY <4>1 DEF EachOnce, SweepSound
    <3> QED  BY <1>6, <1>7, <3>1, <3>2, <3>3, <3>4
  <2>2. ASSUME NEW j \in DOMAIN swept, NEW k \in DOMAIN p
        PROVE  Apart(swept[j].at, p[k].dir)
    <3>1. CASE \E x \in S : p[k].dir = x
      <4>1. swept[j].at \in Nodes(tree)
        <5>1. swept[j] \in Taken
          BY DEF SweepSound
        <5> QED  BY <5>1, ContainerIs DEF Taken, FoundProfile
      <4> QED  BY <1>13, <1>14, <3>1, <4>1
    <3>2. CASE \E i \in DOMAIN pending : p[k] = pending[i]
      BY <3>2 DEF EachOnce, SweepSound
    <3> QED  BY <1>4, <1>8, <3>1, <3>2
  <2>3. \A j, k \in DOMAIN swept : swept[j].at = swept[k].at => j = k
    BY DEF EachOnce, SweepSound
  <2> QED  BY <2>1, <2>2, <2>3 DEF EachOnce
<1>16. p \in Seq(Waiting) /\ swept \in Seq(Taken)
  BY <1>7 DEF SweepSound
<1>17. SweepSound(p, swept)
  BY <1>11, <1>15, <1>16 DEF SweepSound
<1> QED  BY <1>17 DEF p

\* What is there to find rests with the tree.
LEMMA SweepRests ==
    ASSUME tree' = tree, SweepSound(pending', swept')
    PROVE  SweepSound(pending, swept)'
<1>1. ASSUME NEW d, NEW m PROVE MarkerPresent(d, m)' <=> MarkerPresent(d, m)
  BY DEF MarkerPresent
<1>2. ASSUME NEW d PROVE IsContainer(d)' <=> IsContainer(d)
  <2>1. HasChromiumSignature(d)' <=> HasChromiumSignature(d)
    BY <1>1 DEF HasChromiumSignature
  <2>2. HasFirefoxSignature(d)' <=> HasFirefoxSignature(d)
    BY <1>1 DEF HasFirefoxSignature
  <2>3. /\ AttributionFor(d)' <=> AttributionFor(d)
        /\ HasEmbeddedSubdir(d)' <=> HasEmbeddedSubdir(d)
    BY DEF AttributionFor, HasEmbeddedSubdir
  <2> QED  BY <2>1, <2>2, <2>3 DEF IsContainer
<1>3. Containers' = Containers
  BY <1>2 DEF Containers
<1>4. \A d : Entered(d)' <=> Entered(d)
  BY <1>2 DEF Entered
<1>5. Waiting' = Waiting
  BY <1>4 DEF Waiting
<1>6. Taken' = Taken
  BY <1>3 DEF Taken
<1>7. NoneLost(pending, swept)' <=> NoneLost(pending', swept')
  BY <1>3 DEF NoneLost
<1>8. EachOnce(pending, swept)' <=> EachOnce(pending', swept')
  BY DEF EachOnce, Apart
<1> QED  BY <1>5, <1>6, <1>7, <1>8 DEF SweepSound

-----------------------------------------------------------------------------
(* A run of it. *)

CustodySound ==
    \/ custody = NotYet
    \/ custody = [made |-> TRUE, profiles |-> ProfilesToInvestigate,
                  inputs |-> EnumerateEvidence, basis |-> InvestigationDetections]
DiscoveryInv == IsTree(tree) /\ SweepSound(pending, swept) /\ CustodySound

LEMMA DiscoveryInitSound == DiscoveryInit => DiscoveryInv
<1> SUFFICES ASSUME DiscoveryInit PROVE DiscoveryInv
  OBVIOUS
<1>1. IsTree(tree)
  <2>1. CASE tree \in TreesGiven
    BY <2>1, DiscoveryAssumption
  <2>2. CASE tree = <<>>
    BY <2>2 DEF IsTree
  <2> QED  BY <2>1, <2>2 DEF DiscoveryInit
<1>2. Above(tree, Root) = {Root} /\ DepthOf(tree, Root) = 0 /\ Root \in Nodes(tree)
  <2>1. Root \in Nodes(tree)
    BY DEF Nodes
  <2>2. Above(tree, Root) = {Root} /\ DepthOf(tree, Root) = Cardinality({Root}) - 1
    BY <1>1, <2>1, AboveIs, AncestorsAre, DepthIs
  <2>3. Cardinality({Root}) = 1
    BY FS_Singleton
  <2> QED  BY <2>1, <2>2, <2>3
<1>3. pending = <<[dir |-> Root, depth |-> 0]>> /\ swept = <<>> /\ custody = NotYet
  BY DEF DiscoveryInit
<1>4. [dir |-> Root, depth |-> 0] \in Waiting
  BY <1>2 DEF Waiting, Entered, KindAt
<1>5. pending \in Seq(Waiting) /\ swept \in Seq(Taken)
  BY <1>3, <1>4
<1>6. DOMAIN pending = 1..1 /\ pending[1].dir = Root /\ DOMAIN swept = {}
  BY <1>3
<1>7. NoneLost(pending, swept)
  <2>1. ASSUME NEW c \in Containers
        PROVE  Root \in Above(tree, c)
    <3>1. c \in Nodes(tree)
      BY ContainerIs
    <3>2. Above(tree, c) = Ancestors(tree, c) /\ c \in Ancestors(tree, c) /\ Ancestors(tree, c) \in ClosedUp(tree)
          /\ Ancestors(tree, c) \in SUBSET (0..c)
      BY <1>1, <3>1, AboveIs, AncestorsOrder
    <3>3. Ancestors(tree, c) \in SUBSET Nat /\ Ancestors(tree, c) # {}
      BY <3>2
    <3>4. PICK x \in Ancestors(tree, c) : \A y \in Ancestors(tree, c) : x <= y
      BY <3>3, LeastNat
    <3>5. x # Root => tree[x].in \in Ancestors(tree, c) /\ x \in Nodes(tree)
      BY <3>2, <3>4 DEF ClosedUp
    <3>6. x # Root => tree[x].in < x
      BY <1>1, <3>5, NodesAre
    <3>7. x # Root => tree[x].in \in Nat /\ x \in Nat
      BY <3>3, <3>5
    <3> QED  BY <3>2, <3>4, <3>5, <3>6, <3>7
  <2> QED  BY <1>6, <2>1 DEF NoneLost
<1>8. EachOnce(pending, swept)
  BY <1>6 DEF EachOnce
<1> QED  BY <1>1, <1>3, <1>5, <1>7, <1>8 DEF DiscoveryInv, SweepSound, CustodySound

LEMMA DiscoveryStepSound == DiscoveryInv /\ [DiscoveryNext]_discoveryVars => DiscoveryInv'
<1> SUFFICES ASSUME DiscoveryInv, [DiscoveryNext]_discoveryVars PROVE DiscoveryInv'
  OBVIOUS
<1>0. IsTree(tree) /\ SweepSound(pending, swept) /\ CustodySound
  BY DEF DiscoveryInv
<1>1. tree' = tree
  BY DEF DiscoveryNext, SweepDir, TakeIntoCustody, discoveryVars
<1>2. SweepSound(pending', swept')
  <2>1. CASE SweepDir
    <3> DEFINE here == Head(pending)
    <3>1. pending # <<>>
      BY <2>1 DEF SweepDir
    <3>2. CASE here.depth > SWEEP_MAX_DEPTH \/ ~Reads(tree, here.dir)
      <4>1. pending' = Tail(pending) /\ swept' = swept
        BY <2>1, <3>2 DEF SweepDir
      <4> QED  BY <1>0, <3>1, <3>2, <4>1, Skipped
    <3>3. CASE ~(here.depth > SWEEP_MAX_DEPTH \/ ~Reads(tree, here.dir)) /\ IsContainer(here.dir)
      <4>1. pending' = Tail(pending) /\ swept' = Append(swept, ClassifyDir(here.dir))
        BY <2>1, <3>3 DEF SweepDir
      <4> QED  BY <1>0, <3>1, <3>3, <4>1, TookOne
    <3>4. CASE ~(here.depth > SWEEP_MAX_DEPTH \/ ~Reads(tree, here.dir)) /\ ~IsContainer(here.dir)
      <4>1. /\ swept' = swept
            /\ \E within \in PendingIn(here.dir, here.depth) : pending' = within \o Tail(pending)
        BY <2>1, <3>4 DEF SweepDir
      <4>2. PICK within \in PendingIn(here.dir, here.depth) : pending' = within \o Tail(pending)
        BY <4>1
      <4>3. SweepSound(within \o Tail(pending), swept)
        BY <1>0, <3>1, <3>4, WentIn
      <4> QED  BY <4>1, <4>2, <4>3
    <3> QED  BY <3>2, <3>3, <3>4
  <2>2. CASE UNCHANGED <<pending, swept>>
    BY <1>0, <2>2
  <2> QED  BY <2>1, <2>2 DEF DiscoveryNext, TakeIntoCustody, discoveryVars
<1>3. SweepSound(pending, swept)'
  BY <1>1, <1>2, SweepRests
<1>4. CustodySound'
  <2>1. /\ ProfilesToInvestigate' = ProfilesToInvestigate /\ EnumerateEvidence' = EnumerateEvidence
        /\ InvestigationDetections' = InvestigationDetections
    <3>1. DiscoverProfiles' = DiscoverProfiles
      BY <1>1 DEF DiscoverProfiles, ProfilesIn, ProfileAt
    <3>2. \A d : ProfileFamily(d)' = ProfileFamily(d)
      BY <1>1 DEF ProfileFamily
    <3>3. \A d, b : CollectArtifacts(d, b)' = CollectArtifacts(d, b)
      BY <1>1 DEF CollectArtifacts
    <3>4. \A n : Detect(n)' = Detect(n)
      BY <1>1 DEF Detect, DetectDir, DetectFile
    <3>5. ProfilesToInvestigate' = ProfilesToInvestigate
      BY <3>1, <3>2 DEF ProfilesToInvestigate
    <3>6. EnumerateEvidence' = EnumerateEvidence
      BY <3>1, <3>3 DEF EnumerateEvidence
    <3>7. InvestigationDetections' = InvestigationDetections
      BY <1>1, <3>4, <3>5 DEF InvestigationDetections
    <3> QED  BY <3>5, <3>6, <3>7
  <2>2. CASE UNCHANGED custody
    BY <1>0, <2>1, <2>2 DEF CustodySound, NotYet
  <2>3. CASE TakeIntoCustody
    BY <2>1, <2>3 DEF CustodySound, TakeIntoCustody
  <2> QED  BY <2>2, <2>3 DEF DiscoveryNext, SweepDir, discoveryVars
<1>5. IsTree(tree)'
  BY <1>0, <1>1
<1> QED  BY <1>3, <1>4, <1>5 DEF DiscoveryInv

LEMMA SweptAreContainers ==
    ASSUME SweepSound(pending, swept), pending = <<>>
    PROVE  /\ {swept[k].at : k \in DOMAIN swept} = Containers
           /\ Cardinality(Containers) = Len(swept)
<1>1. swept \in Seq(Taken) /\ Len(swept) \in Nat /\ DOMAIN swept = 1..Len(swept)
  BY DEF SweepSound
<1>2. \A k \in DOMAIN swept : swept[k].at \in Containers
  <2>1. \A k \in DOMAIN swept : swept[k] \in Taken
    BY <1>1
  <2> QED  BY <2>1 DEF Taken, FoundProfile
<1>3. \A c \in Containers : \E k \in DOMAIN swept : swept[k].at = c
  BY DEF SweepSound, NoneLost
<1>4. \A j, k \in DOMAIN swept : swept[j].at = swept[k].at => j = k
  BY DEF SweepSound, EachOnce
<1>5. {swept[k].at : k \in DOMAIN swept} = Containers
  BY <1>2, <1>3
<1> DEFINE f == [k \in 1..Len(swept) |-> swept[k].at]
<1>6. f \in Bijection(1..Len(swept), Containers)
  BY <1>1, <1>2, <1>3, <1>4 DEF Bijection, Injection, Surjection, IsInjective
<1>7. IsFiniteSet(1..Len(swept)) /\ Cardinality(1..Len(swept)) = Len(swept)
  <2>1. \A N \in Nat : IsFiniteSet(1..N) /\ Cardinality(1..N) = N
    BY FS_Interval
  <2> QED  BY <1>1, <2>1
<1>8. Cardinality(Containers) = Cardinality(1..Len(swept))
  BY <1>6, <1>7, FS_Bijection DEF ExistsBijection
<1> QED  BY <1>5, <1>7, <1>8

\* A profile that a walk reaches is in a container, or is one.
LEMMA ProfileIsWithin ==
    ASSUME IsTree(tree), NEW p, p.browser \in {"Chromium", "Firefox"}, Plain(p),
           HasFile(tree, p.at, HistoryOf(p.browser))
    PROVE  \E c \in Containers : c \in Above(tree, p.at)
<1>1. /\ p.at \in Nodes(tree) /\ DepthOf(tree, p.at) <= SWEEP_MAX_DEPTH
      /\ \A up \in Above(tree, p.at) : KindAt(tree, up) = "dir" /\ Reads(tree, up)
  BY DEF Plain, Walked, Nodes
<1>2. /\ p.at \in Above(tree, p.at) /\ Above(tree, p.at) \in SUBSET Nodes(tree)
      /\ \A a \in Above(tree, p.at) : /\ Above(tree, a) \subseteq Above(tree, p.at)
                                     /\ DepthOf(tree, a) <= DepthOf(tree, p.at)
  BY <1>1, TreeIs
<1>3. IsContainer(p.at)
  <2>1. PICK n \in Called(tree, p.at, HistoryOf(p.browser)) : TRUE
    BY DEF HasFile
  <2>2. tree[n].is = "file"
    BY DEF Plain
  <2>3. KindAt(tree, p.at) = "dir"
    BY <1>1, <1>2
  <2>4. n \in Children(tree, p.at) /\ tree[n].name = HistoryOf(p.browser)
    BY <2>3 DEF Called, Followed
  <2>5. CASE p.browser = "Chromium"
    <3>1. tree[n].name = "History"
      BY <2>4, <2>5 DEF HistoryOf
    <3>2. MarkerPresent(p.at, FileMarker("History"))
      BY <2>2, <2>4, <3>1 DEF MarkerPresent, FileMarker
    <3> QED  BY <3>2 DEF IsContainer, HasChromiumSignature, ChromiumMarkers
  <2>6. CASE p.browser = "Firefox"
    <3>1. tree[n].name = "places.sqlite"
      BY <2>4, <2>6 DEF HistoryOf
    <3>2. MarkerPresent(p.at, FileMarker("places.sqlite"))
      BY <2>2, <2>4, <3>1 DEF MarkerPresent, FileMarker
    <3> QED  BY <3>2 DEF IsContainer, HasFirefoxSignature, FirefoxMarkers
  <2> QED  BY <2>5, <2>6
<1> DEFINE T == {a \in Above(tree, p.at) : IsContainer(a)}
<1>4. T \in SUBSET Nat /\ T # {}
  <2>1. Nodes(tree) \in SUBSET Nat
    BY NodesAre
  <2> QED  BY <1>2, <1>3, <2>1
<1>5. PICK c \in T : \A a \in T : c <= a
  <2> HIDE DEF T
  <2> QED  BY <1>4, LeastNat
<1>6. c \in Above(tree, p.at) /\ IsContainer(c) /\ c \in Nodes(tree)
  BY <1>2
<1>7. \A up \in Above(tree, c) : up \in Above(tree, p.at) /\ up <= c /\ up \in Nat /\ c \in Nat
  BY <1>2, <1>6, TreeIs
<1>8. \A up \in Above(tree, c) \ {c} : ~IsContainer(up)
  BY <1>5, <1>7
<1>9. DepthOf(tree, c) <= SWEEP_MAX_DEPTH
  <2>1. DepthOf(tree, c) <= DepthOf(tree, p.at) /\ DepthOf(tree, p.at) <= SWEEP_MAX_DEPTH
    BY <1>1, <1>2, <1>6
  <2>2. DepthOf(tree, c) \in Nat /\ DepthOf(tree, p.at) \in Nat /\ SWEEP_MAX_DEPTH \in Nat
    BY <1>1, <1>6, TreeIs, DiscoveryAssumption
  <2> QED  BY <2>1, <2>2
<1>10. c \in Containers
  BY <1>1, <1>6, <1>7, <1>8, <1>9 DEF Containers, Walked, Nodes
<1> QED  BY <1>6, <1>10

LEMMA ProfilesHaveHistories ==
    ASSUME NEW p \in ProfilesToInvestigate
    PROVE  /\ HasFile(tree, p.at, HistoryOf(p.browser))
           /\ \A n \in Called(tree, p.at, HistoryOf(p.browser)) :
                 IsFile(tree, n) => Followed(tree, n) \in EnumerateEvidence
<1>1. \A d, b, n : n \in Called(tree, d, HistoryOf(b)) /\ IsFile(tree, n) =>
         Followed(tree, n) \in CollectArtifacts(d, b)
  BY DEF CollectArtifacts, ArtifactNames
<1>2. CASE DiscoverProfiles # {}
  <2>1. p \in DiscoverProfiles
    BY <1>2 DEF ProfilesToInvestigate
  <2>2. HasFile(tree, p.at, HistoryOf(p.browser))
    <3>1. CASE p \in ProfilesIn(CHROMIUM_BASES, "Chromium", "History")
      BY <3>1 DEF ProfilesIn, FoundProfile, HistoryOf
    <3>2. CASE p \in ProfilesIn(FIREFOX_BASES, "Firefox", "places.sqlite")
      BY <3>2 DEF ProfilesIn, FoundProfile, HistoryOf
    <3>3. CASE p \in ProfileAt(SafariHome, "Safari", "History.db")
      BY <3>3 DEF ProfileAt, FoundProfile, HistoryOf
    <3>4. CASE p \in ProfileAt(WebCacheHome, "InternetExplorer", "WebCacheV01.dat")
      BY <3>4 DEF ProfileAt, FoundProfile, HistoryOf
    <3> QED  BY <2>1, <3>1, <3>2, <3>3, <3>4 DEF DiscoverProfiles
  <2>3. CollectArtifacts(p.at, p.browser) \subseteq EnumerateEvidence
    BY <1>2, <2>1 DEF EnumerateEvidence
  <2> QED  BY <1>1, <2>2, <2>3
<1>3. CASE DiscoverProfiles = {}
  <2> DEFINE fits == {n \in DOMAIN Families : HasFile(tree, Root, HistoryOf(Families[n]))}
  <2>1. fits # {} /\ p = FoundProfile(Families[FirstOf(fits)], Root)
    BY <1>3 DEF ProfilesToInvestigate, ProfileFamily
  <2>2. FirstOf(fits) \in fits
    <3>1. fits \in SUBSET Nat
      BY DEF Families
    <3>2. \E n \in fits : \A m \in fits : n <= m
      <4> HIDE DEF fits
      <4> QED  BY <2>1, <3>1, LeastNat
    <3> HIDE DEF fits
    <3> QED  BY <3>2 DEF FirstOf
  <2>3. p.at = Root /\ p.browser = Families[FirstOf(fits)]
    BY <2>1 DEF FoundProfile
  <2>4. FirstOf(fits) \in DOMAIN Families /\ HasFile(tree, Root, HistoryOf(Families[FirstOf(fits)]))
    BY <2>2
  <2>5. CollectArtifacts(Root, Families[FirstOf(fits)]) \subseteq EnumerateEvidence
    BY <1>3, <2>4 DEF EnumerateEvidence
  <2> HIDE DEF fits
  <2> QED  BY <1>1, <2>3, <2>4, <2>5
<1> QED  BY <1>2, <1>3

LEMMA DiscoveryInvImplies == DiscoveryInv => NoProfileIsLost
<1> SUFFICES ASSUME DiscoveryInv PROVE NoProfileIsLost
  OBVIOUS
<1>0. IsTree(tree) /\ SweepSound(pending, swept) /\ CustodySound
  BY DEF DiscoveryInv
<1>1. pending = <<>> =>
         /\ {swept[k].at : k \in DOMAIN swept} = Containers
         /\ Cardinality(Containers) = Len(swept)
  BY <1>0, SweptAreContainers
<1>2. custody.made =>
         /\ custody.profiles = ProfilesToInvestigate /\ custody.inputs = EnumerateEvidence
         /\ custody.basis = InvestigationDetections
  BY <1>0 DEF CustodySound, NotYet
<1>3. ASSUME pending = <<>>, custody.made, NEW p \in custody.profiles,
             p.browser \in {"Chromium", "Firefox"} /\ Plain(p)
      PROVE  \E k \in DOMAIN swept : swept[k].at \in Above(tree, p.at)
  <2>1. HasFile(tree, p.at, HistoryOf(p.browser))
    BY <1>2, <1>3, ProfilesHaveHistories
  <2>2. PICK c \in Containers : c \in Above(tree, p.at)
    BY <1>0, <1>3, <2>1, ProfileIsWithin
  <2>3. c \in {swept[k].at : k \in DOMAIN swept}
    BY <1>1, <1>3
  <2> QED  BY <2>2, <2>3
<1>4. ASSUME custody.made, NEW p \in custody.profiles
      PROVE  \E n \in Called(tree, p.at, HistoryOf(p.browser)) : Followed(tree, n) \in custody.inputs
  <2>1. p \in ProfilesToInvestigate
    BY <1>2, <1>4
  <2>2. PICK n \in Called(tree, p.at, HistoryOf(p.browser)) : IsFile(tree, n)
    BY <2>1, ProfilesHaveHistories DEF HasFile
  <2> QED  BY <1>2, <1>4, <2>1, <2>2, ProfilesHaveHistories
<1>5. ASSUME custody.made, NEW b \in custody.basis
      PROVE  \/ b.at = Root \/ Followed(tree, b.at) \in custody.inputs
             \/ \E p \in custody.profiles :
                   b.at \in Children(tree, Followed(tree, p.at)) /\ tree[b.at].name # HistoryOf(p.browser)
  <2>1. b \in InvestigationDetections
    BY <1>2, <1>5
  <2>2. CASE b.at = Root
    BY <2>2
  <2>3. CASE b.at # Root
    <3>1. PICK p \in ProfilesToInvestigate, name \in HistoryNames :
             b.at \in Called(tree, p.at, name) /\ IsFile(tree, b.at)
      BY <2>1, <2>3 DEF InvestigationDetections
    <3>2. b.at \in Children(tree, Followed(tree, p.at)) /\ tree[b.at].name = name
      BY <3>1 DEF Called
    <3>3. CASE name = HistoryOf(p.browser)
      BY <1>2, <1>5, <3>1, <3>3, ProfilesHaveHistories
    <3>4. CASE name # HistoryOf(p.browser)
      BY <1>2, <1>5, <3>2, <3>4
    <3> QED  BY <3>3, <3>4
  <2> QED  BY <2>2, <2>3
<1> QED  BY <1>1, <1>3, <1>4, <1>5 DEF NoProfileIsLost

\* The sweep takes for a profile each container that can be walked to, once, however deep
\* and in whatever order directories are read; and a profile that is investigated is found
\* by it too, and has its history hashed (discovery lib.rs sweep_dir, manifest lib.rs
\* enumerate_evidence, cli.rs investigation_detections).
THEOREM ProfilesCorrect == DiscoverySpec => []NoProfileIsLost
<1>1. DiscoverySpec => []DiscoveryInv
  BY DiscoveryInitSound, DiscoveryStepSound, PTL DEF DiscoverySpec
<1> QED  BY <1>1, DiscoveryInvImplies, PTL

-----------------------------------------------------------------------------
(* Searches: a hit is of what a profile holds, and what it holds is hit. *)

\* The events that a selector leaves, and what of them answers.
Searched == CollectProfileEventsScoped(query.path, query.selector)
Answering == {e \in FilterEvents(Searched, query.term, query.window) :
                 query.sources = {} \/ ProvenanceFor(e.item[2]).source \in query.sources}
HitOf(e) == Hit(e.item[2], e.item[3], e.profile)

\* Whatever is investigated is discovered, or is the path itself.
LEMMA InvestigatedAre ==
    ASSUME NEW path, NEW p \in ToSet(InvestigationProfiles(path))
    PROVE  p \in ToSet(path.profiles) \cup {path.self}
<1>1. ToSet(<<>>) = {} /\ ToSet(<<path.self>>) = {path.self}
  BY DEF ToSet
<1>2. InvestigationProfiles(path) \in {path.profiles, <<path.self>>, <<>>}
  BY DEF InvestigationProfiles
<1> QED  BY <1>1, <1>2

\* What a search that was made has answered.
Answered ==
    /\ query.path \in PathsGiven
    /\ \A h \in answer.hits : h.provenance.state # "Carved" => \E e \in Answering : h = HitOf(e)
    /\ \A e \in Answering : HitOf(e) \in answer.hits
FindInv == answer.outcome = "done" => Answered

LEMMA DownloadsAreFinite ==
    ASSUME query.path \in PathsGiven, NEW p \in ToSet(InvestigationProfiles(query.path))
    PROVE  IsFiniteSet({i[3] : i \in {j \in p.holds : j[1] = "History" /\ j[2] = "download"}})
<1> DEFINE J == {j \in p.holds : j[1] = "History" /\ j[2] = "download"}
           S == {i[3] : i \in J}
           f == [j \in J |-> j[3]]
<1>1. IsFiniteSet(p.holds) /\ J \in SUBSET p.holds
  BY PathsAssumption, InvestigatedAre
<1>2. IsFiniteSet(J)
  BY <1>1, FS_Subset
<1>3. S = {f[j] : j \in J}
  OBVIOUS
<1>4. IsFiniteSet(S)
  <2> HIDE DEF S, J, f
  <2> QED  BY <1>2, <1>3, ImageIsFinite
<1> QED  BY <1>4

LEMMA EventsAreHeld ==
    ASSUME query.path \in PathsGiven, NEW e \in Searched
    PROVE  /\ e.profile \in ToSet(InvestigationProfiles(query.path))
           /\ query.selector \in {"none", e.profile.stamp}
           /\ e.item[2] \in Rows \cup {"download"}
           /\ \E i \in e.profile.holds :
                 /\ i[2] = e.item[2] /\ i[3] = e.item[3]
                 /\ <<i[1], "broken", "-">> \notin e.profile.holds
<1>1. PICK p \in ToSet(InvestigationProfiles(query.path)) :
         /\ query.selector \in {"none", p.stamp}
         /\ e \in EventsOf(p) \cup DownloadsOf(p)
  <2>1. CASE query.selector = "none"
    BY <2>1 DEF Searched, CollectProfileEventsScoped, CollectProfileEvents
  <2>2. CASE query.selector # "none"
    BY <2>2 DEF Searched, CollectProfileEventsScoped, Selected
  <2> QED  BY <2>1, <2>2
<1>2. CASE e \in EventsOf(p)
  <2>1. PICK i \in TriageOne(p, FALSE).events : e = [item |-> i, profile |-> p]
    BY <1>2 DEF EventsOf
  <2>2. i \in p.holds /\ i[2] \in Rows /\ <<i[1], "broken", "-">> \notin p.holds
    BY <2>1 DEF TriageOne
  <2> QED  BY <1>1, <2>1, <2>2
<1>3. CASE e \in DownloadsOf(p)
  <2> DEFINE S == {i[3] : i \in {j \in p.holds : j[1] = "History" /\ j[2] = "download"}}
  <2>1. PICK d \in ToSet(Data(p, "History", "download")) :
           e = [item |-> <<"History", "download", d>>, profile |-> p]
    BY <1>3 DEF DownloadsOf
  <2>2. <<"History", "broken", "-">> \notin p.holds
    <3>1. ToSet(<<>>) = {}
      BY DEF ToSet
    <3>2. Data(p, "History", "download") # <<>>
      BY <2>1, <3>1
    <3> QED  BY <3>2 DEF Data
  <2>3. IsFiniteSet(S)
    BY <1>1, DownloadsAreFinite
  <2>4. d \in S
    <3>1. Data(p, "History", "download") = SetToSeq(S)
      BY <2>2 DEF Data
    <3> HIDE DEF S
    <3> QED  BY <2>1, <2>3, <3>1, ListedSet
  <2>5. PICK i \in p.holds : i[1] = "History" /\ i[2] = "download" /\ i[3] = d
    BY <2>4
  <2> QED  BY <1>1, <2>1, <2>2, <2>5
<1> QED  BY <1>1, <1>2, <1>3

LEMMA HeldAreEvents ==
    ASSUME query.path \in PathsGiven, NEW what \in Rows \cup {"download"}, NEW e \in Holds(what),
           what = "download" => query.selector # "none"
    PROVE  \E x \in FilterEvents(Searched, query.term, query.window) :
              x.item[2] = what /\ x.item[3] = e[2][3] /\ x.profile = e[1]
<1>0. PICK p \in ToSet(InvestigationProfiles(query.path)) : \E i \in p.holds : e = <<p, i>>
  BY DEF Holds
<1>1. PICK i \in p.holds : e = <<p, i>>
  BY <1>0
<1>2. /\ query.selector \in {"none", p.stamp} /\ i[2] = what /\ query.term \in {"any", i[3]}
      /\ InWindow(what, query.window) /\ <<i[1], "broken", "-">> \notin p.holds
  BY <1>1 DEF Holds
<1>3. ASSUME NEW x, x.item[2] = what, x.item[3] = i[3], x.profile = p, x \in Searched
      PROVE  x \in FilterEvents(Searched, query.term, query.window)
  BY <1>2, <1>3 DEF FilterEvents
<1>4. CASE what \in Rows
  <2>1. i[1] \in FilesOf[p.family]
    BY <1>1, <1>2, <1>4, PathsAssumption, InvestigatedAre
  <2>2. i \in TriageOne(p, FALSE).events
    BY <1>1, <1>2, <1>4, <2>1 DEF TriageOne
  <2>3. [item |-> i, profile |-> p] \in EventsOf(p)
    BY <2>2 DEF EventsOf
  <2>4. [item |-> i, profile |-> p] \in Searched
    BY <1>1, <1>2, <2>3 DEF Searched, CollectProfileEventsScoped, CollectProfileEvents, Selected
  <2> QED  BY <1>1, <1>2, <1>3, <2>4
<1>5. CASE what = "download"
  <2> DEFINE S == {j[3] : j \in {k \in p.holds : k[1] = "History" /\ k[2] = "download"}}
             x == [item |-> <<"History", "download", i[3]>>, profile |-> p]
  <2>1. i[1] = "History" /\ p.family = "Chromium"
    BY <1>1, <1>2, <1>5, PathsAssumption, InvestigatedAre
  <2>2. IsFiniteSet(S)
    BY DownloadsAreFinite, InvestigatedAre
  <2>3. i[3] \in S
    BY <1>1, <1>2, <1>5, <2>1
  <2>4. Data(p, "History", "download") = SetToSeq(S)
    BY <1>2, <2>1 DEF Data
  <2>5. i[3] \in ToSet(Data(p, "History", "download"))
    <3> HIDE DEF S
    <3> QED  BY <2>2, <2>3, <2>4, ListedSet
  <2>6. x \in DownloadsOf(p)
    BY <2>1, <2>5 DEF DownloadsOf
  <2>7. x \in Searched
    BY <1>1, <1>2, <1>5, <2>6 DEF Searched, CollectProfileEventsScoped, Selected
  <2> QED  BY <1>1, <1>3, <1>5, <2>7
<1> QED  BY <1>4, <1>5

LEMMA FindInitSound == FindInit => FindInv
BY DEF FindInit, FindInv, NotAsked

LEMMA FindStepSound == FindInv /\ [RunFind \/ RunFindIocs]_findVars => FindInv'
<1> SUFFICES ASSUME FindInv, [RunFind \/ RunFindIocs]_findVars PROVE FindInv'
  OBVIOUS
<1>1. CASE RunFind
  <2>1. PICK path \in PathsGiven, term \in {"a", "x.exe", "r", "absent"}, window \in Windows,
             selector \in {"none", "Chrome/Default", "Firefox/x"},
             sources \in {{}, {"History"}, {"Recovered"}} :
          LET carvedWanted == sources = {} \/ "Carved" \in sources
              events == CollectProfileEventsScoped(path, selector)
              live == {Hit(e.item[2], term, e.profile) : e \in FilterEvents(events, term, window)}
              hits == {h \in live : SourceAllowed(sources, h)}
                      \cup IF carvedWanted THEN FindCarveHits(path, term) ELSE {}
          IN  /\ query' = [verb |-> "find", path |-> path, term |-> term, window |-> window,
                           selector |-> selector, sources |-> sources]
              /\ answer' = IF SelectorFails(path, selector) THEN Refused
                           ELSE Answer(hits, {"visit", "download", "bookmark", "cookie", "domain"}
                                             \cup IF carvedWanted THEN {"carved"} ELSE {})
    BY <1>1 DEF RunFind
  <2> DEFINE events == CollectProfileEventsScoped(path, selector)
             live == {Hit(e.item[2], term, e.profile) : e \in FilterEvents(events, term, window)}
             carved == IF sources = {} \/ "Carved" \in sources THEN FindCarveHits(path, term) ELSE {}
  <2>2. CASE SelectorFails(path, selector)
    BY <2>1, <2>2 DEF FindInv, Refused
  <2>3. CASE ~SelectorFails(path, selector)
    <3>1. answer'.hits = {h \in live : SourceAllowed(sources, h)} \cup carved
      BY <2>1, <2>3 DEF Answer
    <3>2. /\ query'.path = path /\ query'.term = term /\ query'.window = window
          /\ query'.selector = selector /\ query'.sources = sources
      BY <2>1
    <3>3. Searched' = events
      BY <3>2 DEF Searched
    <3>4. Answering' = {e \in FilterEvents(events, term, window) :
                           sources = {} \/ ProvenanceFor(e.item[2]).source \in sources}
      BY <3>2, <3>3 DEF Answering
    <3>5. \A e \in FilterEvents(events, term, window) :
             /\ Hit(e.item[2], term, e.profile) = HitOf(e)
             /\ SourceAllowed(sources, HitOf(e)) <=>
                   (sources = {} \/ ProvenanceFor(e.item[2]).source \in sources)
      <4>1. term # "any"
        OBVIOUS
      <4> HIDE DEF events
      <4>2. \A e \in FilterEvents(events, term, window) : e.item[3] = term
        BY <4>1 DEF FilterEvents
      <4> QED  BY <4>2 DEF HitOf, SourceAllowed, Hit
    <3>6. \A h \in carved : h.provenance.state = "Carved"
      BY DEF FindCarveHits, Hit, ProvenanceFor
    <3> HIDE DEF events, carved
    <3>7. \A h \in answer'.hits : h.provenance.state # "Carved" => \E e \in Answering' : h = HitOf(e)
      BY <3>1, <3>4, <3>5, <3>6
    <3>8. \A e \in Answering' : HitOf(e) \in answer'.hits
      BY <3>1, <3>4, <3>5
    <3>9. Answered'
      BY <3>2, <3>7, <3>8 DEF Answered, HitOf
    <3> QED  BY <3>9 DEF FindInv
  <2> QED  BY <2>2, <2>3
<1>2. CASE RunFindIocs
  <2>1. PICK path \in PathsGiven, window \in Windows,
             selector \in {"none", "Chrome/Default", "Firefox/x"},
             sources \in {{}, {"History"}, {"Recovered"}} :
          LET events == CollectProfileEventsScoped(path, selector)
              hits == {Hit(e.item[2], e.item[3], e.profile) : e \in FilterEvents(events, "any", window)}
          IN  /\ query' = [verb |-> "iocs", path |-> path, term |-> "any", window |-> window,
                           selector |-> selector, sources |-> sources]
              /\ answer' = IF SelectorFails(path, selector) THEN Refused
                           ELSE Answer({h \in hits : SourceAllowed(sources, h)},
                                       {"visit", "download", "bookmark", "cookie", "cache"})
    BY <1>2 DEF RunFindIocs
  <2> DEFINE events == CollectProfileEventsScoped(path, selector)
             hits == {Hit(e.item[2], e.item[3], e.profile) : e \in FilterEvents(events, "any", window)}
  <2>2. CASE SelectorFails(path, selector)
    BY <2>1, <2>2 DEF FindInv, Refused
  <2>3. CASE ~SelectorFails(path, selector)
    <3>1. answer'.hits = {h \in hits : SourceAllowed(sources, h)}
      BY <2>1, <2>3 DEF Answer
    <3>2. /\ query'.path = path /\ query'.term = "any" /\ query'.window = window
          /\ query'.selector = selector /\ query'.sources = sources
      BY <2>1
    <3>3. Searched' = events
      BY <3>2 DEF Searched
    <3>4. Answering' = {e \in FilterEvents(events, "any", window) :
                           sources = {} \/ ProvenanceFor(e.item[2]).source \in sources}
      BY <3>2, <3>3 DEF Answering
    <3> HIDE DEF events
    <3>5. \A e \in FilterEvents(events, "any", window) :
             /\ Hit(e.item[2], e.item[3], e.profile) = HitOf(e)
             /\ SourceAllowed(sources, HitOf(e)) <=>
                   (sources = {} \/ ProvenanceFor(e.item[2]).source \in sources)
      BY DEF HitOf, SourceAllowed, Hit
    <3>6. \A h \in answer'.hits : \E e \in Answering' : h = HitOf(e)
      BY <3>1, <3>4, <3>5
    <3>7. \A e \in Answering' : HitOf(e) \in answer'.hits
      BY <3>1, <3>4, <3>5
    <3>8. Answered'
      BY <3>2, <3>6, <3>7 DEF Answered, HitOf
    <3> QED  BY <3>8 DEF FindInv
  <2> QED  BY <2>2, <2>3
<1>3. CASE UNCHANGED findVars
  BY <1>3 DEF findVars, FindInv, Answered, Answering, Searched
<1> QED  BY <1>1, <1>2, <1>3

LEMMA FindInvImplies == FindInv => HitsAreWhatIsHeld
<1> SUFFICES ASSUME FindInv, answer.outcome = "done"
             PROVE  HitsAreWhatIsHeld
  BY DEF HitsAreWhatIsHeld
<1>0. Answered
  BY DEF FindInv
<1>1. ASSUME NEW h \in answer.hits, h.provenance.state # "Carved"
      PROVE  \E what \in {"visit", "row", "bookmark", "download", "cookie", "domain"} :
                 /\ ProvenanceFor(what) = h.provenance
                 /\ \E e \in Holds(what) : e[1].path = h.from /\ e[2][3] = h.match
  <2>1. PICK e \in Answering : h = HitOf(e)
    BY <1>0, <1>1 DEF Answered
  <2>2. e \in Searched /\ InWindow(e.item[2], query.window) /\ query.term \in {"any", e.item[3]}
    BY <2>1 DEF Answering, FilterEvents
  <2>3. /\ e.profile \in ToSet(InvestigationProfiles(query.path))
        /\ query.selector \in {"none", e.profile.stamp}
        /\ e.item[2] \in Rows \cup {"download"}
        /\ \E i \in e.profile.holds :
              /\ i[2] = e.item[2] /\ i[3] = e.item[3]
              /\ <<i[1], "broken", "-">> \notin e.profile.holds
    BY <1>0, <2>2, EventsAreHeld DEF Answered
  <2>4. PICK i \in e.profile.holds :
              /\ i[2] = e.item[2] /\ i[3] = e.item[3]
              /\ <<i[1], "broken", "-">> \notin e.profile.holds
    BY <2>3
  <2>5. <<e.profile, i>> \in Holds(e.item[2])
    BY <2>2, <2>3, <2>4 DEF Holds
  <2>6. h.provenance = ProvenanceFor(e.item[2]) /\ h.from = e.profile.path /\ h.match = e.item[3]
    BY <2>1 DEF HitOf, Hit
  <2>7. e.item[2] \in {"visit", "row", "bookmark", "download", "cookie", "domain"}
    BY <2>3 DEF Rows
  <2> QED  BY <2>4, <2>5, <2>6, <2>7
<1>2. ASSUME NEW what \in Rows \cup {"download"},
             query.sources = {} \/ ProvenanceFor(what).source \in query.sources,
             what = "download" => query.selector # "none",
             NEW e \in Holds(what)
      PROVE  Hit(what, e[2][3], e[1]) \in answer.hits
  <2>1. PICK x \in FilterEvents(Searched, query.term, query.window) :
           x.item[2] = what /\ x.item[3] = e[2][3] /\ x.profile = e[1]
    BY <1>0, <1>2, HeldAreEvents DEF Answered
  <2>2. x \in Answering
    BY <1>2, <2>1 DEF Answering
  <2>3. HitOf(x) = Hit(what, e[2][3], e[1])
    BY <2>1 DEF HitOf
  <2> QED  BY <1>0, <2>2, <2>3 DEF Answered
<1> QED  BY <1>1, <1>2 DEF HitsAreWhatIsHeld

\* Whatever the profiles hold, a search hits what they hold under the selector and in the
\* window, in the class it is of, and misses none of it but downloads where no profile is
\* selected (cli.rs run_find).
THEOREM SearchCorrect == FindSpec => []HitsAreWhatIsHeld
<1>1. FindSpec => []FindInv
  BY FindInitSound, FindStepSound, PTL DEF FindSpec
<1> QED  BY <1>1, FindInvImplies, PTL

-----------------------------------------------------------------------------
(* Findings: each generator makes a list of its kind, ranking and folding keep it. *)

\* Wording, source, rule and priority of what the generators make, but for indicators:
\* the first two tell the others.
Kinds ==
    {<<"plain", "Download", "exec_download", "High">>,
     <<"plain", "History", "deleted_bookmark", "Medium">>,
     <<"plain", "Memory", "memory", "Info">>,
     <<"row", "Carved", "deleted_record", "Medium">>,
     <<"cached", "Cache", "cache_carve", "Info">>,
     <<"domain", "Recovered", "recovered_domain", "Info">>,
     <<"located", "Carved", "imagecarve", "Info">>,
     <<"cookies", "Cookie", "encrypted_cookies", "Info">>,
     <<"extensions", "Extension", "extension_present", "Info">>}

\* A finding of a kind, or an indicator under the verb's rule for them.
OfKind(f) ==
    \E k \in Kinds : \E x :
        f.datum = <<k[1], x>> /\ f.source = k[2] /\ f.rule = k[3] /\ f.priority = k[4]
OfIndicator(f, rule) ==
    \E x : /\ f.datum = <<"indicator", x>> /\ f.rule = rule
          /\ f.priority = IF x.tag = "clearing" THEN "High" ELSE "Medium"
Made(f, rule) ==
    /\ f = [rule |-> f.rule, priority |-> f.priority, source |-> f.source, state |-> f.state,
            datum |-> f.datum, stamp |-> f.stamp]
    /\ OfKind(f) \/ OfIndicator(f, rule)
AreMade(s, rule) == IsList(s) /\ \A f \in ToSet(s) : Made(f, rule)
IndicatorRules == {"integrity", "tamper"}

LEMMA KindsTold ==
    \A k, l \in Kinds : k[1] = l[1] /\ k[2] = l[2] => k[3] = l[3] /\ k[4] = l[4]
BY DEF Kinds

LEMMA SamePair ==
    ASSUME NEW a, NEW b, NEW c, NEW d, <<a, b>> = <<c, d>>
    PROVE  a = c /\ b = d
OBVIOUS

\* What folding takes for one is alike, and of one verb of one rule.
LEMMA MadeAlike ==
    ASSUME NEW r \in IndicatorRules, NEW q \in IndicatorRules, NEW f, NEW g,
           Made(f, r), Made(g, q), DedupKey(f) = DedupKey(g)
    PROVE  Alike(f, g) /\ (r = q => f.rule = g.rule)
<1>1. f.datum = g.datum /\ f.source = g.source /\ f.state = g.state
  BY DEF DedupKey
<1>2. \A k \in Kinds : k[1] # "indicator"
  BY DEF Kinds
<1>3. CASE OfKind(f) /\ OfKind(g)
  <2>1. PICK k \in Kinds : \E x :
           f.datum = <<k[1], x>> /\ f.source = k[2] /\ f.rule = k[3] /\ f.priority = k[4]
    BY <1>3 DEF OfKind
  <2>2. PICK l \in Kinds : \E x :
           g.datum = <<l[1], x>> /\ g.source = l[2] /\ g.rule = l[3] /\ g.priority = l[4]
    BY <1>3 DEF OfKind
  <2>3. k[1] = l[1] /\ k[2] = l[2]
    <3>1. PICK x : f.datum = <<k[1], x>>
      BY <2>1
    <3>2. PICK y : g.datum = <<l[1], y>>
      BY <2>2
    <3>3. <<k[1], x>> = <<l[1], y>>
      BY <1>1, <3>1, <3>2
    <3>4. k[1] = l[1]
      BY ONLY <3>3, SamePair
    <3> QED  BY <1>1, <2>1, <2>2, <3>4
  <2>4. k[3] = l[3] /\ k[4] = l[4]
    BY <2>3, KindsTold
  <2>5. f.rule = g.rule /\ f.priority = g.priority
    BY <2>1, <2>2, <2>4
  <2> QED  BY <1>1, <2>5 DEF Alike
<1>4. CASE OfIndicator(f, r) /\ OfIndicator(g, q)
  <2>1. PICK x : /\ f.datum = <<"indicator", x>> /\ f.rule = r
                 /\ f.priority = IF x.tag = "clearing" THEN "High" ELSE "Medium"
    BY <1>4 DEF OfIndicator
  <2>2. PICK y : /\ g.datum = <<"indicator", y>> /\ g.rule = q
                 /\ g.priority = IF y.tag = "clearing" THEN "High" ELSE "Medium"
    BY <1>4 DEF OfIndicator
  <2>3. x = y
    <3>1. f.datum = <<"indicator", x>> /\ g.datum = <<"indicator", y>>
      BY <2>1, <2>2
    <3>2. <<"indicator", x>> = <<"indicator", y>>
      BY <1>1, <3>1
    <3> QED  BY ONLY <3>2, SamePair
  <2>4. f.priority = g.priority
    BY <2>1, <2>2, <2>3
  <2>5. f.rule = g.rule \/ {f.rule, g.rule} = IndicatorRules
    BY <2>1, <2>2 DEF IndicatorRules
  <2> QED  BY <1>1, <2>1, <2>2, <2>4, <2>5 DEF Alike, IndicatorRules
<1>5. ASSUME NEW a, NEW b, NEW rule, OfKind(a), OfIndicator(b, rule) PROVE a.datum # b.datum
  <2>1. PICK k \in Kinds : \E x : a.datum = <<k[1], x>>
    BY <1>5 DEF OfKind
  <2>2. PICK y : b.datum = <<"indicator", y>>
    BY <1>5 DEF OfIndicator
  <2> QED  BY <1>2, <2>1, <2>2
<1> QED  BY <1>1, <1>3, <1>4, <1>5 DEF Made

LEMMA MadeRanks ==
    ASSUME NEW f, NEW rule, Made(f, rule)
    PROVE  f.priority \in {"High", "Medium", "Info"}
<1>1. \A k \in Kinds : k[4] \in {"High", "Medium", "Info"}
  BY DEF Kinds
<1> QED  BY <1>1 DEF Made, OfKind, OfIndicator

LEMMA MadeConcat ==
    ASSUME NEW rule, NEW s, NEW t, AreMade(s, rule), AreMade(t, rule)
    PROVE  AreMade(s \o t, rule)
BY ConcatList DEF AreMade

LEMMA DataList ==
    ASSUME NEW p, IsFiniteSet(p.holds), NEW file, NEW what
    PROVE  IsList(Data(p, file, what))
<1> DEFINE J == {j \in p.holds : j[1] = file /\ j[2] = what}
           f == [j \in J |-> j[3]]
           S == {i[3] : i \in J}
<1>1. IsFiniteSet(J)
  <2>1. J \in SUBSET p.holds
    OBVIOUS
  <2> HIDE DEF J
  <2> QED  BY <2>1, FS_Subset
<1>2. S = {f[j] : j \in J}
  OBVIOUS
<1>3. IsFiniteSet(S)
  <2> HIDE DEF J, f, S
  <2> QED  BY <1>1, <1>2, ImageIsFinite
<1>4. SetToSeq(S) \in Seq(S)
  <2> HIDE DEF S
  <2> QED  BY <1>3, ListedSet
<1>5. IsList(SetToSeq(S))
  BY <1>4, SeqIsList
<1>6. IsList(<<>>)
  <2>1. <<>> \in Seq({})
    OBVIOUS
  <2> QED  BY <2>1, SeqIsList
<1>7. Data(p, file, what) = IF <<file, "broken", "-">> \in p.holds THEN <<>> ELSE SetToSeq(S)
  BY DEF Data
<1> HIDE DEF S
<1> QED  BY <1>5, <1>6, <1>7

LEMMA NamedList ==
    ASSUME NEW tag, NEW p, NEW data, IsList(data)
    PROVE  IsList(Named(tag, p, data))
<1> DEFINE f == Named(tag, p, data)
<1>1. f = [n \in DOMAIN data |-> f[n]]
  BY DEF Named
<1> HIDE DEF f
<1>2. IsList(f)
  BY <1>1, MappedList
<1> QED  BY <1>2 DEF f

LEMMA MadeOfKind ==
    ASSUME NEW i, NEW wording, NEW source, NEW rule, NEW priority, NEW state, NEW x, NEW stamp,
           <<wording, source, rule, priority>> \in Kinds, NEW e,
           e = [rule |-> rule, priority |-> priority, source |-> source, state |-> state,
                datum |-> <<wording, x>>, stamp |-> stamp]
    PROVE  Made(e, i)
<1> DEFINE k == <<wording, source, rule, priority>>
<1>1. k \in Kinds /\ k[1] = wording /\ k[2] = source /\ k[3] = rule /\ k[4] = priority
  OBVIOUS
<1> HIDE DEF k
<1>2. /\ e.rule = rule /\ e.priority = priority /\ e.source = source /\ e.state = state
      /\ e.datum = <<wording, x>> /\ e.stamp = stamp
  OBVIOUS
<1>3. OfKind(e)
  <2>1. e.datum = <<k[1], x>> /\ e.source = k[2] /\ e.rule = k[3] /\ e.priority = k[4]
    BY <1>1, <1>2
  <2> QED  BY <1>1, <2>1 DEF OfKind
<1> QED  BY <1>2, <1>3 DEF Made

LEMMA EachMade ==
    ASSUME NEW i, NEW data, IsList(data), NEW rule, NEW priority, NEW source, NEW state,
           <<Wording[rule], source, rule, priority>> \in Kinds
    PROVE  AreMade(Each(data, rule, priority, source, state), i)
<1> DEFINE f == Each(data, rule, priority, source, state)
<1>1. f = [n \in DOMAIN data |-> f[n]]
  BY DEF Each
<1>2. \A n \in DOMAIN data :
         f[n] = [rule |-> rule, priority |-> priority, source |-> source, state |-> state,
                 datum |-> <<Wording[rule], data[n]>>, stamp |-> "none"]
  BY DEF Each, Finding
<1> HIDE DEF f
<1>3. IsList(f) /\ DOMAIN f = DOMAIN data
  BY <1>1, MappedList
<1>4. \A n \in DOMAIN data : Made(f[n], i)
  BY <1>2, MadeOfKind
<1> QED  BY <1>3, <1>4, ElementsAre DEF AreMade, f

LEMMA IndicatorsMade ==
    ASSUME NEW rule, NEW indicators, IsList(indicators)
    PROVE  AreMade(IndicatorFindings(rule, indicators), rule)
<1> DEFINE f == IndicatorFindings(rule, indicators)
<1>1. f = [n \in DOMAIN indicators |-> f[n]]
  BY DEF IndicatorFindings
<1>2. \A n \in DOMAIN indicators :
         f[n] = IF indicators[n].tag = "clearing"
                THEN Finding(rule, "High", "History", "Deleted", <<"indicator", indicators[n]>>)
                ELSE Finding(rule, "Medium", "History", "Inferred", <<"indicator", indicators[n]>>)
  BY DEF IndicatorFindings
<1> HIDE DEF f
<1>3. IsList(f) /\ DOMAIN f = DOMAIN indicators
  BY <1>1, MappedList
<1>4. ASSUME NEW n \in DOMAIN indicators PROVE Made(f[n], rule)
  <2> DEFINE x == indicators[n]
  <2>1. \E priority, state :
           /\ f[n] = [rule |-> rule, priority |-> priority, source |-> "History", state |-> state,
                      datum |-> <<"indicator", x>>, stamp |-> "none"]
           /\ priority = IF x.tag = "clearing" THEN "High" ELSE "Medium"
    BY <1>2 DEF Finding
  <2> HIDE DEF x
  <2>2. OfIndicator(f[n], rule)
    BY <2>1 DEF OfIndicator
  <2> QED  BY <2>1, <2>2 DEF Made
<1> QED  BY <1>3, <1>4, ElementsAre DEF AreMade, f

LEMMA StampMade ==
    ASSUME NEW p, NEW rule, NEW findings, AreMade(findings, rule)
    PROVE  AreMade(Stamp(p, findings), rule)
<1> DEFINE f == Stamp(p, findings)
<1>1. f = [n \in DOMAIN findings |-> f[n]]
  BY DEF Stamp
<1>2. \A n \in DOMAIN findings : f[n] = [findings[n] EXCEPT !.stamp = p.stamp]
  BY DEF Stamp
<1> HIDE DEF f
<1>3. IsList(findings) /\ IsList(f) /\ DOMAIN f = DOMAIN findings
  BY <1>1, MappedList DEF AreMade
<1>4. ASSUME NEW n \in DOMAIN findings PROVE Made(f[n], rule)
  <2>1. Made(findings[n], rule)
    BY <1>3, ListIs DEF AreMade
  <2> DEFINE g == findings[n]
             h == f[n]
  <2>2. h = [g EXCEPT !.stamp = p.stamp] /\ Made(g, rule)
    BY <1>2, <2>1
  <2> HIDE DEF g, h
  <2>3. h = [rule |-> g.rule, priority |-> g.priority, source |-> g.source, state |-> g.state,
             datum |-> g.datum, stamp |-> p.stamp]
    BY <2>2 DEF Made
  <2>4. OfKind(g) => OfKind(h)
    BY <2>3 DEF OfKind
  <2>5. OfIndicator(g, rule) => OfIndicator(h, rule)
    BY <2>3 DEF OfIndicator
  <2>6. Made(h, rule)
    BY <2>2, <2>3, <2>4, <2>5 DEF Made
  <2> QED  BY <2>6 DEF h
<1> QED  BY <1>3, <1>4, ElementsAre DEF AreMade, f

\* One list of each of some things.
LEMMA ListOfEach ==
    ASSUME NEW N \in Nat, NEW f, f = [n \in 1..N |-> f[n]], \A n \in 1..N : IsList(f[n])
    PROVE  IsList(FlattenSeq(f)) /\ ToSet(FlattenSeq(f)) = UNION {ToSet(f[n]) : n \in 1..N}
<1>1. DOMAIN f = 1..N
  OBVIOUS
<1>2. f \in [1..N -> ToSet(f)]
  BY <1>1 DEF ToSet
<1>3. IsList(f)
  BY <1>2 DEF IsList
<1> QED  BY <1>1, <1>3, FlattenedList

LEMMA MadeOfEach ==
    ASSUME NEW rule, NEW N \in Nat, NEW f, f = [n \in 1..N |-> f[n]],
           \A n \in 1..N : AreMade(f[n], rule)
    PROVE  AreMade(FlattenSeq(f), rule)
<1>1. \A n \in 1..N : IsList(f[n])
  BY DEF AreMade
<1>2. IsList(FlattenSeq(f)) /\ ToSet(FlattenSeq(f)) = UNION {ToSet(f[n]) : n \in 1..N}
  BY <1>1, ListOfEach
<1> QED  BY <1>2 DEF AreMade

LEMMA DomainsList ==
    ASSUME NEW p, IsFiniteSet(p.holds)
    PROVE  IsList(CollectRecoveredDomains(p))
<1> DEFINE f == [k \in DOMAIN DomainFiles |->
                   [n \in DOMAIN Data(p, DomainFiles[k].file, "domain") |->
                      <<Data(p, DomainFiles[k].file, "domain")[n], DomainFiles[k].artifact>>]]
<1>1. DOMAIN DomainFiles = 1..8
  BY DEF DomainFiles
<1>2. ASSUME NEW k \in 1..8 PROVE IsList(f[k])
  <2>1. IsList(Data(p, DomainFiles[k].file, "domain"))
    BY DataList
  <2>2. f[k] = [n \in DOMAIN Data(p, DomainFiles[k].file, "domain") |-> f[k][n]]
    BY <1>1
  <2> HIDE DEF f
  <2> QED  BY <2>1, <2>2, MappedList
<1>3. f = [k \in 1..8 |-> f[k]]
  BY <1>1
<1>4. CollectRecoveredDomains(p) = FlattenSeq(f)
  BY DEF CollectRecoveredDomains
<1> HIDE DEF f
<1> QED  BY <1>2, <1>3, <1>4, ListOfEach

LEMMA ChecksLists ==
    ASSUME NEW p, IsFiniteSet(p.holds), NEW file
    PROVE  /\ IsList(CheckHistoryOf(p, file)) /\ IsList(CheckDatabaseOf(p, file))
           /\ IsList(CheckCookiesOf(p, file)) /\ IsList(GatherDbTamperIndicators(p, file))
           /\ AreMade(CarveDbRecords(p, file), "tamper")
<1>1. \A tag, what : IsList(Named(tag, p, Data(p, file, what)))
  BY DataList, NamedList
<1>2. IsList(CheckHistoryOf(p, file))
  BY <1>1, ConcatList DEF CheckHistoryOf
<1>3. IsList(CheckDatabaseOf(p, file)) /\ IsList(CheckCookiesOf(p, file))
  BY <1>1 DEF CheckDatabaseOf, CheckCookiesOf
<1>4. IsList(GatherDbTamperIndicators(p, file))
  <2>1. IsList(Named("freelist", p, Data(p, file, "freed")) \o CheckHistoryOf(p, file))
    BY <1>1, <1>2, ConcatList
  <2>2. IsList(Named("freelist", p, Data(p, file, "freed")) \o CheckHistoryOf(p, file) \o CheckDatabaseOf(p, file))
    BY <1>3, <2>1, ConcatList
  <2> QED  BY <1>1, <2>2, ConcatList DEF GatherDbTamperIndicators
<1>5. AreMade(CarveDbRecords(p, file), "tamper")
  <2>1. <<Wording["deleted_record"], "Carved", "deleted_record", "Medium">> \in Kinds
    BY DEF Wording, Kinds
  <2>2. /\ AreMade(Each(Data(p, file, "freed"), "deleted_record", "Medium", "Carved", "Carved"), "tamper")
        /\ AreMade(Each(Data(p, file, "logged"), "deleted_record", "Medium", "Carved", "Deleted"), "tamper")
    BY <2>1, DataList, EachMade
  <2> QED  BY <2>2, MadeConcat DEF CarveDbRecords
<1> QED  BY <1>2, <1>3, <1>4, <1>5

LEMMA IncognitoList ==
    ASSUME NEW p, IsFiniteSet(p.holds)
    PROVE  IsList(IncognitoResidue(p))
<1> DEFINE c == CollectRecoveredDomains(p)
           visited == UNION {{Data(p, f, "visit")[n] : n \in DOMAIN Data(p, f, "visit")} :
                                f \in {"History", "places.sqlite"}}
           S == {r \in {c[n] : n \in DOMAIN c} : r[1] \notin visited}
           left == SetToSeq(S)
           g == [n \in DOMAIN left |-> [tag |-> "incognito", datum |-> left[n]]]
<1>1. IsFiniteSet(DOMAIN c)
  <2> HIDE DEF c
  <2>1. Len(c) \in Nat /\ DOMAIN c = 1..Len(c)
    BY DomainsList, ListIs DEF c
  <2>2. \A N \in Nat : IsFiniteSet(1..N)
    BY FS_Interval
  <2> QED  BY <2>1, <2>2
<1>2. IsFiniteSet({c[n] : n \in DOMAIN c})
  <2> HIDE DEF c
  <2> QED  BY <1>1, ImageIsFinite
<1>3. IsFiniteSet(S)
  <2>1. S \in SUBSET {c[n] : n \in DOMAIN c}
    OBVIOUS
  <2> HIDE DEF S, c
  <2> QED  BY <1>2, <2>1, FS_Subset
<1> HIDE DEF S
<1>4. IsList(left)
  BY <1>3, ListedSet, SeqIsList
<1>5. g = [n \in DOMAIN left |-> g[n]]
  OBVIOUS
<1>6. IncognitoResidue(p) = g
  BY DEF IncognitoResidue, S
<1> HIDE DEF left, g
<1>7. IsList(g)
  BY <1>4, <1>5, MappedList
<1> QED  BY <1>6, <1>7

LEMMA RecoverLists ==
    ASSUME NEW p, IsFiniteSet(p.holds)
    PROVE  AreMade(RecoverProfileFindings(p), "tamper") /\ AreMade(RecoverDatabaseFindings(p), "tamper")
<1>0. DOMAIN HistoryDbs = 1..3 /\ DOMAIN CacheDirs = 1..3
  BY DEF HistoryDbs, CacheDirs
<1>1. IsList(FlattenSeq([k \in DOMAIN HistoryDbs |-> GatherDbTamperIndicators(p, HistoryDbs[k])]))
  <2> DEFINE f == [k \in DOMAIN HistoryDbs |-> GatherDbTamperIndicators(p, HistoryDbs[k])]
  <2>1. f = [k \in 1..3 |-> f[k]] /\ \A k \in 1..3 : IsList(f[k])
    BY <1>0, ChecksLists
  <2> HIDE DEF f
  <2>2. IsList(FlattenSeq(f))
    BY <2>1, ListOfEach
  <2> QED  BY <2>2 DEF f
<1>2. AreMade(FlattenSeq([k \in DOMAIN HistoryDbs |-> CarveDbRecords(p, HistoryDbs[k])]), "tamper")
  <2> DEFINE f == [k \in DOMAIN HistoryDbs |-> CarveDbRecords(p, HistoryDbs[k])]
  <2>1. f = [k \in 1..3 |-> f[k]] /\ \A k \in 1..3 : AreMade(f[k], "tamper")
    BY <1>0, ChecksLists
  <2> HIDE DEF f
  <2>2. AreMade(FlattenSeq(f), "tamper")
    BY <2>1, MadeOfEach
  <2> QED  BY <2>2 DEF f
<1>3. AreMade(FlattenSeq([k \in DOMAIN CacheDirs |->
          Each(Data(p, CacheDirs[k], "evicted"), "cache_carve", "Info", "Cache", "Deleted")]), "tamper")
  <2> DEFINE f == [k \in DOMAIN CacheDirs |->
                     Each(Data(p, CacheDirs[k], "evicted"), "cache_carve", "Info", "Cache", "Deleted")]
  <2>0. <<Wording["cache_carve"], "Cache", "cache_carve", "Info">> \in Kinds
    BY DEF Wording, Kinds
  <2>1. f = [k \in 1..3 |-> f[k]] /\ \A k \in 1..3 : AreMade(f[k], "tamper")
    BY <1>0, <2>0, DataList, EachMade
  <2> HIDE DEF f
  <2>2. AreMade(FlattenSeq(f), "tamper")
    BY <2>1, MadeOfEach
  <2> QED  BY <2>2 DEF f
<1>4. /\ AreMade(Each(CollectRecoveredDomains(p), "recovered_domain", "Info", "Recovered", "Inferred"), "tamper")
      /\ AreMade(Each(Data(p, "bookmarkbackups", "bookmark"), "deleted_bookmark", "Medium", "History", "Deleted"),
                 "tamper")
  <2>1. /\ <<Wording["recovered_domain"], "Recovered", "recovered_domain", "Info">> \in Kinds
        /\ <<Wording["deleted_bookmark"], "History", "deleted_bookmark", "Medium">> \in Kinds
    BY DEF Wording, Kinds
  <2> QED  BY <2>1, DomainsList, DataList, EachMade
<1>5. AreMade(IndicatorFindings("tamper", GatherProfileTamperIndicators(p)), "tamper")
  <2>1. IsList(GatherProfileTamperIndicators(p))
    BY <1>1, IncognitoList, ConcatList DEF GatherProfileTamperIndicators
  <2> QED  BY <2>1, IndicatorsMade
<1>6. ASSUME NEW a, NEW b, NEW c, NEW d, NEW e,
             AreMade(a, "tamper"), AreMade(b, "tamper"), AreMade(c, "tamper"),
             AreMade(d, "tamper"), AreMade(e, "tamper")
      PROVE  AreMade(a \o b \o c \o d \o e, "tamper")
  <2>1. AreMade(a \o b, "tamper")
    BY <1>6, MadeConcat
  <2>2. AreMade(a \o b \o c, "tamper")
    BY <1>6, <2>1, MadeConcat
  <2>3. AreMade(a \o b \o c \o d, "tamper")
    BY <1>6, <2>2, MadeConcat
  <2> QED  BY <1>6, <2>3, MadeConcat
<1>7. AreMade(RecoverProfileFindings(p), "tamper")
  BY <1>2, <1>3, <1>4, <1>5, <1>6 DEF RecoverProfileFindings
<1>8. AreMade(RecoverDatabaseFindings(p), "tamper")
  <2>1. /\ AreMade(CarveDbRecords(p, HistoryDb[p.family]), "tamper")
        /\ AreMade(IndicatorFindings("tamper", GatherDbTamperIndicators(p, HistoryDb[p.family])), "tamper")
    BY ChecksLists, IndicatorsMade
  <2> QED  BY <2>1, MadeConcat DEF RecoverDatabaseFindings
<1> QED  BY <1>7, <1>8

\* What is carved for a tier is in no finding.
LEMMA TiersAlike ==
    ASSUME NEW p, NEW tier, NEW other
    PROVE  FindingsFromReport(CollectOneProfile(p, tier)) = FindingsFromReport(CollectOneProfile(p, other))
<1>1. /\ CollectOneProfile(p, tier).events = CollectOneProfile(p, other).events
      /\ CollectOneProfile(p, tier).integrity = CollectOneProfile(p, other).integrity
  BY DEF CollectOneProfile, TriageOne
<1> DEFINE a == CollectOneProfile(p, tier)
           b == CollectOneProfile(p, other)
<1> HIDE DEF a, b
<1>2. a.events = b.events /\ a.integrity = b.integrity
  BY <1>1 DEF a, b
<1>3. FindingsFromReport(a) = FindingsFromReport(b)
  <2>1. ExecutableDownloadFindings(a) = ExecutableDownloadFindings(b)
    BY <1>2 DEF ExecutableDownloadFindings
  <2>2. EncryptedCookieFindings(a) = EncryptedCookieFindings(b)
    BY <1>2 DEF EncryptedCookieFindings
  <2>3. ExtensionFindings(a) = ExtensionFindings(b)
    BY <1>2 DEF ExtensionFindings
  <2> QED  BY <1>2, <2>1, <2>2, <2>3 DEF FindingsFromReport
<1> QED  BY <1>3 DEF a, b

LEMMA ReportMade ==
    ASSUME NEW p, IsFiniteSet(p.holds), NEW tier
    PROVE  AreMade(FindingsFromReport(CollectOneProfile(p, tier)), "integrity")
<1> DEFINE r == CollectOneProfile(p, tier)
<1>1. IsList(r.integrity)
  <2> DEFINE i == CheckHistoryOf(p, HistoryDb[p.family]) \o CheckDatabaseOf(p, HistoryDb[p.family])
                   \o CheckCookiesOf(p, CookieDb[p.family])
  <2>1. r.integrity = i
    BY DEF CollectOneProfile, TriageOne
  <2>2. IsList(CheckHistoryOf(p, HistoryDb[p.family]) \o CheckDatabaseOf(p, HistoryDb[p.family]))
    BY ChecksLists, ConcatList
  <2>3. IsList(i)
    BY <2>2, ChecksLists, ConcatList
  <2> QED  BY <2>1, <2>3
<1>2. r.events \in SUBSET p.holds
  BY DEF CollectOneProfile, TriageOne
<1> HIDE DEF r
<1>3. AreMade(IndicatorFindings("integrity", r.integrity), "integrity")
  BY <1>1, IndicatorsMade
<1>4. AreMade(ExecutableDownloadFindings(r), "integrity")
  <2> DEFINE J == {j \in r.events : j[2] = "download"}
             f == [j \in J |-> j[3]]
             S == {i[3] : i \in J}
  <2>1. IsFiniteSet(J)
    <3>1. J \in SUBSET p.holds
      BY <1>2
    <3> HIDE DEF J
    <3> QED  BY <3>1, FS_Subset
  <2>2. S = {f[j] : j \in J}
    OBVIOUS
  <2>3. IsFiniteSet(S)
    <3> HIDE DEF J, f, S
    <3> QED  BY <2>1, <2>2, ImageIsFinite
  <2>4. ExecutableDownloadFindings(r) = Each(SetToSeq(S), "exec_download", "High", "Download", "Live")
    BY DEF ExecutableDownloadFindings
  <2> HIDE DEF S
  <2>5. IsList(SetToSeq(S))
    BY <2>3, ListedSet, SeqIsList
  <2>6. <<Wording["exec_download"], "Download", "exec_download", "High">> \in Kinds
    BY DEF Wording, Kinds
  <2> QED  BY <2>4, <2>5, <2>6, EachMade
<1>5. ASSUME NEW x, Made(x, "integrity") PROVE AreMade(<<x>>, "integrity")
  <2>1. <<x>> \in Seq({x})
    OBVIOUS
  <2>2. IsList(<<x>>) /\ ToSet(<<x>>) \in SUBSET {x}
    BY <2>1, SeqIsList
  <2> QED  BY <1>5, <2>2 DEF AreMade
<1>6. AreMade(<<>>, "integrity")
  <2>1. <<>> \in Seq({})
    OBVIOUS
  <2>2. IsList(<<>>) /\ ToSet(<<>>) \in SUBSET {}
    BY <2>1, SeqIsList
  <2> QED  BY <2>2 DEF AreMade
<1>7. AreMade(EncryptedCookieFindings(r), "integrity") /\ AreMade(ExtensionFindings(r), "integrity")
  <2>1. \E x : EncryptedCookieFindings(r) \in
                 {<<>>, <<Finding("encrypted_cookies", "Info", "Cookie", "Live", <<"cookies", x>>)>>}
    BY DEF EncryptedCookieFindings
  <2>2. \E x : ExtensionFindings(r) \in
                 {<<>>, <<Finding("extension_present", "Info", "Extension", "Live", <<"extensions", x>>)>>}
    BY DEF ExtensionFindings
  <2>3. /\ <<"cookies", "Cookie", "encrypted_cookies", "Info">> \in Kinds
        /\ <<"extensions", "Extension", "extension_present", "Info">> \in Kinds
    BY DEF Kinds
  <2>4. ASSUME NEW k \in Kinds, NEW x
        PROVE  Made(Finding(k[3], k[4], k[2], "Live", <<k[1], x>>), "integrity")
    <3> DEFINE f == Finding(k[3], k[4], k[2], "Live", <<k[1], x>>)
    <3>1. f = [rule |-> k[3], priority |-> k[4], source |-> k[2], state |-> "Live",
               datum |-> <<k[1], x>>, stamp |-> "none"]
      BY DEF Finding
    <3> HIDE DEF f
    <3>2. OfKind(f)
      BY <3>1 DEF OfKind
    <3>3. Made(f, "integrity")
      BY <3>1, <3>2 DEF Made
    <3> QED  BY <3>3 DEF f
  <2>5. \A x : /\ Made(Finding("encrypted_cookies", "Info", "Cookie", "Live", <<"cookies", x>>), "integrity")
              /\ Made(Finding("extension_present", "Info", "Extension", "Live", <<"extensions", x>>), "integrity")
    BY <2>3, <2>4
  <2> QED  BY <1>5, <1>6, <2>1, <2>2, <2>5
<1>8. AreMade(ExecutableDownloadFindings(r) \o IndicatorFindings("integrity", r.integrity), "integrity")
  BY <1>3, <1>4, MadeConcat
<1>9. AreMade(ExecutableDownloadFindings(r) \o IndicatorFindings("integrity", r.integrity)
              \o EncryptedCookieFindings(r), "integrity")
  BY <1>7, <1>8, MadeConcat
<1>10. AreMade(FindingsFromReport(r), "integrity")
  BY <1>7, <1>9, MadeConcat DEF FindingsFromReport
<1> QED  BY <1>10 DEF r

\* Ranking adds nothing and, of the three priorities, leaves nothing out.
LEMMA RankedAre ==
    ASSUME NEW findings, IsList(findings),
           \A f \in ToSet(findings) : f.priority \in {"High", "Medium", "Info"}
    PROVE  ToSet(RankFindings(findings)) = ToSet(findings)
<1> DEFINE N == Len(findings)
           T == ToSet(findings)
           V == [{"High", "Medium", "Info"} -> Seq(T)]
           Ranked(n, x) == \A m \in 1..n : \E p \in {"High", "Medium", "Info"} :
                              findings[m] \in ToSet(x[p])
           b == [priority \in {"High", "Medium", "Info"} |-> <<>>]
           Step(n, x) == [x EXCEPT ![findings[n].priority] = Append(@, findings[n])]
           G == [n \in 1..N |-> [x \in V |-> Step(n, x)]]
           D(f) == [n \in 0..N |-> IF n = 0 THEN b ELSE Step(n, f[n - 1])]
           g == CHOOSE f : f = D(f)
<1>1. N \in Nat /\ \A n \in 1..N : findings[n] \in T
  BY ListIs
<1>2. b \in V
  OBVIOUS
<1>2a. \A n \in 1..N : \A x \in V : Ranked(n - 1, x) => Ranked(n, Step(n, x))
  <2> SUFFICES ASSUME NEW n \in 1..N, NEW x \in V, Ranked(n - 1, x) PROVE Ranked(n, Step(n, x))
    OBVIOUS
  <2> DEFINE q == findings[n].priority
             y == Step(n, x)
  <2>1. q \in {"High", "Medium", "Info"} /\ findings[n] \in T /\ x[q] \in Seq(T)
    BY <1>1
  <2>2. /\ y[q] = Append(x[q], findings[n])
        /\ \A p \in {"High", "Medium", "Info"} : p # q => y[p] = x[p]
    BY <2>1
  <2> HIDE DEF q, y
  <2>3. findings[n] \in ToSet(y[q]) /\ ToSet(x[q]) \in SUBSET ToSet(y[q])
    <3> DEFINE a == x[q]
               e == findings[n]
               c == y[q]
    <3>1. a \in Seq(T) /\ e \in T /\ c = Append(a, e)
      BY <2>1, <2>2
    <3> HIDE DEF T, a, e, c
    <3>2. /\ DOMAIN a = 1..Len(a) /\ Len(a) \in Nat /\ DOMAIN c = 1..(Len(a) + 1)
          /\ c[Len(a) + 1] = e /\ \A k \in 1..Len(a) : c[k] = a[k]
      BY <3>1
    <3>3. \A k \in DOMAIN a : k \in DOMAIN c /\ c[k] = a[k]
      BY <3>2
    <3>4. Len(a) + 1 \in DOMAIN c
      BY <3>2
    <3>5. e \in ToSet(c) /\ ToSet(a) \in SUBSET ToSet(c)
      BY <3>2, <3>3, <3>4, ElementsAre
    <3> QED  BY <3>5 DEF a, e, c
  <2>4. 1..n = 1..(n - 1) \cup {n}
    BY <1>1
  <2>5. \A k \in 1..(n - 1) : \E p \in {"High", "Medium", "Info"} : findings[k] \in ToSet(y[p])
    BY <2>2, <2>3
  <2> QED  BY <2>1, <2>3, <2>4, <2>5 DEF y
<1>3. \A n \in 1..N : \A x \in V : Step(n, x) \in V
  <2> SUFFICES ASSUME NEW n \in 1..N, NEW x \in V PROVE Step(n, x) \in V
    OBVIOUS
  <2>1. \A k \in {"High", "Medium", "Info"} : x[k] \in Seq(T) /\ Append(x[k], findings[n]) \in Seq(T)
    BY <1>1
  <2> HIDE DEF T
  <2> QED  BY <2>1
<1>2b. Ranked(0, b)
  <2>1. 1..0 = {}
    OBVIOUS
  <2> QED  BY <2>1
<1> HIDE DEF V, b, Step, N, Ranked
<1>4. \E f : IsBuilt(f, b, G, N, V)
  <2>1. AreSteps(G, N, V)
    BY <1>3 DEF AreSteps
  <2> HIDE DEF G
  <2> QED  BY <1>1, <1>2, <2>1, BuiltUp
<1>5. PICK f : f \in [0..N -> V] /\ f[0] = b /\ \A n \in 1..N : f[n] = G[n][f[n - 1]]
  BY <1>4 DEF IsBuilt
<1>6. f = D(f)
  <2>1. ASSUME NEW n \in 0..N PROVE f[n] = IF n = 0 THEN b ELSE Step(n, f[n - 1])
    <3>1. CASE n = 0
      BY <1>5, <3>1
    <3>2. CASE n # 0
      <4>1. n \in 1..N /\ n - 1 \in 0..N
        BY <1>1, <3>2
      <4>2. f[n - 1] \in V /\ f[n] = G[n][f[n - 1]]
        BY <1>5, <4>1
      <4> QED  BY <3>2, <4>1, <4>2
    <3> QED  BY <3>1, <3>2
  <2>2. f = [n \in 0..N |-> f[n]]
    BY <1>5
  <2>3. D(f) = [n \in 0..N |-> f[n]]
    BY <2>1
  <2> QED  BY <2>2, <2>3
<1>7. g = D(g)
  <2> HIDE DEF D
  <2> QED  BY <1>6
<1>8. \A n \in 0..N : g[n] = IF n = 0 THEN b ELSE Step(n, g[n - 1])
  <2> SUFFICES ASSUME NEW n \in 0..N PROVE g[n] = IF n = 0 THEN b ELSE Step(n, g[n - 1])
    OBVIOUS
  <2> HIDE DEF g
  <2>1. g[n] = D(g)[n]
    BY <1>7
  <2> QED  BY <2>1
<1>9. RankFindings(findings) = g[N]["High"] \o g[N]["Medium"] \o g[N]["Info"]
  BY DEF RankFindings, N, b, Step
<1> HIDE DEF g
<1>10. g[N] \in V /\ Ranked(N, g[N])
  <2> DEFINE Good == {n \in 0..N : g[n] \in V /\ Ranked(n, g[n])}
  <2>1. 0 \in Good
    BY <1>1, <1>2, <1>2b, <1>8
  <2>2. ASSUME NEW n \in 1..N, n - 1 \in Good PROVE n \in Good
    <3> DEFINE x == g[n - 1]
    <3>1. n \in 0..N /\ n # 0 /\ x \in V /\ Ranked(n - 1, x)
      BY <1>1, <2>2
    <3>2. g[n] = Step(n, x) /\ g[n] \in V
      BY <1>3, <1>8, <3>1
    <3> HIDE DEF x, Ranked
    <3>3. Ranked(n, Step(n, x))
      BY <1>2a, <3>1
    <3> QED  BY <3>1, <3>2, <3>3
  <2>3. \A n \in 1..N : n - 1 \in Good => n \in Good
    BY <2>2
  <2> HIDE DEF Good
  <2>4. \A n \in 0..N : n \in Good
    BY <1>1, <2>1, <2>3, CountingUp
  <2>5. N \in Good
    BY <1>1, <2>4
  <2> QED  BY <2>5 DEF Good
<1>11. g[N]["High"] \in Seq(T) /\ g[N]["Medium"] \in Seq(T) /\ g[N]["Info"] \in Seq(T)
  BY <1>10 DEF V
<1> DEFINE h == g[N]["High"]
           m == g[N]["Medium"]
           i == g[N]["Info"]
<1>13. /\ IsList(h) /\ IsList(m) /\ IsList(i)
       /\ ToSet(h) \in SUBSET T /\ ToSet(m) \in SUBSET T /\ ToSet(i) \in SUBSET T
  <2> HIDE DEF T, h, m, i
  <2>1. h \in Seq(T) /\ m \in Seq(T) /\ i \in Seq(T)
    BY <1>11 DEF h, m, i
  <2> QED  BY <2>1, SeqIsList
<1>14. T \in SUBSET (ToSet(h) \cup ToSet(m) \cup ToSet(i))
  <2>1. \A k \in 1..N : findings[k] \in ToSet(h) \cup ToSet(m) \cup ToSet(i)
    BY <1>10 DEF Ranked
  <2> HIDE DEF h, m, i
  <2> QED  BY <1>1, <2>1, ElementsAre, ListIs DEF N
<1> HIDE DEF T, h, m, i
<1>15. ToSet(h \o m \o i) = ToSet(h) \cup ToSet(m) \cup ToSet(i)
  <2>1. IsList(h \o m) /\ ToSet(h \o m) = ToSet(h) \cup ToSet(m)
    BY <1>13, ConcatList
  <2> QED  BY <1>13, <2>1, ConcatList
<1> QED  BY <1>9, <1>13, <1>14, <1>15 DEF T, h, m, i

\* Of the first n findings, one of each key is in x, which came no later; and no other.
StandsFor(x, findings, n) ==
    \A k \in 1..n : \E m \in 1..k : \E i \in DOMAIN x :
        x[i] = findings[m] /\ DedupKey(findings[m]) = DedupKey(findings[k])
IsAmong(x, findings, n) == \A i \in DOMAIN x : \E m \in 1..n : x[i] = findings[m]
KeysDiffer(x) == \A i, j \in DOMAIN x : DedupKey(x[i]) = DedupKey(x[j]) => i = j

\* The first of each key stays, and no other.
LEMMA DedupIs ==
    ASSUME NEW findings, IsList(findings)
    PROVE  LET folded == DedupFindings(findings)
           IN  /\ IsList(folded) /\ ToSet(folded) \in SUBSET ToSet(findings)
               /\ StandsFor(folded, findings, Len(findings)) /\ KeysDiffer(folded)
<1> DEFINE N == Len(findings)
           T == ToSet(findings)
           V == Seq(T)
           b == <<>>
           Step(n, x) == IF \E m \in DOMAIN x : DedupKey(x[m]) = DedupKey(findings[n])
                         THEN x ELSE Append(x, findings[n])
           G == [n \in 1..N |-> [x \in V |-> Step(n, x)]]
           D(f) == [n \in 0..N |-> IF n = 0 THEN b ELSE Step(n, f[n - 1])]
           g == CHOOSE f : f = D(f)
<1>1. N \in Nat /\ DOMAIN findings = 1..N /\ \A n \in 1..N : findings[n] \in T
  BY ListIs
<1>2. b \in V
  OBVIOUS
<1>3. \A n \in 1..N : \A x \in V : Step(n, x) \in V
  <2> SUFFICES ASSUME NEW n \in 1..N, NEW x \in V PROVE Step(n, x) \in V
    OBVIOUS
  <2> HIDE DEF T
  <2>1. Append(x, findings[n]) \in V
    BY <1>1
  <2> QED  BY <2>1
<1>4. \A n \in 1..N : \A x \in V :
         /\ \/ /\ Step(n, x) = x
               /\ \E m \in DOMAIN x : DedupKey(x[m]) = DedupKey(findings[n])
            \/ /\ Step(n, x) = Append(x, findings[n])
               /\ ~\E m \in DOMAIN x : DedupKey(x[m]) = DedupKey(findings[n])
  OBVIOUS
<1> HIDE DEF T, b, Step, N
<1>5. \E f : IsBuilt(f, b, G, N, V)
  <2>1. AreSteps(G, N, V)
    <3> HIDE DEF V
    <3> QED  BY <1>3 DEF AreSteps
  <2> HIDE DEF G, V
  <2> QED  BY <1>1, <1>2, <2>1, BuiltUp
<1>6. PICK f : f \in [0..N -> V] /\ f[0] = b /\ \A n \in 1..N : f[n] = G[n][f[n - 1]]
  BY <1>5 DEF IsBuilt
<1>7. f = D(f)
  <2> HIDE DEF V
  <2>1. ASSUME NEW n \in 0..N PROVE f[n] = IF n = 0 THEN b ELSE Step(n, f[n - 1])
    <3>1. CASE n = 0
      BY <1>6, <3>1
    <3>2. CASE n # 0
      <4>1. n \in 1..N /\ n - 1 \in 0..N
        BY <1>1, <3>2
      <4>2. f[n - 1] \in V /\ f[n] = G[n][f[n - 1]]
        BY <1>6, <4>1
      <4> QED  BY <3>2, <4>1, <4>2
    <3> QED  BY <3>1, <3>2
  <2>2. f = [n \in 0..N |-> f[n]]
    BY <1>6
  <2>3. D(f) = [n \in 0..N |-> f[n]]
    BY <2>1
  <2> QED  BY <2>2, <2>3
<1>8. g = D(g)
  <2> HIDE DEF D
  <2> QED  BY <1>7
<1>9. \A n \in 0..N : g[n] = IF n = 0 THEN b ELSE Step(n, g[n - 1])
  <2> SUFFICES ASSUME NEW n \in 0..N PROVE g[n] = IF n = 0 THEN b ELSE Step(n, g[n - 1])
    OBVIOUS
  <2> HIDE DEF g
  <2>1. g[n] = D(g)[n]
    BY <1>8
  <2> QED  BY <2>1
<1>10. DedupFindings(findings) = g[N]
  BY DEF DedupFindings, N, b, Step
<1> HIDE DEF g
<1> DEFINE Fine(n, x) ==
             x \in V /\ IsAmong(x, findings, n) /\ StandsFor(x, findings, n) /\ KeysDiffer(x)
           Good == {n \in 0..N : Fine(n, g[n])}
<1>11. 0 \in Good
  <2>1. g[0] = b
    BY <1>1, <1>9
  <2>2. DOMAIN b = {} /\ 1..0 = {}
    BY DEF b
  <2>3. Fine(0, b)
    <3> HIDE DEF V
    <3> QED  BY <1>2, <2>2 DEF IsAmong, StandsFor, KeysDiffer
  <2> HIDE DEF Fine
  <2> QED  BY <1>1, <2>1, <2>3
<1>12. \A n \in 1..N : n - 1 \in Good => n \in Good
  <2> SUFFICES ASSUME NEW n \in 1..N, n - 1 \in Good PROVE Fine(n, g[n])
    <3> HIDE DEF Fine
    <3>1. 1..N \in SUBSET (0..N)
      BY <1>1
    <3> QED  BY <3>1
  <2> DEFINE x == g[n - 1]
             e == findings[n]
  <2>1. Fine(n - 1, x) /\ g[n] = Step(n, x)
    <3>1. n \in 0..N /\ n # 0
      BY <1>1
    <3> QED  BY <1>9, <3>1
  <2> HIDE DEF x
  <2>2. n \in 1..n /\ 1..n = 1..(n - 1) \cup {n} /\ \A k \in 1..n : 1..k \in SUBSET (1..n)
    BY <1>1
  <2>3. x \in V /\ e \in T
    BY <1>1, <2>1
  <2>4. CASE Step(n, x) = x /\ \E i \in DOMAIN x : DedupKey(x[i]) = DedupKey(e)
    <3>1. PICK i \in DOMAIN x : DedupKey(x[i]) = DedupKey(e)
      BY <2>4
    <3>2. PICK m \in 1..(n - 1) : x[i] = findings[m]
      BY <2>1 DEF IsAmong
    <3>3. m \in 1..n
      BY <2>2
    <3>4. StandsFor(x, findings, n)
      BY <2>1, <2>2, <3>1, <3>2, <3>3 DEF StandsFor
    <3>5. IsAmong(x, findings, n)
      BY <2>1, <2>2 DEF IsAmong
    <3> QED  BY <2>1, <2>4, <3>4, <3>5
  <2>5. CASE Step(n, x) = Append(x, e) /\ ~\E i \in DOMAIN x : DedupKey(x[i]) = DedupKey(e)
    <3> DEFINE y == Append(x, e)
    <3>1. /\ y \in V /\ DOMAIN x = 1..Len(x) /\ Len(x) \in Nat /\ DOMAIN y = 1..(Len(x) + 1)
          /\ \A i \in 1..Len(x) : y[i] = x[i]
          /\ y[Len(x) + 1] = e
      BY <2>3
    <3> HIDE DEF y, V
    <3>2. PICK L \in Nat : L = Len(x)
      BY <3>1
    <3>3. DOMAIN x = 1..L /\ DOMAIN y = 1..L \cup {L + 1} /\ y[L + 1] = e /\ \A i \in 1..L : y[i] = x[i]
      BY <3>1, <3>2
    <3>4. KeysDiffer(y)
      BY <2>1, <2>5, <3>3 DEF KeysDiffer
    <3>5. IsAmong(y, findings, n)
      BY <2>1, <2>2, <3>3 DEF IsAmong
    <3>6. StandsFor(y, findings, n)
      <4>1. ASSUME NEW k \in 1..(n - 1)
            PROVE  \E m \in 1..k : \E i \in DOMAIN y :
                      y[i] = findings[m] /\ DedupKey(findings[m]) = DedupKey(findings[k])
        <5>1. PICK m \in 1..k : \E i \in DOMAIN x :
                      x[i] = findings[m] /\ DedupKey(findings[m]) = DedupKey(findings[k])
          BY <2>1 DEF StandsFor
        <5> QED  BY <3>3, <5>1
      <4>2. L + 1 \in DOMAIN y /\ y[L + 1] = findings[n]
        BY <3>3
      <4> QED  BY <2>2, <4>1, <4>2 DEF StandsFor
    <3>7. g[n] = y
      BY <2>1, <2>5 DEF y
    <3> QED  BY <3>1, <3>4, <3>5, <3>6, <3>7
  <2> QED  BY <1>4, <2>3, <2>4, <2>5
<1>13. Fine(N, g[N])
  <2> HIDE DEF Good
  <2>1. \A n \in 0..N : n \in Good
    BY <1>1, <1>11, <1>12, CountingUp
  <2>2. N \in Good
    BY <1>1, <2>1
  <2> QED  BY <2>2 DEF Good
<1>14. IsList(g[N]) /\ ToSet(g[N]) \in SUBSET T
  BY <1>13, SeqIsList
<1> QED  BY <1>10, <1>13, <1>14 DEF T, N

LEMMA LoopMade ==
    ASSUME NEW path \in PathsGiven, NEW tier, NEW done \in 0..Len(path.profiles)
    PROVE  /\ Len(path.profiles) \in Nat
           /\ AreMade(ProfileLoop(path, tier, done), "integrity")
           /\ ToSet(ProfileLoop(path, tier, done)) \in
                SUBSET ToSet(ProfileLoop(path, "deep", Len(path.profiles)))
<1> DEFINE At(t, n) == Stamp(path.profiles[n], FindingsFromReport(CollectOneProfile(path.profiles[n], t)))
<1>1. PICK N \in Nat : N = Len(path.profiles) /\ \A n \in 1..N : path.profiles[n] \in ToSet(path.profiles)
  <2>1. path.profiles \in Seq(ToSet(path.profiles))
    BY PathsAssumption
  <2> DEFINE T == ToSet(path.profiles)
  <2> HIDE DEF T
  <2>2. path.profiles \in Seq(T)
    BY <2>1 DEF T
  <2>3. Len(path.profiles) \in Nat /\ \A n \in 1..Len(path.profiles) : path.profiles[n] \in T
    BY <2>2
  <2> QED  BY <2>3 DEF T
<1>2. \A t : \A n \in 1..N : AreMade(At(t, n), "integrity")
  <2> SUFFICES ASSUME NEW t, NEW n \in 1..N PROVE AreMade(At(t, n), "integrity")
    OBVIOUS
  <2>1. IsFiniteSet(path.profiles[n].holds)
    BY <1>1, PathsAssumption
  <2> QED  BY <2>1, ReportMade, StampMade
<1>3. \A n \in 1..N : At(tier, n) = At("deep", n)
  BY TiersAlike
<1>4. \A t : \A m \in 0..N :
         /\ AreMade(ProfileLoop(path, t, m), "integrity")
         /\ ToSet(ProfileLoop(path, t, m)) = UNION {ToSet(At(t, n)) : n \in 1..m}
  <2> SUFFICES ASSUME NEW t, NEW m \in 0..N
               PROVE  /\ AreMade(ProfileLoop(path, t, m), "integrity")
                      /\ ToSet(ProfileLoop(path, t, m)) = UNION {ToSet(At(t, n)) : n \in 1..m}
    OBVIOUS
  <2> DEFINE f == [n \in 1..m |-> At(t, n)]
  <2>1. ProfileLoop(path, t, m) = FlattenSeq(f)
    BY DEF ProfileLoop
  <2>2. m \in Nat /\ 1..m \in SUBSET (1..N)
    BY <1>1
  <2> HIDE DEF At
  <2>3. f = [n \in 1..m |-> f[n]] /\ \A n \in 1..m : f[n] = At(t, n) /\ AreMade(f[n], "integrity")
    BY <1>2, <2>2
  <2> HIDE DEF f
  <2>4. /\ AreMade(FlattenSeq(f), "integrity")
        /\ ToSet(FlattenSeq(f)) = UNION {ToSet(f[n]) : n \in 1..m}
    BY <2>2, <2>3, ListOfEach, MadeOfEach DEF AreMade
  <2>5. {ToSet(f[n]) : n \in 1..m} = {ToSet(At(t, n)) : n \in 1..m}
    BY <2>3
  <2> QED  BY <2>1, <2>4, <2>5
<1> HIDE DEF At
<1>5. AreMade(ProfileLoop(path, tier, done), "integrity")
  BY <1>1, <1>4
<1>6. ToSet(ProfileLoop(path, tier, done)) \in SUBSET ToSet(ProfileLoop(path, "deep", N))
  <2>1. 1..done \in SUBSET (1..N) /\ done \in 0..N /\ N \in 0..N
    BY <1>1
  <2>2. UNION {ToSet(At(tier, n)) : n \in 1..done} \in SUBSET UNION {ToSet(At("deep", n)) : n \in 1..N}
    <3>1. \A n \in 1..done : n \in 1..N /\ ToSet(At(tier, n)) = ToSet(At("deep", n))
      BY <1>3, <2>1
    <3> QED  BY <3>1
  <2>3. /\ ToSet(ProfileLoop(path, tier, done)) = UNION {ToSet(At(tier, n)) : n \in 1..done}
        /\ ToSet(ProfileLoop(path, "deep", N)) = UNION {ToSet(At("deep", n)) : n \in 1..N}
    BY <1>4, <2>1
  <2> QED  BY <2>2, <2>3
<1> QED  BY <1>1, <1>5, <1>6

LEMMA RecoveredMade ==
    ASSUME NEW path \in PathsGiven, NEW whole
    PROVE  AreMade(RecoverFindings(path, whole), "tamper")
<1>1. /\ \A p \in ToSet(path.profiles) \cup {path.self} : IsFiniteSet(p.holds)
      /\ path.profiles \in Seq(ToSet(path.profiles)) /\ path.fragments \in Seq(ToSet(path.fragments))
  BY PathsAssumption
<1>2. AreMade(RecoverProfileFindings(path.self), "tamper") /\ AreMade(RecoverDatabaseFindings(path.self), "tamper")
  BY <1>1, RecoverLists
<1>3. /\ AreMade(Each(path.fragments, "memory", "Info", "Memory", "Carved"), "tamper")
      /\ AreMade(Each(path.fragments, "imagecarve", "Info", "Carved", "Carved"), "tamper")
  <2>1. /\ <<Wording["memory"], "Memory", "memory", "Info">> \in Kinds
        /\ <<Wording["imagecarve"], "Carved", "imagecarve", "Info">> \in Kinds
    BY DEF Wording, Kinds
  <2>2. IsList(path.fragments)
    BY <1>1, SeqIsList
  <2> QED  BY <2>1, <2>2, EachMade
<1>4. AreMade(FlattenSeq([n \in DOMAIN path.profiles |->
                Stamp(path.profiles[n], RecoverProfileFindings(path.profiles[n]))]), "tamper")
  <2>1. IsList(path.profiles)
    BY <1>1, SeqIsList
  <2>2. PICK N \in Nat : DOMAIN path.profiles = 1..N /\ \A n \in 1..N : path.profiles[n] \in ToSet(path.profiles)
    BY <2>1, ListIs
  <2> DEFINE f == [n \in DOMAIN path.profiles |->
                     Stamp(path.profiles[n], RecoverProfileFindings(path.profiles[n]))]
  <2>3. \A n \in 1..N : AreMade(f[n], "tamper")
    BY <1>1, <2>2, RecoverLists, StampMade
  <2>4. f = [n \in 1..N |-> f[n]]
    BY <2>2
  <2> HIDE DEF f
  <2>5. AreMade(FlattenSeq(f), "tamper")
    BY <2>3, <2>4, MadeOfEach
  <2> QED  BY <2>5 DEF f
<1>5. RecoverScopeOf(path, whole) \in {"Profile", "WholeImage", "Database", "MemoryImage"}
  BY DEF RecoverScopeOf
<1>6. CASE RecoverScopeOf(path, whole) = "Profile"
  BY <1>2, <1>4, <1>6 DEF RecoverFindings
<1>7. CASE RecoverScopeOf(path, whole) = "Database"
  BY <1>2, <1>7 DEF RecoverFindings
<1>8. CASE RecoverScopeOf(path, whole) = "MemoryImage"
  BY <1>3, <1>8 DEF RecoverFindings
<1>9. CASE RecoverScopeOf(path, whole) = "WholeImage"
  BY <1>3, <1>9 DEF RecoverFindings
<1> QED  BY <1>5, <1>6, <1>7, <1>8, <1>9

\* What a run shows is the ranking of what it collected.
IsRun(r) ==
    /\ r.path \in PathsGiven
    /\ \/ /\ r.verb = "investigate"
          /\ r.done \in 0..Len(r.path.profiles)
       \/ r.verb = "recover"

Collected(r) ==
    IF r.verb = "investigate" THEN CollectInvestigationFindings(r)
    ELSE RecoverFindings(r.path, r.whole)

ShownIsCollected ==
    run # NoRun =>
        /\ IsRun(run)
        /\ shown.outcome # "error" => shown.findings = RankFindings(Collected(run))
        /\ (run.verb = "investigate" /\ shown.outcome = "complete")
              => run.done = Len(run.path.profiles)

LEMMA PrefixOfConcat ==
    ASSUME NEW s, NEW t, IsList(s), IsList(t)
    PROVE  \A k \in 1..Len(s) : k \in 1..Len(s \o t) /\ (s \o t)[k] = s[k]
<1> DEFINE T == ToSet(s) \cup ToSet(t)
<1>1. s \in Seq(ToSet(s)) /\ t \in Seq(ToSet(t))
  BY ListIs
<1>2. s \in Seq(T) /\ t \in Seq(T)
  BY <1>1
<1> HIDE DEF T
<1> QED  BY <1>2

DeepOf(r) ==
    CollectInvestigationFindings(
        [verb |-> "investigate", path |-> r.path, tier |-> "deep", whole |-> r.whole,
         done |-> Len(r.path.profiles)])

\* Whatever a run collected, the deep run to the end has alike, and nothing twice.
LEMMA DeepHasAll ==
    ASSUME NEW r, IsRun(r)
    PROVE  /\ \A f \in ToSet(Collected(r)) :
                 \E g \in ToSet(DeepOf(r)) : Alike(f, g) /\ (r.verb = "investigate" => f.rule = g.rule)
           /\ \A m, n \in DOMAIN DeepOf(r) : Alike(DeepOf(r)[m], DeepOf(r)[n]) => m = n
           /\ \A f \in ToSet(Collected(r)) : f.priority \in {"High", "Medium", "Info"}
           /\ IsList(Collected(r))
<1> DEFINE loop == ProfileLoop(r.path, "deep", Len(r.path.profiles))
           recovered == RecoverFindings(r.path, r.whole)
           all == loop \o recovered
           deep == DeepOf(r)
<1>1. r.path \in PathsGiven
  BY DEF IsRun
<1>2. AreMade(loop, "integrity") /\ AreMade(recovered, "tamper")
  <2>1. Len(r.path.profiles) \in Nat
    <3>1. r.path.profiles \in Seq(ToSet(r.path.profiles))
      BY <1>1, PathsAssumption
    <3> QED  BY <3>1, SeqIsList, ListIs
  <2>2. Len(r.path.profiles) \in 0..Len(r.path.profiles)
    BY <2>1
  <2> QED  BY <1>1, <2>2, LoopMade, RecoveredMade
<1>3. deep = DedupFindings(all)
  BY DEF CollectInvestigationFindings, DeepOf
<1>4. r.verb = "investigate" =>
         /\ AreMade(ProfileLoop(r.path, r.tier, r.done), "integrity")
         /\ ToSet(ProfileLoop(r.path, r.tier, r.done)) \in SUBSET ToSet(loop)
         /\ Collected(r) = IF r.tier = "deep" /\ r.done = Len(r.path.profiles) THEN deep
                           ELSE ProfileLoop(r.path, r.tier, r.done)
  <2> SUFFICES ASSUME r.verb = "investigate"
               PROVE  /\ AreMade(ProfileLoop(r.path, r.tier, r.done), "integrity")
                      /\ ToSet(ProfileLoop(r.path, r.tier, r.done)) \in SUBSET ToSet(loop)
                      /\ Collected(r) = IF r.tier = "deep" /\ r.done = Len(r.path.profiles) THEN deep
                                        ELSE ProfileLoop(r.path, r.tier, r.done)
    OBVIOUS
  <2>1. r.done \in 0..Len(r.path.profiles)
    BY DEF IsRun
  <2>2. /\ AreMade(ProfileLoop(r.path, r.tier, r.done), "integrity")
        /\ ToSet(ProfileLoop(r.path, r.tier, r.done)) \in SUBSET ToSet(loop)
    BY <1>1, <2>1, LoopMade
  <2>3. CASE r.tier = "deep" /\ r.done = Len(r.path.profiles)
    <3>1. Collected(r) = deep
      BY <1>3, <2>3 DEF Collected, CollectInvestigationFindings
    <3> QED  BY <2>2, <2>3, <3>1
  <2>4. CASE ~(r.tier = "deep" /\ r.done = Len(r.path.profiles))
    <3>1. Collected(r) = ProfileLoop(r.path, r.tier, r.done)
      BY <2>4 DEF Collected, CollectInvestigationFindings
    <3> QED  BY <2>2, <2>4, <3>1
  <2> QED  BY <2>3, <2>4
<1>5. r.verb = "recover" => Collected(r) = recovered
  BY DEF Collected
<1> HIDE DEF loop, recovered, deep
<1>6. /\ IsList(loop) /\ IsList(recovered) /\ IsList(all)
      /\ ToSet(all) = ToSet(loop) \cup ToSet(recovered)
  BY <1>2, ConcatList DEF AreMade
<1>7. /\ Len(loop) \in Nat /\ DOMAIN loop = 1..Len(loop) /\ DOMAIN all = 1..Len(all)
      /\ \A k \in 1..Len(loop) : k \in 1..Len(all) /\ all[k] = loop[k]
  BY <1>6, ListIs, PrefixOfConcat
<1> HIDE DEF all
<1>8. IsList(deep) /\ ToSet(deep) \in SUBSET ToSet(all) /\ StandsFor(deep, all, Len(all)) /\ KeysDiffer(deep)
  BY <1>3, <1>6, DedupIs
<1>9. "integrity" \in IndicatorRules /\ "tamper" \in IndicatorRules
  BY DEF IndicatorRules
<1>10. \A f \in ToSet(all) : \E q \in IndicatorRules : Made(f, q)
  BY <1>2, <1>6, <1>9 DEF AreMade
<1>11. ASSUME NEW k \in 1..Len(all)
       PROVE  \E m \in 1..k : all[m] \in ToSet(deep) /\ Alike(all[k], all[m])
                              /\ DedupKey(all[k]) = DedupKey(all[m])
  <2>1. PICK m \in 1..k : \E i \in DOMAIN deep :
                deep[i] = all[m] /\ DedupKey(all[m]) = DedupKey(all[k])
    BY <1>8 DEF StandsFor
  <2>2. all[m] \in ToSet(deep) /\ DedupKey(all[m]) = DedupKey(all[k])
    BY <2>1, ElementsAre
  <2>3. m \in DOMAIN all /\ k \in DOMAIN all
    BY <1>7
  <2>4. all[m] \in ToSet(all) /\ all[k] \in ToSet(all)
    BY <2>3, ElementsAre
  <2>5. Alike(all[k], all[m])
    BY <1>10, <2>2, <2>4, MadeAlike
  <2> QED  BY <2>2, <2>5
<1>12. ASSUME NEW f \in ToSet(all) PROVE \E g \in ToSet(deep) : Alike(f, g)
  BY <1>7, <1>11, ElementsAre
<1>13. ASSUME NEW f \in ToSet(loop) PROVE \E g \in ToSet(deep) : Alike(f, g) /\ f.rule = g.rule
  <2>1. PICK k \in 1..Len(loop) : loop[k] = f
    BY <1>7, ElementsAre
  <2>2. k \in 1..Len(all) /\ all[k] = f
    BY <1>7, <2>1
  <2>3. PICK m \in 1..k : all[m] \in ToSet(deep) /\ Alike(all[k], all[m])
                         /\ DedupKey(all[k]) = DedupKey(all[m])
    BY <1>11, <2>2
  <2>4. m \in 1..Len(loop)
    BY <1>7
  <2>5. all[m] \in ToSet(loop)
    BY <1>7, <2>4, ElementsAre
  <2>6. Made(all[m], "integrity") /\ Made(f, "integrity")
    BY <1>2, <2>5 DEF AreMade
  <2>7. f.rule = all[m].rule
    BY <1>9, <2>2, <2>3, <2>6, MadeAlike
  <2> QED  BY <2>2, <2>3, <2>7
<1>14. ASSUME NEW f \in ToSet(Collected(r))
       PROVE  \E g \in ToSet(deep) : Alike(f, g) /\ (r.verb = "investigate" => f.rule = g.rule)
  <2>1. CASE r.verb = "recover"
    <3>1. f \in ToSet(all) /\ r.verb # "investigate"
      BY <1>5, <1>6, <2>1
    <3> QED  BY <1>12, <3>1
  <2>2. CASE r.verb = "investigate" /\ Collected(r) = deep
    <3>1. f \in ToSet(deep) /\ Alike(f, f)
      BY <2>2 DEF Alike
    <3> QED  BY <3>1
  <2>3. CASE r.verb = "investigate" /\ Collected(r) = ProfileLoop(r.path, r.tier, r.done)
    <3>1. f \in ToSet(loop)
      BY <1>4, <2>3
    <3> QED  BY <1>13, <3>1
  <2> QED  BY <1>4, <2>1, <2>2, <2>3 DEF IsRun
<1>15. ASSUME NEW m \in DOMAIN deep, NEW n \in DOMAIN deep, Alike(deep[m], deep[n]) PROVE m = n
  BY <1>8, <1>15 DEF KeysDiffer, DedupKey, Alike
<1>16. IsList(Collected(r)) /\ ToSet(Collected(r)) \in SUBSET ToSet(all)
  BY <1>4, <1>5, <1>6, <1>8 DEF IsRun, AreMade
<1>17. \A f \in ToSet(Collected(r)) : f.priority \in {"High", "Medium", "Info"}
  BY <1>10, <1>16, MadeRanks
<1> QED  BY <1>14, <1>15, <1>16, <1>17 DEF deep

LEMMA ShownInit == FindingsInit => ShownIsCollected
BY DEF FindingsInit, ShownIsCollected

LEMMA ShownStep ==
    ASSUME ShownIsCollected, [RunInvestigate \/ RunRecover]_findingsVars
    PROVE  ShownIsCollected'
<1>1. CASE RunInvestigate
  <2>1. PICK path \in PathsGiven, tier \in {"quick", "standard", "deep"}, whole \in BOOLEAN :
           \E done \in 0..Len(path.profiles) :
              /\ run' = [verb |-> "investigate", path |-> path, tier |-> tier, whole |-> whole,
                         done |-> done]
              /\ \/ shown' = [outcome |-> "error", findings |-> <<>>]
                 \/ \E o : /\ o = "complete" => done = Len(path.profiles)
                          /\ shown' = [outcome |-> o, findings |->
                                RankFindings(CollectInvestigationFindings(
                                   [verb |-> "investigate", path |-> path, tier |-> tier,
                                    whole |-> whole, done |-> done]))]
    BY <1>1 DEF RunInvestigate
  <2>2. PICK done \in 0..Len(path.profiles) :
              /\ run' = [verb |-> "investigate", path |-> path, tier |-> tier, whole |-> whole,
                         done |-> done]
              /\ \/ shown' = [outcome |-> "error", findings |-> <<>>]
                 \/ \E o : /\ o = "complete" => done = Len(path.profiles)
                          /\ shown' = [outcome |-> o, findings |->
                                RankFindings(CollectInvestigationFindings(
                                   [verb |-> "investigate", path |-> path, tier |-> tier,
                                    whole |-> whole, done |-> done]))]
    BY <2>1
  <2> DEFINE r == [verb |-> "investigate", path |-> path, tier |-> tier, whole |-> whole,
                   done |-> done]
  <2>3. IsRun(r) /\ Collected(r) = CollectInvestigationFindings(r)
    BY DEF IsRun, Collected
  <2>4. /\ run' = r /\ r.done = done /\ r.path = path
        /\ shown'.outcome = "error" \/ shown'.findings = RankFindings(CollectInvestigationFindings(r))
        /\ shown'.outcome = "complete" => done = Len(path.profiles)
    BY <2>2
  <2> HIDE DEF r
  <2> QED  BY <2>3, <2>4 DEF ShownIsCollected
<1>2. CASE RunRecover
  <2>1. PICK path \in PathsGiven, whole \in BOOLEAN :
              /\ run' = [verb |-> "recover", path |-> path, whole |-> whole]
              /\ \/ shown' = [outcome |-> "error", findings |-> <<>>]
                 \/ shown' = [outcome |-> "complete",
                              findings |-> RankFindings(RecoverFindings(path, whole))]
    BY <1>2 DEF RunRecover
  <2> DEFINE r == [verb |-> "recover", path |-> path, whole |-> whole]
  <2>2. IsRun(r) /\ Collected(r) = RecoverFindings(path, whole) /\ r.verb # "investigate"
    BY DEF IsRun, Collected
  <2>3. run' = r /\ (shown'.outcome = "error" \/ shown'.findings = RankFindings(RecoverFindings(path, whole)))
    BY <2>1
  <2> HIDE DEF r
  <2> QED  BY <2>2, <2>3 DEF ShownIsCollected
<1>3. CASE UNCHANGED findingsVars
  BY <1>3 DEF findingsVars, ShownIsCollected
<1> QED  BY <1>1, <1>2, <1>3

LEMMA ShownGivesDeep == ShownIsCollected => DeepLosesNothing
<1> SUFFICES ASSUME ShownIsCollected, run # NoRun, shown.outcome # "error"
             PROVE  /\ \A f \in ToSet(shown.findings) :
                          \E g \in ToSet(FoundDeep) :
                             Alike(f, g) /\ (run.verb = "investigate" => f.rule = g.rule)
                    /\ \A m, n \in DOMAIN FoundDeep : Alike(FoundDeep[m], FoundDeep[n]) => m = n
                    /\ (run.verb = "investigate" /\ run.tier = "deep" /\ shown.outcome = "complete")
                          => ToSet(FoundDeep) \subseteq ToSet(shown.findings)
  BY DEF DeepLosesNothing, HasDeep
<1>1. IsRun(run) /\ shown.findings = RankFindings(Collected(run))
  BY DEF ShownIsCollected
<1>2. FoundDeep = DeepOf(run)
  BY DEF FoundDeep, DeepOf
<1>3. /\ \A f \in ToSet(Collected(run)) :
            \E g \in ToSet(DeepOf(run)) : Alike(f, g) /\ (run.verb = "investigate" => f.rule = g.rule)
      /\ \A m, n \in DOMAIN DeepOf(run) : Alike(DeepOf(run)[m], DeepOf(run)[n]) => m = n
      /\ \A f \in ToSet(Collected(run)) : f.priority \in {"High", "Medium", "Info"}
      /\ IsList(Collected(run))
  BY <1>1, DeepHasAll
<1>4. ToSet(shown.findings) = ToSet(Collected(run))
  BY <1>1, <1>3, RankedAre
<1>5. ASSUME run.verb = "investigate", run.tier = "deep", shown.outcome = "complete"
      PROVE  Collected(run) = DeepOf(run)
  <2>1. run.done = Len(run.path.profiles)
    BY <1>5 DEF ShownIsCollected
  <2> QED  BY <1>5, <2>1 DEF Collected, CollectInvestigationFindings, DeepOf
<1> QED  BY <1>2, <1>3, <1>4, <1>5

\* Whatever a run shows that is interrupted, of a lesser tier or a recovery, the deep run
\* to the end shows alike, under the rule that an investigation found it by, lists
\* nothing twice, and shows all it found (investigate.rs 316-349, cli.rs 1183-1222).
THEOREM DeepCorrect == FindingsSpec => []DeepLosesNothing
<1>1. FindingsInit => ShownIsCollected
  BY ShownInit
<1>2. ShownIsCollected /\ [RunInvestigate \/ RunRecover]_findingsVars => ShownIsCollected'
  BY ShownStep
<1>3. ShownIsCollected => DeepLosesNothing
  BY ShownGivesDeep
<1> QED  BY <1>1, <1>2, <1>3, PTL DEF FindingsSpec

-----------------------------------------------------------------------------
(* Pages: what the caches hold, and the state of a rewriting. *)

LEMMA ResourceIs ==
    ASSUME NEW r \in Resources
    PROVE  /\ r.url \in References /\ r.len \in Nat /\ r.urls \in Seq(References)
           /\ r.elements \in Seq(ElementsOf(r))
           /\ \A e \in ElementsOf(r) :
                 e.is \in ElementKinds /\ e.url \in References /\ e.urls \in Seq(References)
<1>1. /\ r.len \in Nat /\ r.urls \in Seq(UrlsIn(r)) /\ r.elements \in Seq(ElementsOf(r))
      /\ \A e \in ElementsOf(r) : e.is \in ElementKinds /\ e.urls \in Seq(UrlsIn(e))
  BY PagesAssumption
<1>2. {r.url} \cup UrlsIn(r) \subseteq References
  BY DEF References
<1>3. ASSUME NEW e \in ElementsOf(r) PROVE {e.url} \cup UrlsIn(e) \subseteq References
  <2>1. ElementsOf(r) \in {ElementsOf(res) : res \in Resources}
    OBVIOUS
  <2>2. e \in ElementsGiven
    BY <2>1 DEF ElementsGiven
  <2>3. {e.url} \cup UrlsIn(e) \in {{x.url} \cup UrlsIn(x) : x \in ElementsGiven}
    BY <2>2
  <2>4. {e.url} \cup UrlsIn(e) \subseteq UNION {{x.url} \cup UrlsIn(x) : x \in ElementsGiven}
    BY <2>3
  <2> QED  BY <2>4 DEF References
<1>4. r.urls \in Seq(References)
  BY <1>1, <1>2
<1>5. ASSUME NEW e \in ElementsOf(r) PROVE e.urls \in Seq(References)
  BY <1>1, <1>3
<1> QED  BY <1>1, <1>2, <1>3, <1>4, <1>5

LEMMA NoAddressIs == NoAddress \in References /\ Embedded \in References
BY DEF References

\* An index holds resources of the caches, and has a place for each.
IsIndex(idx) ==
    /\ idx.order \in Seq(References) /\ ToSet(idx.order) = DOMAIN idx.byUrl
    /\ \A u \in DOMAIN idx.byUrl : u \in References /\ idx.byUrl[u] \in Resources
IndexSound == IsIndex(index)

\* A list without repetitions.
Distinct(s) == \A i, j \in DOMAIN s : s[i] = s[j] => i = j

LEMMA OneMore ==
    ASSUME NEW T, NEW s \in Seq(T), Distinct(s), NEW u \in T, u \notin ToSet(s)
    PROVE  /\ Append(s, u) \in Seq(T) /\ Distinct(Append(s, u))
           /\ ToSet(Append(s, u)) = ToSet(s) \cup {u}
<1>1. PICK n \in Nat : n = Len(s) /\ DOMAIN s = 1..n
  OBVIOUS
<1>2. PICK e : e = Append(s, u)
  OBVIOUS
<1>3. /\ e \in Seq(T) /\ DOMAIN e = 1..(n + 1) /\ e[n + 1] = u
      /\ \A i \in 1..n : e[i] = s[i]
  BY <1>1, <1>2
<1>4. \A i \in 1..(n + 1) : i \in 1..n \/ i = n + 1
  OBVIOUS
<1>5. \A i \in 1..n : s[i] # u
  BY <1>1, ElementsAre
<1>6. Distinct(e)
  <2> SUFFICES ASSUME NEW i \in 1..(n + 1), NEW j \in 1..(n + 1), e[i] = e[j] PROVE i = j
    BY <1>3 DEF Distinct
  <2>1. CASE i \in 1..n /\ j \in 1..n
    BY <1>1, <1>3, <2>1 DEF Distinct
  <2>2. CASE i \in 1..n /\ j = n + 1
    BY <1>3, <1>5, <2>2
  <2>3. CASE i = n + 1 /\ j \in 1..n
    BY <1>3, <1>5, <2>3
  <2> QED  BY <1>4, <2>1, <2>2, <2>3
<1>7. ASSUME NEW x PROVE x \in ToSet(e) <=> x \in ToSet(s) \cup {u}
  <2>1. x \in ToSet(e) <=> \E i \in 1..(n + 1) : e[i] = x
    BY <1>3, ElementsAre
  <2>2. x \in ToSet(s) <=> \E i \in 1..n : s[i] = x
    BY <1>1, ElementsAre
  <2>3. n + 1 \in 1..(n + 1) /\ \A i \in 1..n : i \in 1..(n + 1)
    OBVIOUS
  <2> QED  BY <1>3, <1>4, <2>1, <2>2, <2>3
<1> QED  BY <1>2, <1>3, <1>6, <1>7

PagesOver ==
    [url: References, found: Seq(References), missing: Seq(References), seen: SUBSET References,
     emitted: Nat, count: Nat, inlined: SUBSET References]

\* What is found and what is missing of a page is listed once; the one is inlined, the
\* other does not fit.
Sound(p) ==
    /\ p \in PagesOver
    /\ Distinct(p.found) /\ Distinct(p.missing)
    /\ \A u \in ToSet(p.missing) : u \notin p.inlined /\ ~Fits(p, u)
    /\ ToSet(p.found) = p.inlined
    /\ p.seen = p.inlined \cup ToSet(p.missing)
    /\ p.count <= MaxSubresources + 1

\* A rewriting takes nothing back.
Grows(p, q) ==
    /\ p.url = q.url /\ p.seen \subseteq q.seen /\ p.inlined \subseteq q.inlined
    /\ p.count <= q.count /\ p.emitted <= q.emitted

LEMMA Limits == MaxSubresources \in Nat /\ MaxOutputBytes \in Nat /\ MaxCssUrls \in Nat
BY PagesAssumption

LEMMA CachedIs ==
    ASSUME IndexSound, NEW u, Cached(u)
    PROVE  u \in References /\ index.byUrl[u] \in Resources /\ index.byUrl[u].len \in Nat
<1>1. u \in References /\ index.byUrl[u] \in Resources
  BY DEF IndexSound, IsIndex, Cached
<1> QED  BY <1>1, ResourceIs

LEMMA StillUnfit ==
    ASSUME IndexSound, NEW p \in PagesOver, NEW q \in PagesOver, Grows(p, q),
           NEW u, ~Fits(p, u)
    PROVE  ~Fits(q, u)
<1> SUFFICES ASSUME Cached(u) PROVE ~Fits(q, u)
  BY DEF Fits
<1> DEFINE len == index.byUrl[u].len
<1>1. len \in Nat
  BY CachedIs
<1>2. p.count \in Nat /\ q.count \in Nat /\ p.emitted \in Nat /\ q.emitted \in Nat
  BY DEF PagesOver
<1>3. ~BudgetOk(p, len)
  BY DEF Fits
<1> HIDE DEF len
<1>4. ~BudgetOk(q, len)
  BY <1>1, <1>2, <1>3, Limits DEF BudgetOk, Grows
<1> QED  BY <1>4 DEF Fits, len

LEMMA GrowsOn ==
    ASSUME NEW p \in PagesOver, NEW q \in PagesOver, NEW r \in PagesOver, Grows(p, q), Grows(q, r)
    PROVE  Grows(p, r)
<1>1. p.count \in Nat /\ q.count \in Nat /\ r.count \in Nat
      /\ p.emitted \in Nat /\ q.emitted \in Nat /\ r.emitted \in Nat
  BY DEF PagesOver
<1> QED  BY <1>1 DEF Grows

LEMMA GrowsNot == ASSUME NEW p \in PagesOver PROVE Grows(p, p)
<1>1. p.count \in Nat /\ p.emitted \in Nat
  BY DEF PagesOver
<1> QED  BY <1>1 DEF Grows

LEMMA RecordMissingIs ==
    ASSUME IndexSound, NEW p, Sound(p), NEW u \in References, ~Fits(p, u)
    PROVE  /\ Sound(RecordMissing(p, u)) /\ Grows(p, RecordMissing(p, u))
           /\ RecordMissing(p, u).count = p.count /\ RecordMissing(p, u).inlined = p.inlined
           /\ u \in RecordMissing(p, u).seen \cup {NoAddress}
           /\ ToSet(RecordMissing(p, u).missing) \subseteq ToSet(p.missing) \cup {u}
<1>0. p \in PagesOver
  BY DEF Sound
<1>1. CASE u = NoAddress \/ u \in p.seen
  BY <1>0, <1>1, GrowsNot DEF RecordMissing
<1>2. CASE ~(u = NoAddress \/ u \in p.seen)
  <2> DEFINE q == RecordMissing(p, u)
  <2>1. q = [p EXCEPT !.missing = Append(@, u), !.seen = @ \cup {u}]
    BY <1>2 DEF RecordMissing
  <2>2. p.missing \in Seq(References) /\ Distinct(p.missing) /\ u \notin ToSet(p.missing)
        /\ u \notin p.inlined
    BY <1>2 DEF Sound, PagesOver
  <2>3. /\ Append(p.missing, u) \in Seq(References) /\ Distinct(Append(p.missing, u))
        /\ ToSet(Append(p.missing, u)) = ToSet(p.missing) \cup {u}
    BY <2>2, OneMore
  <2>4. /\ q \in PagesOver /\ q.missing = Append(p.missing, u) /\ q.seen = p.seen \cup {u}
        /\ q.url = p.url /\ q.found = p.found /\ q.inlined = p.inlined /\ q.count = p.count
        /\ q.emitted = p.emitted
    BY <1>0, <2>1, <2>3 DEF PagesOver
  <2> HIDE DEF q
  <2>5. p.count \in Nat /\ p.emitted \in Nat
    BY <1>0 DEF PagesOver
  <2>6. Grows(p, q)
    BY <2>4, <2>5 DEF Grows
  <2>7. \A v \in ToSet(q.missing) : v \notin q.inlined /\ ~Fits(q, v)
    <3> SUFFICES ASSUME NEW v \in ToSet(q.missing) PROVE v \notin q.inlined /\ ~Fits(q, v)
      OBVIOUS
    <3>1. v \notin p.inlined /\ ~Fits(p, v)
      BY <2>2, <2>3, <2>4 DEF Sound
    <3> QED  BY <1>0, <2>4, <2>6, <3>1, StillUnfit
  <2>8. Sound(q)
    BY <2>2, <2>3, <2>4, <2>7 DEF Sound
  <2>9. ToSet(q.missing) \subseteq ToSet(p.missing) \cup {u} /\ u \in q.seen
    BY <2>3, <2>4
  <2> QED  BY <2>4, <2>6, <2>8, <2>9 DEF q
<1> QED  BY <1>1, <1>2

LEMMA InlineIs ==
    ASSUME IndexSound, NEW p, Sound(p), NEW u \in References, u \notin ToSet(p.missing),
           NEW len \in Nat, p.count <= MaxSubresources
    PROVE  /\ Sound(Inline(p, u, len)) /\ Grows(p, Inline(p, u, len))
           /\ Inline(p, u, len).count = p.count + 1
           /\ Inline(p, u, len).inlined = p.inlined \cup {u} /\ u \in Inline(p, u, len).seen
           /\ Inline(p, u, len).missing = p.missing
<1> DEFINE m == NoteEmitted(p, u, len)
           q == Inline(p, u, len)
<1>0. p \in PagesOver /\ p.count \in Nat /\ p.emitted \in Nat
  BY DEF Sound, PagesOver
<1>1. /\ m \in PagesOver /\ m.url = p.url /\ m.found = p.found /\ m.missing = p.missing
      /\ m.seen = p.seen /\ m.emitted = p.emitted + DataUri(len) /\ m.count = p.count + 1
      /\ m.inlined = p.inlined \cup {u}
  <2>1. m = [p EXCEPT !.emitted = p.emitted + DataUri(len), !.count = p.count + 1,
                      !.inlined = p.inlined \cup {u}]
    BY DEF NoteEmitted
  <2>2. p.emitted + DataUri(len) \in Nat /\ p.count + 1 \in Nat
        /\ p.inlined \cup {u} \in SUBSET References
    BY <1>0 DEF DataUri, PagesOver
  <2>3. PICK x, y, z : x = p.emitted + DataUri(len) /\ y = p.count + 1 /\ z = p.inlined \cup {u}
    OBVIOUS
  <2>4. m = [p EXCEPT !.emitted = x, !.count = y, !.inlined = z]
    BY <2>1, <2>3
  <2> HIDE DEF m
  <2>5. /\ m \in PagesOver /\ m.url = p.url /\ m.found = p.found /\ m.missing = p.missing
        /\ m.seen = p.seen /\ m.emitted = x /\ m.count = y /\ m.inlined = z
    BY <1>0, <2>2, <2>3, <2>4 DEF PagesOver
  <2> QED  BY <2>3, <2>5
<1>2. q = RecordFound(m, u)
  BY DEF Inline
<1> HIDE DEF m
<1>3. /\ q \in PagesOver /\ q.url = p.url /\ q.missing = p.missing /\ Distinct(q.found)
      /\ ToSet(q.found) = p.inlined \cup {u} /\ q.seen = p.seen \cup {u}
      /\ q.emitted = p.emitted + DataUri(len) /\ q.count = p.count + 1
      /\ q.inlined = p.inlined \cup {u}
  <2> HIDE DEF q
  <2>1. CASE u \in p.seen
    <3>1. q = m /\ u \in p.inlined
      BY <1>1, <1>2, <2>1 DEF RecordFound, Sound
    <3> QED  BY <1>1, <2>1, <3>1 DEF Sound
  <2>2. CASE u \notin p.seen
    <3>1. q = [m EXCEPT !.found = Append(@, u), !.seen = @ \cup {u}]
      BY <1>1, <1>2, <2>2 DEF RecordFound
    <3>2. p.found \in Seq(References) /\ Distinct(p.found) /\ u \notin ToSet(p.found)
      BY <2>2 DEF Sound, PagesOver
    <3>3. /\ Append(p.found, u) \in Seq(References) /\ Distinct(Append(p.found, u))
          /\ ToSet(Append(p.found, u)) = ToSet(p.found) \cup {u}
      BY <3>2, OneMore
    <3>4. /\ q \in PagesOver /\ q.url = m.url /\ q.missing = m.missing
          /\ q.found = Append(m.found, u) /\ q.seen = m.seen \cup {u}
          /\ q.emitted = m.emitted /\ q.count = m.count /\ q.inlined = m.inlined
      BY <1>1, <3>1, <3>3 DEF PagesOver
    <3> QED  BY <1>1, <3>3, <3>4 DEF Sound
  <2> QED  BY <2>1, <2>2
<1> HIDE DEF q
<1>4. Grows(p, q)
  BY <1>0, <1>3 DEF Grows, DataUri
<1>5. ASSUME NEW v \in ToSet(q.missing) PROVE v \notin q.inlined /\ ~Fits(q, v)
  <2>1. v \notin p.inlined /\ ~Fits(p, v) /\ v # u
    BY <1>3 DEF Sound
  <2> QED  BY <1>0, <1>3, <1>4, <2>1, StillUnfit
<1>6. q.count <= MaxSubresources + 1
  BY <1>0, <1>3, Limits
<1>7. q.seen = q.inlined \cup ToSet(q.missing)
  BY <1>3 DEF Sound
<1>8. Sound(q)
  BY <1>3, <1>5, <1>6, <1>7 DEF Sound
<1> QED  BY <1>3, <1>4, <1>8 DEF q

LEMMA FitIs ==
    ASSUME IndexSound, NEW p, Sound(p), NEW u, Fits(p, u)
    PROVE  /\ u \in References /\ u \notin ToSet(p.missing) /\ index.byUrl[u].len \in Nat
           /\ p.count \in Nat /\ p.count < MaxSubresources
           /\ Cached(u) /\ index.byUrl[u] \in Resources
<1>1. Cached(u) /\ BudgetOk(p, index.byUrl[u].len)
  BY DEF Fits
<1>2. u \notin ToSet(p.missing) /\ p.count \in Nat
  BY DEF Sound, PagesOver
<1> QED  BY <1>1, <1>2, CachedIs DEF BudgetOk

\* What an element with a single address does.
Took(p, q, u) ==
    /\ Sound(q) /\ Grows(p, q) /\ q.inlined \subseteq p.inlined \cup {u}
    /\ u \in q.seen \cup {NoAddress, Embedded}

LEMMA InlineOrMarkIs ==
    ASSUME IndexSound, NEW p, Sound(p), NEW u \in References
    PROVE  Took(p, InlineOrMark(p, u), u)
<1>1. CASE Fits(p, u)
  <2> DEFINE q == Inline(p, u, index.byUrl[u].len)
  <2>1. index.byUrl[u].len \in Nat /\ u \notin ToSet(p.missing) /\ p.count \in Nat
        /\ p.count < MaxSubresources
    BY <1>1, FitIs
  <2>2. Sound(q) /\ Grows(p, q) /\ q.inlined = p.inlined \cup {u} /\ u \in q.seen
    BY <2>1, InlineIs, Limits
  <2>3. InlineOrMark(p, u) = q
    BY <1>1 DEF InlineOrMark
  <2> HIDE DEF q
  <2> QED  BY <2>2, <2>3 DEF Took
<1>2. CASE ~Fits(p, u)
  <2> DEFINE q == RecordMissing(p, u)
  <2>1. Sound(q) /\ Grows(p, q) /\ q.inlined = p.inlined /\ u \in q.seen \cup {NoAddress}
    BY <1>2, RecordMissingIs
  <2>2. InlineOrMark(p, u) = q
    BY <1>2 DEF InlineOrMark
  <2> HIDE DEF q
  <2> QED  BY <2>1, <2>2 DEF Took
<1> QED  BY <1>1, <1>2

LEMMA InlineSrcIs ==
    ASSUME IndexSound, NEW p, Sound(p), NEW u \in References
    PROVE  Took(p, InlineSrc(p, u), u)
<1>1. CASE u = Embedded
  <2>1. p \in PagesOver
    BY DEF Sound
  <2> QED  BY <1>1, <2>1, GrowsNot DEF InlineSrc, Took
<1>2. CASE u # Embedded
  BY <1>2, InlineOrMarkIs DEF InlineSrc
<1> QED  BY <1>1, <1>2

\* An address is in the manifest, need not be, or is cached and does not fit.
Settled(p, u) ==
    u \in p.seen \cup {NoAddress, Embedded} \/ (Cached(u) /\ ~Fits(p, u))

LEMMA SettledStays ==
    ASSUME IndexSound, NEW p \in PagesOver, NEW q \in PagesOver, Grows(p, q),
           NEW u, Settled(p, u)
    PROVE  Settled(q, u)
<1>1. CASE u \in p.seen \cup {NoAddress, Embedded}
  BY <1>1 DEF Settled, Grows
<1>2. CASE Cached(u) /\ ~Fits(p, u)
  BY <1>2, StillUnfit DEF Settled
<1> QED  BY <1>1, <1>2 DEF Settled

StyleStates == [page: PagesOver, rewrites: Nat]

\* What one address in a style does.
StyleTook(s, t, u) ==
    /\ t \in StyleStates /\ Sound(t.page) /\ Grows(s.page, t.page)
    /\ t.page.inlined \subseteq s.page.inlined \cup {u}
    /\ s.page.count <= MaxSubresources => t.page.count <= MaxSubresources
    /\ \A v \in ToSet(t.page.missing) : v \in ToSet(s.page.missing) \/ ~Cached(v)
    /\ t.rewrites = s.rewrites \/ (t.rewrites = s.rewrites + 1 /\ u \in t.page.inlined)
    /\ s.rewrites # MaxCssUrls => Settled(t.page, u)

LEMMA InlineCssUrlIs ==
    ASSUME IndexSound, NEW s \in StyleStates, Sound(s.page), NEW u \in References
    PROVE  StyleTook(s, InlineCssUrl(s, u), u)
<1> DEFINE t == InlineCssUrl(s, u)
           p == s.page
<1>0. p \in PagesOver /\ s.rewrites \in Nat /\ Grows(p, p) /\ Sound(p)
  <2>1. p \in PagesOver /\ s.rewrites \in Nat
    BY DEF StyleStates
  <2> QED  BY <2>1, GrowsNot
<1>1. CASE u = Embedded \/ s.rewrites = MaxCssUrls
  <2>1. t = s
    BY <1>1 DEF InlineCssUrl
  <2>2. s.rewrites # MaxCssUrls => Settled(p, u)
    BY <1>1 DEF Settled
  <2>3. StyleTook(s, s, u)
    BY <1>0, <2>2 DEF StyleTook
  <2> QED  BY <2>1, <2>3
<1>2. CASE ~(u = Embedded \/ s.rewrites = MaxCssUrls) /\ Fits(p, u)
  <2> DEFINE q == Inline(p, u, index.byUrl[u].len)
  <2>1. /\ index.byUrl[u].len \in Nat /\ u \notin ToSet(p.missing) /\ p.count \in Nat
        /\ p.count < MaxSubresources
    BY <1>0, <1>2, FitIs
  <2>2. /\ Sound(q) /\ Grows(p, q) /\ q.count = p.count + 1
        /\ q.inlined = p.inlined \cup {u} /\ u \in q.seen /\ q.missing = p.missing
    BY <1>0, <2>1, InlineIs, Limits
  <2>3. t = [page |-> q, rewrites |-> s.rewrites + 1]
    BY <1>2 DEF InlineCssUrl
  <2> HIDE DEF q, t
  <2>4. q \in PagesOver /\ q.count <= MaxSubresources
    BY <2>1, <2>2, Limits DEF Sound
  <2>5. t \in StyleStates /\ t.page = q /\ t.rewrites = s.rewrites + 1
    BY <1>0, <2>3, <2>4 DEF StyleStates
  <2>6. Settled(q, u)
    BY <2>2 DEF Settled
  <2> QED  BY <2>2, <2>4, <2>5, <2>6 DEF StyleTook, t
<1>3. CASE ~(u = Embedded \/ s.rewrites = MaxCssUrls) /\ ~Fits(p, u) /\ ~Cached(u)
  <2> DEFINE q == RecordMissing(p, u)
  <2>1. /\ Sound(q) /\ Grows(p, q) /\ q.count = p.count /\ q.inlined = p.inlined
        /\ u \in q.seen \cup {NoAddress} /\ ToSet(q.missing) \subseteq ToSet(p.missing) \cup {u}
    BY <1>0, <1>3, RecordMissingIs
  <2>2. t = [s EXCEPT !.page = q]
    BY <1>3 DEF InlineCssUrl
  <2> HIDE DEF q, t
  <2>3. q \in PagesOver
    BY <2>1 DEF Sound
  <2>4. t \in StyleStates /\ t.page = q /\ t.rewrites = s.rewrites
    BY <2>2, <2>3 DEF StyleStates
  <2>5. Settled(q, u)
    BY <2>1 DEF Settled
  <2>6. \A v \in ToSet(q.missing) : v \in ToSet(p.missing) \/ ~Cached(v)
    BY <1>3, <2>1
  <2> QED  BY <2>1, <2>4, <2>5, <2>6 DEF StyleTook, t
<1>4. CASE ~(u = Embedded \/ s.rewrites = MaxCssUrls) /\ ~Fits(p, u) /\ Cached(u)
  <2>1. t = s
    BY <1>4 DEF InlineCssUrl
  <2>2. Settled(p, u)
    BY <1>4 DEF Settled
  <2>3. StyleTook(s, s, u)
    BY <1>0, <2>2 DEF StyleTook
  <2> QED  BY <2>1, <2>3
<1> QED  BY <1>1, <1>2, <1>3, <1>4

\* The states of the rewriting of a style after so many of its addresses.
StyleStarts(p) == [page |-> p, rewrites |-> 0]
StyleStep(urls, n, s) == InlineCssUrl(s, urls[n])

LEMMA StyleSteps ==
    ASSUME IndexSound, NEW p, Sound(p), NEW urls \in Seq(References)
    PROVE  \E g : /\ g[0] = StyleStarts(p) /\ RewriteCssUrls(p, urls) = g[Len(urls)].page
                  /\ \A n \in 0..Len(urls) : g[n] \in StyleStates /\ Sound(g[n].page)
                  /\ \A n \in 1..Len(urls) : StyleTook(g[n - 1], g[n], urls[n])
<1> DEFINE N == Len(urls)
           b == StyleStarts(p)
           V == {s \in StyleStates : Sound(s.page)}
           Step(n, x) == StyleStep(urls, n, x)
           G == [n \in 1..N |-> [x \in V |-> Step(n, x)]]
           D(f) == [n \in 0..N |-> IF n = 0 THEN b ELSE Step(n, f[n - 1])]
           g == CHOOSE f : f = D(f)
<1>1. N \in Nat /\ \A n \in 1..N : urls[n] \in References
  OBVIOUS
<1>2. b \in V
  BY DEF Sound, StyleStates, StyleStarts
<1>3. \A n \in 1..N : \A x \in V : Step(n, x) \in V /\ StyleTook(x, Step(n, x), urls[n])
  <2> SUFFICES ASSUME NEW n \in 1..N, NEW x \in V
               PROVE  Step(n, x) \in V /\ StyleTook(x, Step(n, x), urls[n])
    OBVIOUS
  <2>1. StyleTook(x, StyleStep(urls, n, x), urls[n])
    BY <1>1, InlineCssUrlIs DEF StyleStep
  <2> QED  BY <2>1 DEF StyleTook
<1>4. RewriteCssUrls(p, urls) = g[N].page
  BY DEF RewriteCssUrls, StyleStarts, StyleStep
<1> HIDE DEF V, b, Step, N
<1>5. AreSteps(G, N, V)
  BY <1>3 DEF AreSteps
<1>6. PICK f : f \in [0..N -> V] /\ f[0] = b /\ \A n \in 1..N : f[n] = G[n][f[n - 1]]
  <2> HIDE DEF G
  <2>1. \E f : IsBuilt(f, b, G, N, V)
    BY <1>1, <1>2, <1>5, BuiltUp
  <2> QED  BY <2>1 DEF IsBuilt
<1>7. f = D(f)
  <2>1. ASSUME NEW n \in 0..N PROVE f[n] = IF n = 0 THEN b ELSE Step(n, f[n - 1])
    <3>1. CASE n = 0
      BY <1>6, <3>1
    <3>2. CASE n # 0
      <4>1. n \in 1..N /\ n - 1 \in 0..N
        BY <1>1, <3>2
      <4> QED  BY <1>6, <3>2, <4>1
    <3> QED  BY <3>1, <3>2
  <2>2. f = [n \in 0..N |-> f[n]]
    BY <1>6
  <2> QED  BY <2>1, <2>2
<1>8. g = D(g)
  <2> HIDE DEF D
  <2> QED  BY <1>7
<1>9. \A n \in 0..N : g[n] = IF n = 0 THEN b ELSE Step(n, g[n - 1])
  <2> SUFFICES ASSUME NEW n \in 0..N PROVE g[n] = IF n = 0 THEN b ELSE Step(n, g[n - 1])
    OBVIOUS
  <2> HIDE DEF g
  <2>1. g[n] = D(g)[n]
    BY <1>8
  <2> QED  BY <2>1
<1> HIDE DEF g
<1> DEFINE Good == {n \in 0..N : g[n] \in V}
<1>10. \A n \in 0..N : n \in Good
  <2>1. 0 \in Good
    BY <1>1, <1>2, <1>9
  <2>2. \A n \in 1..N : n - 1 \in Good => n \in Good
    BY <1>1, <1>3, <1>9
  <2> HIDE DEF Good
  <2> QED  BY <1>1, <2>1, <2>2, CountingUp
<1>11. \A n \in 0..N : g[n] \in V
  BY <1>10
<1>12. g[0] = b
  BY <1>1, <1>9
<1>13. ASSUME NEW n \in 1..N PROVE StyleTook(g[n - 1], g[n], urls[n])
  <2>1. n - 1 \in 0..N /\ n \in 0..N /\ n # 0
    BY <1>1
  <2> QED  BY <1>3, <1>9, <1>11, <2>1
<1> QED  BY <1>4, <1>11, <1>12, <1>13 DEF V, b, N

\* What a style as a whole does.
RewriteTook(p, q, urls) ==
    /\ Sound(q) /\ Grows(p, q) /\ q.inlined \subseteq p.inlined \cup ToSet(urls)
    /\ p.count <= MaxSubresources => q.count <= MaxSubresources
    /\ \A v \in ToSet(q.missing) : v \in ToSet(p.missing) \/ ~Cached(v)
    /\ \A u \in StyleNeeds(q, urls) : Settled(q, u)

LEMMA RewriteCssUrlsIs ==
    ASSUME IndexSound, NEW p, Sound(p), NEW urls \in Seq(References)
    PROVE  RewriteTook(p, RewriteCssUrls(p, urls), urls)
<1>1. PICK g : /\ g[0] = StyleStarts(p) /\ RewriteCssUrls(p, urls) = g[Len(urls)].page
               /\ \A n \in 0..Len(urls) : g[n] \in StyleStates /\ Sound(g[n].page)
               /\ \A n \in 1..Len(urls) : StyleTook(g[n - 1], g[n], urls[n])
  BY StyleSteps
<1>2. PICK N \in Nat : N = Len(urls) /\ DOMAIN urls = 1..N
  OBVIOUS
<1> DEFINE q == g[N].page
           Fitting(n) == {m \in 1..n : urls[m] \in g[n].page.inlined}
<1>3. \A n \in 0..N : g[n].page \in PagesOver /\ g[n].rewrites \in Nat
  BY <1>1, <1>2 DEF StyleStates
<1>4. g[0].page = p /\ g[0].rewrites = 0
  BY <1>1 DEF StyleStarts
<1>5. \A n \in 1..N : n - 1 \in 0..N /\ n \in 0..N /\ StyleTook(g[n - 1], g[n], urls[n])
  BY <1>1, <1>2
<1>6. \A n \in 0..N : IsFiniteSet(Fitting(n)) /\ Cardinality(Fitting(n)) \in Nat
  <2> SUFFICES ASSUME NEW n \in 0..N PROVE IsFiniteSet(Fitting(n)) /\ Cardinality(Fitting(n)) \in Nat
    OBVIOUS
  <2>1. IsFiniteSet(1..n)
    BY FS_Interval
  <2>2. Fitting(n) \subseteq 1..n
    OBVIOUS
  <2> HIDE DEF Fitting
  <2> QED  BY <2>1, <2>2, FS_Subset, FS_CardinalityType
<1> DEFINE Good == {n \in 0..N :
               /\ Grows(p, g[n].page)
               /\ g[n].page.inlined \subseteq p.inlined \cup {urls[m] : m \in 1..n}
               /\ p.count <= MaxSubresources => g[n].page.count <= MaxSubresources
               /\ \A v \in ToSet(g[n].page.missing) : v \in ToSet(p.missing) \/ ~Cached(v)
               /\ g[n].rewrites <= Cardinality(Fitting(n))
               /\ \/ g[n].rewrites >= MaxCssUrls
                  \/ \A m \in 1..n : Settled(g[n].page, urls[m])}
<1>7. 0 \in Good
  <2>1. Grows(p, p)
    BY <1>3, <1>4, GrowsNot
  <2> HIDE DEF Fitting
  <2>2. g[0].rewrites <= Cardinality(Fitting(0))
    <3>1. 0 \in 0..N
      OBVIOUS
    <3> QED  BY <1>4, <1>6, <3>1
  <2> QED  BY <1>4, <2>1, <2>2
<1>8. ASSUME NEW n \in 1..N, n - 1 \in Good PROVE n \in Good
  <2> DEFINE s == g[n - 1]
             t == g[n]
  <2>1. /\ StyleTook(s, t, urls[n]) /\ n \in 0..N /\ n - 1 \in 0..N
        /\ s.page \in PagesOver /\ t.page \in PagesOver /\ p \in PagesOver
        /\ s.rewrites \in Nat /\ t.rewrites \in Nat
    BY <1>3, <1>5, <1>4
  <2>2. \A m \in 1..n : m \in 1..(n - 1) \/ m = n
    OBVIOUS
  <2>3. \A m \in 1..(n - 1) : m \in 1..n
    OBVIOUS
  <2>4. Grows(s.page, t.page)
    BY <2>1 DEF StyleTook
  <2>5. Grows(p, t.page)
    <3>1. Grows(p, s.page)
      BY <1>8
    <3> HIDE DEF s, t
    <3> QED  BY <2>1, <2>4, <3>1, GrowsOn
  <2>6. t.page.inlined \subseteq p.inlined \cup {urls[m] : m \in 1..n}
    <3>1. s.page.inlined \subseteq p.inlined \cup {urls[m] : m \in 1..(n - 1)}
      BY <1>8
    <3>2. t.page.inlined \subseteq s.page.inlined \cup {urls[n]}
      BY <2>1 DEF StyleTook
    <3>3. n \in 1..n
      OBVIOUS
    <3> HIDE DEF s, t
    <3> QED  BY <2>3, <3>1, <3>2, <3>3
  <2>7. p.count <= MaxSubresources => t.page.count <= MaxSubresources
    BY <1>8, <2>1 DEF StyleTook
  <2>8. \A v \in ToSet(t.page.missing) : v \in ToSet(p.missing) \/ ~Cached(v)
    BY <1>8, <2>1 DEF StyleTook
  <2>9. t.rewrites <= Cardinality(Fitting(n))
    <3>1. Fitting(n - 1) \subseteq Fitting(n)
      BY <2>3, <2>4 DEF Grows
    <3>2. IsFiniteSet(Fitting(n - 1)) /\ IsFiniteSet(Fitting(n))
          /\ Cardinality(Fitting(n - 1)) \in Nat /\ Cardinality(Fitting(n)) \in Nat
      BY <1>6, <2>1
    <3>3. s.rewrites <= Cardinality(Fitting(n - 1))
      BY <1>8
    <3>4. CASE t.rewrites = s.rewrites
      <4>1. Cardinality(Fitting(n - 1)) <= Cardinality(Fitting(n))
        BY <3>1, <3>2, FS_Subset
      <4> QED  BY <2>1, <3>2, <3>3, <3>4, <4>1
    <3>5. CASE t.rewrites = s.rewrites + 1 /\ urls[n] \in t.page.inlined
      <4>1. n \in Fitting(n) /\ n \notin Fitting(n - 1)
        BY <3>5
      <4>2. Fitting(n - 1) \subseteq Fitting(n) \ {n}
        BY <3>1, <4>1
      <4> HIDE DEF Fitting
      <4>3. IsFiniteSet(Fitting(n) \ {n}) /\ Cardinality(Fitting(n) \ {n}) = Cardinality(Fitting(n)) - 1
        BY <3>2, <4>1, FS_RemoveElement
      <4>4. Cardinality(Fitting(n - 1)) <= Cardinality(Fitting(n)) - 1
        BY <4>2, <4>3, FS_Subset
      <4> QED  BY <2>1, <3>2, <3>3, <3>5, <4>4
    <3> QED  BY <2>1, <3>4, <3>5 DEF StyleTook
  <2>10. \/ t.rewrites >= MaxCssUrls
         \/ \A m \in 1..n : Settled(t.page, urls[m])
    <3>1. s.rewrites <= t.rewrites
      BY <2>1 DEF StyleTook
    <3>2. CASE s.rewrites >= MaxCssUrls
      BY <2>1, <3>1, <3>2, Limits
    <3>3. CASE ~(s.rewrites >= MaxCssUrls)
      <4>1. Settled(t.page, urls[n])
        BY <2>1, <3>3, Limits DEF StyleTook
      <4>2. \A m \in 1..(n - 1) : Settled(s.page, urls[m])
        BY <1>8, <3>3
      <4> HIDE DEF s, t
      <4>3. \A m \in 1..(n - 1) : Settled(t.page, urls[m])
        BY <2>1, <2>4, <4>2, SettledStays
      <4> QED  BY <2>2, <4>1, <4>3
    <3> QED  BY <3>2, <3>3
  <2> HIDE DEF Fitting
  <2> QED  BY <2>1, <2>5, <2>6, <2>7, <2>8, <2>9, <2>10
<1>9. N \in Good
  <2> HIDE DEF Good
  <2>1. \A n \in 0..N : n \in Good
    BY <1>7, <1>8, CountingUp
  <2> QED  BY <2>1
<1>10. N \in 0..N /\ Sound(q)
  BY <1>1, <1>2
<1>11. ToSet(urls) = {urls[m] : m \in 1..N}
  BY <1>2 DEF ToSet
<1>12. ASSUME NEW u \in StyleNeeds(q, urls) PROVE Settled(q, u)
  <2>1. ~(Cardinality({n \in DOMAIN urls : urls[n] \in q.inlined}) >= MaxCssUrls)
        /\ u \in ToSet(urls)
    BY DEF StyleNeeds
  <2>2. {n \in DOMAIN urls : urls[n] \in q.inlined} = Fitting(N)
    BY <1>2
  <2>3. g[N].rewrites <= Cardinality(Fitting(N)) /\ Cardinality(Fitting(N)) \in Nat
        /\ g[N].rewrites \in Nat
    BY <1>3, <1>6, <1>9, <1>10
  <2>4. ~(Cardinality(Fitting(N)) >= MaxCssUrls)
    BY <2>1, <2>2
  <2> HIDE DEF Fitting
  <2>5. ~(g[N].rewrites >= MaxCssUrls)
    BY <2>3, <2>4, Limits
  <2>6. \A m \in 1..N : Settled(q, urls[m])
    BY <1>9, <2>5
  <2> QED  BY <1>11, <2>1, <2>6
<1>13. RewriteTook(p, q, urls)
  BY <1>9, <1>10, <1>11, <1>12 DEF RewriteTook
<1> QED  BY <1>1, <1>2, <1>13

LEMMA SrcsetIs ==
    ASSUME IndexSound, NEW p, Sound(p), NEW urls \in Seq(References)
    PROVE  /\ Sound(RewriteSrcset(p, urls)) /\ Grows(p, RewriteSrcset(p, urls))
           /\ RewriteSrcset(p, urls).inlined \subseteq p.inlined \cup ToSet(urls)
           /\ \A u \in ToSet(urls) : u \in RewriteSrcset(p, urls).seen \cup {NoAddress, Embedded}
<1> DEFINE N == Len(urls)
           V == {x \in PagesOver : Sound(x)}
           Step(n, x) == InlineSrc(x, urls[n])
           G == [n \in 1..N |-> [x \in V |-> Step(n, x)]]
           D(f) == [n \in 0..N |-> IF n = 0 THEN p ELSE Step(n, f[n - 1])]
           g == CHOOSE f : f = D(f)
<1>1. N \in Nat /\ (\A n \in 1..N : urls[n] \in References) /\ ToSet(urls) = {urls[n] : n \in 1..N}
  BY DEF ToSet
<1>2. p \in V
  BY DEF Sound
<1>3. \A n \in 1..N : \A x \in V : Step(n, x) \in V /\ Took(x, Step(n, x), urls[n])
  <2> SUFFICES ASSUME NEW n \in 1..N, NEW x \in V
               PROVE  Step(n, x) \in V /\ Took(x, Step(n, x), urls[n])
    OBVIOUS
  <2>1. Took(x, InlineSrc(x, urls[n]), urls[n])
    BY <1>1, InlineSrcIs
  <2> QED  BY <2>1 DEF Took, Sound
<1>4. RewriteSrcset(p, urls) = g[N]
  BY DEF RewriteSrcset
<1> HIDE DEF V, Step, N
<1>5. AreSteps(G, N, V)
  BY <1>3 DEF AreSteps
<1>6. PICK f : f \in [0..N -> V] /\ f[0] = p /\ \A n \in 1..N : f[n] = G[n][f[n - 1]]
  <2> HIDE DEF G
  <2>1. \E f : IsBuilt(f, p, G, N, V)
    BY <1>1, <1>2, <1>5, BuiltUp
  <2> QED  BY <2>1 DEF IsBuilt
<1>7. f = D(f)
  <2>1. ASSUME NEW n \in 0..N PROVE f[n] = IF n = 0 THEN p ELSE Step(n, f[n - 1])
    <3>1. CASE n = 0
      BY <1>6, <3>1
    <3>2. CASE n # 0
      <4>1. n \in 1..N /\ n - 1 \in 0..N
        BY <1>1, <3>2
      <4> QED  BY <1>6, <3>2, <4>1
    <3> QED  BY <3>1, <3>2
  <2>2. f = [n \in 0..N |-> f[n]]
    BY <1>6
  <2> QED  BY <2>1, <2>2
<1>8. g = D(g)
  <2> HIDE DEF D
  <2> QED  BY <1>7
<1>9. \A n \in 0..N : g[n] = IF n = 0 THEN p ELSE Step(n, g[n - 1])
  <2> SUFFICES ASSUME NEW n \in 0..N PROVE g[n] = IF n = 0 THEN p ELSE Step(n, g[n - 1])
    OBVIOUS
  <2> HIDE DEF g
  <2>1. g[n] = D(g)[n]
    BY <1>8
  <2> QED  BY <2>1
<1> HIDE DEF g
<1> DEFINE Done(n) == /\ g[n] \in V /\ Grows(p, g[n])
                      /\ g[n].inlined \subseteq p.inlined \cup {urls[m] : m \in 1..n}
                      /\ \A m \in 1..n : urls[m] \in g[n].seen \cup {NoAddress, Embedded}
           Good == {n \in 0..N : Done(n)}
<1>10. 0 \in Good
  <2>1. g[0] = p
    BY <1>1, <1>9
  <2>2. Grows(p, p)
    BY <1>2, GrowsNot DEF V
  <2> QED  BY <1>1, <1>2, <2>1, <2>2
<1>11. ASSUME NEW n \in 1..N, n - 1 \in Good PROVE n \in Good
  <2>1. n \in 0..N /\ n # 0 /\ n - 1 \in 0..N
    BY <1>1
  <2>2. PICK x, y : x = g[n - 1] /\ y = g[n]
    OBVIOUS
  <2>3. x \in V /\ Grows(p, x) /\ x.inlined \subseteq p.inlined \cup {urls[m] : m \in 1..(n - 1)}
        /\ \A m \in 1..(n - 1) : urls[m] \in x.seen \cup {NoAddress, Embedded}
    BY <1>11, <2>2
  <2>4. y \in V /\ Took(x, y, urls[n])
    BY <1>3, <1>9, <2>1, <2>2, <2>3
  <2>5. Grows(x, y) /\ x \in PagesOver /\ y \in PagesOver /\ p \in PagesOver
        /\ y.inlined \subseteq x.inlined \cup {urls[n]}
        /\ urls[n] \in y.seen \cup {NoAddress, Embedded}
    BY <1>2, <2>3, <2>4 DEF V, Took
  <2>6. Grows(p, y)
    BY <2>3, <2>5, GrowsOn
  <2>7. n \in 1..n /\ \A m \in 1..n : m \in 1..(n - 1) \/ m = n
    OBVIOUS
  <2>8. \A m \in 1..(n - 1) : m \in 1..n
    OBVIOUS
  <2>9. y.inlined \subseteq p.inlined \cup {urls[m] : m \in 1..n}
    BY <2>3, <2>5, <2>7, <2>8
  <2>10. \A m \in 1..n : urls[m] \in y.seen \cup {NoAddress, Embedded}
    BY <2>3, <2>5, <2>7 DEF Grows
  <2>11. Done(n)
    BY <2>2, <2>4, <2>6, <2>9, <2>10
  <2> HIDE DEF Done
  <2> QED  BY <2>1, <2>11
<1>12. N \in Good
  <2> HIDE DEF Good
  <2>1. \A n \in 0..N : n \in Good
    BY <1>1, <1>10, <1>11, CountingUp
  <2> QED  BY <1>1, <2>1
<1> QED  BY <1>1, <1>4, <1>12 DEF V

LEMMA NeedsShrink ==
    ASSUME NEW p \in PagesOver, NEW q \in PagesOver, Grows(p, q), NEW urls \in Seq(References)
    PROVE  StyleNeeds(q, urls) \subseteq StyleNeeds(p, urls)
<1> DEFINE Fitting(r) == {n \in DOMAIN urls : urls[n] \in r.inlined}
<1>1. Fitting(p) \subseteq Fitting(q)
  BY DEF Grows
<1>2. IsFiniteSet(DOMAIN urls)
  <2>1. PICK N \in Nat : DOMAIN urls = 1..N
    OBVIOUS
  <2> QED  BY <2>1, FS_Interval
<1>3. Fitting(p) \subseteq DOMAIN urls /\ Fitting(q) \subseteq DOMAIN urls
  OBVIOUS
<1>4. Cardinality(Fitting(p)) <= Cardinality(Fitting(q))
      /\ Cardinality(Fitting(p)) \in Nat /\ Cardinality(Fitting(q)) \in Nat
  <2> HIDE DEF Fitting
  <2> QED  BY <1>1, <1>2, <1>3, FS_Subset, FS_CardinalityType
<1>5. \A r : StyleNeeds(r, urls) = IF Cardinality(Fitting(r)) >= MaxCssUrls THEN {} ELSE ToSet(urls)
  BY DEF StyleNeeds
<1> HIDE DEF Fitting
<1> QED  BY <1>4, <1>5, Limits

StyleDone(p, urls) == \A u \in StyleNeeds(p, urls) : Settled(p, u)
SheetDone(p, u) == Cached(u) /\ StyleDone(p, index.byUrl[u].urls)

LEMMA StyleDoneStays ==
    ASSUME IndexSound, NEW p \in PagesOver, NEW q \in PagesOver, Grows(p, q),
           NEW urls \in Seq(References), StyleDone(p, urls)
    PROVE  StyleDone(q, urls)
<1> SUFFICES ASSUME NEW u \in StyleNeeds(q, urls) PROVE Settled(q, u)
  BY DEF StyleDone
<1>1. u \in StyleNeeds(p, urls)
  BY NeedsShrink
<1>2. Settled(p, u)
  BY <1>1 DEF StyleDone
<1> QED  BY <1>2, SettledStays

LEMMA SheetDoneStays ==
    ASSUME IndexSound, NEW p \in PagesOver, NEW q \in PagesOver, Grows(p, q),
           NEW u, SheetDone(p, u)
    PROVE  SheetDone(q, u)
<1>1. Cached(u) /\ StyleDone(p, index.byUrl[u].urls)
  BY DEF SheetDone
<1>2. index.byUrl[u].urls \in Seq(References)
  BY <1>1, CachedIs, ResourceIs
<1> QED  BY <1>1, <1>2, StyleDoneStays DEF SheetDone

\* What a link to a stylesheet does.
SheetTook(p, q, u) ==
    /\ Sound(q) /\ Grows(p, q) /\ u \in q.seen \cup {NoAddress}
    /\ \/ q.inlined = p.inlined
       \/ /\ SheetDone(q, u)
          /\ q.inlined \subseteq p.inlined \cup {u} \cup ToSet(index.byUrl[u].urls)

LEMMA InlineStylesheetIs ==
    ASSUME IndexSound, NEW p, Sound(p), NEW u \in References
    PROVE  SheetTook(p, InlineStylesheet(p, u), u)
<1>0. p \in PagesOver
  BY DEF Sound
<1>1. CASE ~Fits(p, u)
  <2> DEFINE q == RecordMissing(p, u)
  <2>1. Sound(q) /\ Grows(p, q) /\ q.inlined = p.inlined /\ u \in q.seen \cup {NoAddress}
    BY <1>1, RecordMissingIs
  <2>2. InlineStylesheet(p, u) = q
    BY <1>1 DEF InlineStylesheet
  <2> HIDE DEF q
  <2> QED  BY <2>1, <2>2 DEF SheetTook
<1>2. CASE Fits(p, u)
  <2> DEFINE urls == index.byUrl[u].urls
             w == RewriteCssUrls(p, urls)
             len == index.byUrl[u].len + w.emitted - p.emitted
             q == Inline(w, u, len)
  <2>1. /\ index.byUrl[u].len \in Nat /\ u \notin ToSet(p.missing) /\ p.count \in Nat
        /\ p.count < MaxSubresources /\ Cached(u) /\ index.byUrl[u] \in Resources
    BY <1>2, FitIs
  <2>2. urls \in Seq(References)
    BY <2>1, ResourceIs
  <2>3. InlineStylesheet(p, u) = q
    BY <1>2 DEF InlineStylesheet
  <2> HIDE DEF urls
  <2>4. RewriteTook(p, w, urls)
    BY <2>2, RewriteCssUrlsIs
  <2> HIDE DEF w
  <2>5. /\ Sound(w) /\ Grows(p, w) /\ w.inlined \subseteq p.inlined \cup ToSet(urls)
        /\ u \notin ToSet(w.missing) /\ StyleDone(w, urls)
    BY <2>1, <2>4 DEF RewriteTook, StyleDone
  <2>6. w.count <= MaxSubresources
    BY <2>1, <2>4, Limits DEF RewriteTook
  <2>7. w \in PagesOver
    BY <2>5 DEF Sound
  <2>8. len \in Nat
    <3>1. p.emitted \in Nat /\ w.emitted \in Nat /\ p.emitted <= w.emitted
      BY <1>0, <2>5, <2>7 DEF PagesOver, Grows
    <3> QED  BY <2>1, <3>1
  <2> HIDE DEF len
  <2>9. Sound(q) /\ Grows(w, q) /\ q.inlined = w.inlined \cup {u} /\ u \in q.seen
    BY <2>5, <2>6, <2>8, InlineIs
  <2> HIDE DEF q
  <2>10. q \in PagesOver
    BY <2>9 DEF Sound
  <2>11. Grows(p, q)
    BY <1>0, <2>5, <2>7, <2>9, <2>10, GrowsOn
  <2>12. StyleDone(q, urls)
    BY <2>2, <2>5, <2>7, <2>9, <2>10, StyleDoneStays
  <2>13. SheetDone(q, u)
    BY <2>1, <2>12 DEF SheetDone, urls
  <2>14. q.inlined \subseteq p.inlined \cup {u} \cup ToSet(index.byUrl[u].urls)
    BY <2>5, <2>9 DEF urls
  <2> QED  BY <2>3, <2>9, <2>11, <2>13, <2>14 DEF SheetTook
<1> QED  BY <1>1, <1>2

IsElement(e) == e.is \in ElementKinds /\ e.url \in References /\ e.urls \in Seq(References)

\* What an element leads to is in the manifest once it is handled.
ElementDone(p, e) ==
    IF e.is = "style" THEN StyleDone(p, e.urls)
    ELSE \A u \in Reached(e) : u \in p.seen \cup {NoAddress, Embedded}

Handled(p, q, e) ==
    /\ Sound(q) /\ Grows(p, q) /\ ElementDone(q, e)
    /\ \A u \in q.inlined : u \in p.inlined \/ SheetDone(q, u) \/ IsOther(u, e)

LEMMA HandleIs ==
    ASSUME IndexSound, NEW p, Sound(p), NEW e, IsElement(e)
    PROVE  Handled(p, Handle(p, e), e)
<1>0. e.url \in References /\ e.urls \in Seq(References) /\ p \in PagesOver
      /\ e.is \in {"stylesheet", "icon", "script", "media", "style"}
  BY DEF IsElement, ElementKinds, Sound
<1>1. CASE e.is = "stylesheet"
  <2> DEFINE q == InlineStylesheet(p, e.url)
  <2>1. Handle(p, e) = q /\ Reached(e) = {e.url}
    BY <1>1 DEF Handle, Reached
  <2>2. SheetTook(p, q, e.url)
    BY <1>0, InlineStylesheetIs
  <2> HIDE DEF q
  <2>3. ElementDone(q, e)
    BY <1>1, <2>1, <2>2 DEF ElementDone, SheetTook
  <2>4. ASSUME NEW u \in q.inlined PROVE u \in p.inlined \/ SheetDone(q, u) \/ IsOther(u, e)
    <3>1. CASE q.inlined = p.inlined
      BY <3>1
    <3>2. CASE /\ SheetDone(q, e.url)
               /\ q.inlined \subseteq p.inlined \cup {e.url} \cup ToSet(index.byUrl[e.url].urls)
      <4>1. CASE u = e.url
        BY <3>2, <4>1
      <4>2. CASE u # e.url /\ u \in ToSet(index.byUrl[e.url].urls)
        BY <1>1, <3>2, <4>2 DEF IsOther, SheetDone
      <4> QED  BY <3>2, <4>1, <4>2
    <3> QED  BY <2>2, <3>1, <3>2 DEF SheetTook
  <2> QED  BY <2>1, <2>2, <2>3, <2>4 DEF Handled, SheetTook
<1>2. ASSUME NEW q, Handle(p, e) = q, Took(p, q, e.url), Reached(e) = {e.url},
             e.is # "stylesheet", e.is # "style"
      PROVE  Handled(p, q, e)
  <2>1. ElementDone(q, e)
    BY <1>2 DEF ElementDone, Took
  <2>2. \A u \in q.inlined : u \in p.inlined \/ IsOther(u, e)
    BY <1>2 DEF IsOther, Took
  <2> QED  BY <1>2, <2>1, <2>2 DEF Handled, Took
<1>3. CASE e.is = "icon"
  <2>1. Handle(p, e) = InlineOrMark(p, e.url) /\ Reached(e) = {e.url}
    BY <1>3 DEF Handle, Reached
  <2>2. Took(p, InlineOrMark(p, e.url), e.url)
    BY <1>0, InlineOrMarkIs
  <2> QED  BY <1>2, <1>3, <2>1, <2>2
<1>4. CASE e.is = "script"
  <2>1. Handle(p, e) = InlineSrc(p, e.url) /\ Reached(e) = {e.url}
    BY <1>4 DEF Handle, Reached
  <2>2. Took(p, InlineSrc(p, e.url), e.url)
    BY <1>0, InlineSrcIs
  <2> QED  BY <1>2, <1>4, <2>1, <2>2
<1>5. CASE e.is = "media"
  <2> DEFINE m == InlineSrc(p, e.url)
             q == RewriteSrcset(m, e.urls)
  <2>1. Handle(p, e) = q /\ Reached(e) = {e.url} \cup ToSet(e.urls)
    BY <1>5 DEF Handle, Reached
  <2>2. Took(p, m, e.url)
    BY <1>0, InlineSrcIs
  <2> HIDE DEF m
  <2>3. Sound(m) /\ Grows(p, m) /\ m.inlined \subseteq p.inlined \cup {e.url}
        /\ e.url \in m.seen \cup {NoAddress, Embedded}
    BY <2>2 DEF Took
  <2>4. /\ Sound(q) /\ Grows(m, q) /\ q.inlined \subseteq m.inlined \cup ToSet(e.urls)
        /\ \A u \in ToSet(e.urls) : u \in q.seen \cup {NoAddress, Embedded}
    BY <1>0, <2>3, SrcsetIs
  <2> HIDE DEF q
  <2>5. m \in PagesOver /\ q \in PagesOver
    BY <2>3, <2>4 DEF Sound
  <2>6. Grows(p, q)
    BY <1>0, <2>3, <2>4, <2>5, GrowsOn
  <2>7. e.url \in q.seen \cup {NoAddress, Embedded}
    BY <2>3, <2>4 DEF Grows
  <2>8. ElementDone(q, e)
    BY <1>5, <2>1, <2>4, <2>7 DEF ElementDone
  <2>9. \A u \in q.inlined : u \in p.inlined \/ IsOther(u, e)
    BY <1>5, <2>1, <2>3, <2>4 DEF IsOther
  <2> QED  BY <2>1, <2>4, <2>6, <2>8, <2>9 DEF Handled
<1>6. CASE e.is = "style"
  <2> DEFINE q == RewriteCssUrls(p, e.urls)
  <2>1. Handle(p, e) = q /\ Reached(e) = ToSet(e.urls)
    BY <1>6 DEF Handle, Reached
  <2>2. RewriteTook(p, q, e.urls)
    BY <1>0, RewriteCssUrlsIs
  <2> HIDE DEF q
  <2>3. ElementDone(q, e)
    BY <1>6, <2>2 DEF ElementDone, RewriteTook, StyleDone
  <2>4. \A u \in q.inlined : u \in p.inlined \/ IsOther(u, e)
    BY <1>6, <2>1, <2>2 DEF IsOther, RewriteTook
  <2> QED  BY <2>1, <2>2, <2>3, <2>4 DEF Handled, RewriteTook
<1> QED  BY <1>0, <1>1, <1>3, <1>4, <1>5, <1>6

\* What the elements that are handled lead to.
DoneSound(p, done) ==
    /\ \A n \in DOMAIN done : ElementDone(p, done[n])
    /\ \A u \in p.inlined : SheetDone(p, u) \/ IsMoreThanASheet(u, done)

LEMMA DoneGrows ==
    ASSUME IndexSound, NEW p, Sound(p), NEW q, NEW done, DoneSound(p, done),
           \A n \in DOMAIN done : IsElement(done[n]),
           NEW more, NEW k \in DOMAIN more, DOMAIN done = DOMAIN more \ {k},
           \A n \in DOMAIN done : more[n] = done[n], Handled(p, q, more[k])
    PROVE  DoneSound(q, more)
<1>0. p \in PagesOver /\ q \in PagesOver /\ Grows(p, q)
  BY DEF Sound, Handled
<1>1. ASSUME NEW n \in DOMAIN more PROVE ElementDone(q, more[n])
  <2>1. CASE n = k
    BY <2>1 DEF Handled
  <2>2. CASE n # k
    <3>1. ElementDone(p, done[n]) /\ more[n] = done[n] /\ done[n].urls \in Seq(References)
      BY <2>2 DEF DoneSound, IsElement
    <3>2. CASE done[n].is = "style"
      BY <1>0, <3>1, <3>2, StyleDoneStays DEF ElementDone
    <3>3. CASE done[n].is # "style"
      BY <1>0, <3>1, <3>3 DEF ElementDone, Grows
    <3> QED  BY <3>2, <3>3
  <2> QED  BY <2>1, <2>2
<1>2. ASSUME NEW u \in q.inlined PROVE SheetDone(q, u) \/ IsMoreThanASheet(u, more)
  <2>1. CASE u \in p.inlined
    <3>1. CASE SheetDone(p, u)
      BY <1>0, <3>1, SheetDoneStays
    <3>2. CASE IsMoreThanASheet(u, done)
      <4>1. PICK n \in DOMAIN done : IsOther(u, done[n])
        BY <3>2 DEF IsMoreThanASheet
      <4>2. n \in DOMAIN more /\ more[n] = done[n]
        OBVIOUS
      <4> QED  BY <4>1, <4>2 DEF IsMoreThanASheet
    <3> QED  BY <2>1, <3>1, <3>2 DEF DoneSound
  <2>2. CASE u \notin p.inlined
    BY <2>2 DEF Handled, IsMoreThanASheet
  <2> QED  BY <2>1, <2>2
<1> QED  BY <1>1, <1>2 DEF DoneSound

LEMMA DoneIsAccounted ==
    ASSUME NEW p, NEW done, DoneSound(p, done), \A n \in DOMAIN done : IsElement(done[n])
    PROVE  \A u \in NeededBy(p, done) \ p.seen : Cached(u) /\ ~Fits(p, u)
<1> SUFFICES ASSUME NEW u \in NeededBy(p, done), u \notin p.seen
             PROVE  Cached(u) /\ ~Fits(p, u)
  OBVIOUS
<1>1. PICK n \in DOMAIN done : u \in Needs(p, done[n], done)
  BY DEF NeededBy
<1>2. u \notin {Embedded, NoAddress}
  BY DEF NeededBy
<1> DEFINE e == done[n]
<1>3. ElementDone(p, e) /\ e.is \in {"stylesheet", "icon", "script", "media", "style"}
  BY DEF DoneSound, IsElement, ElementKinds
<1>4. Settled(p, u) => Cached(u) /\ ~Fits(p, u)
  BY <1>2 DEF Settled
<1>5. CASE e.is = "style"
  <2>1. u \in StyleNeeds(p, e.urls)
    BY <1>1, <1>5 DEF Needs
  <2> QED  BY <1>3, <1>4, <1>5, <2>1 DEF ElementDone, StyleDone
<1>6. CASE e.is # "style"
  <2>1. u \notin Reached(e)
    BY <1>2, <1>3, <1>6 DEF ElementDone
  <2>2. CASE e.is = "stylesheet" /\ e.url \in p.inlined /\ ~IsMoreThanASheet(e.url, done)
    <3>1. Reached(e) = {e.url}
      BY <2>2 DEF Reached
    <3>2. u \in StyleNeeds(p, index.byUrl[e.url].urls)
      BY <1>1, <2>1, <2>2, <3>1 DEF Needs
    <3>3. SheetDone(p, e.url)
      BY <2>2 DEF DoneSound
    <3> QED  BY <1>4, <3>2, <3>3 DEF SheetDone, StyleDone
  <2>3. CASE ~(e.is = "stylesheet" /\ e.url \in p.inlined /\ ~IsMoreThanASheet(e.url, done))
    <3>1. Needs(p, e, done) = Reached(e)
      BY <1>6, <2>3 DEF Needs
    <3> QED  BY <1>1, <2>1, <3>1
  <2> QED  BY <2>2, <2>3
<1> QED  BY <1>5, <1>6

-----------------------------------------------------------------------------
(* The index of what the caches hold. *)

Indexes ==
    {idx \in [order: Seq(References), byUrl: UNION {[S -> Resources] : S \in SUBSET References}] :
        IsIndex(idx)}

LEMMA EmptyIs == EmptyIndex \in Indexes
<1>1. <<>> \in Seq(References) /\ <<>> \in [{} -> Resources] /\ DOMAIN <<>> = {}
  OBVIOUS
<1>2. ToSet(<<>>) = {}
  BY DEF ToSet
<1>3. [{} -> Resources] \in {[S -> Resources] : S \in SUBSET References}
  OBVIOUS
<1>4. <<>> \in UNION {[S -> Resources] : S \in SUBSET References}
  BY <1>1, <1>3
<1>5. PICK e : e = <<>>
  OBVIOUS
<1>6. /\ e \in Seq(References) /\ DOMAIN e = {} /\ ToSet(e) = {}
      /\ e \in UNION {[S -> Resources] : S \in SUBSET References}
  BY <1>1, <1>2, <1>4, <1>5
<1>7. EmptyIndex = [order |-> e, byUrl |-> e]
  BY <1>5 DEF EmptyIndex
<1> QED  BY <1>6, <1>7 DEF Indexes, IsIndex

LEMMA InsertIs ==
    ASSUME NEW idx \in Indexes, NEW res \in Resources
    PROVE  Insert(idx, res) \in Indexes
<1> DEFINE u == res.url
           m == With(idx.byUrl, u, res)
           o == IF u \in DOMAIN idx.byUrl THEN idx.order ELSE Append(idx.order, u)
           S == DOMAIN idx.byUrl \cup {u}
<1>0. u \in References
  BY ResourceIs
<1>1. /\ idx.order \in Seq(References) /\ ToSet(idx.order) = DOMAIN idx.byUrl
      /\ \A v \in DOMAIN idx.byUrl : v \in References /\ idx.byUrl[v] \in Resources
  BY DEF Indexes, IsIndex
<1>2. m = [k \in S |-> IF k = u THEN res ELSE idx.byUrl[k]]
  BY DEF With
<1> HIDE DEF u
<1>3. /\ S \in SUBSET References /\ m \in [S -> Resources] /\ DOMAIN m = S
      /\ \A v \in S : m[v] \in Resources
  <2> HIDE DEF m
  <2>1. \A k \in S : (IF k = u THEN res ELSE idx.byUrl[k]) \in Resources
    BY <1>1
  <2>2. S \in SUBSET References
    BY <1>0, <1>1
  <2> HIDE DEF S
  <2> QED  BY <1>2, <2>1, <2>2
<1>4. o \in Seq(References) /\ ToSet(o) = S
  <2>1. CASE u \in DOMAIN idx.byUrl
    BY <1>1, <2>1
  <2>2. CASE u \notin DOMAIN idx.byUrl
    <3>1. idx.order \o <<u>> = Append(idx.order, u)
      BY <1>0, <1>1
    <3>2. IsList(idx.order) /\ IsList(<<u>>) /\ ToSet(<<u>>) = {u}
      <4>1. <<u>> \in Seq(References) /\ DOMAIN <<u>> = {1} /\ <<u>>[1] = u
        BY <1>0
      <4>2. IsList(idx.order) /\ IsList(<<u>>)
        BY <1>1, <4>1, SeqIsList
      <4> QED  BY <4>1, <4>2 DEF ToSet
    <3>3. ToSet(idx.order \o <<u>>) = ToSet(idx.order) \cup {u}
      BY <3>2, ConcatList
    <3>4. o = Append(idx.order, u)
      BY <2>2
    <3>5. Append(idx.order, u) \in Seq(References)
      BY <1>0, <1>1
    <3>6. ToSet(Append(idx.order, u)) = S
      BY <1>1, <3>1, <3>3
    <3> HIDE DEF o, S
    <3> QED  BY <3>4, <3>5, <3>6
  <2> QED  BY <2>1, <2>2
<1>5. [S -> Resources] \in {[R -> Resources] : R \in SUBSET References}
  BY <1>3
<1> HIDE DEF m, o, S
<1>6. m \in UNION {[R -> Resources] : R \in SUBSET References}
  BY <1>3, <1>5
<1>7. Insert(idx, res) = [order |-> o, byUrl |-> m]
  BY DEF Insert, o, m, u
<1>8. PICK j : j = Insert(idx, res)
  OBVIOUS
<1>9. j.order = o /\ j.byUrl = m
      /\ j \in [order: Seq(References), byUrl: UNION {[R -> Resources] : R \in SUBSET References}]
  BY <1>4, <1>6, <1>7, <1>8
<1>10. IsIndex(j)
  BY <1>3, <1>4, <1>9 DEF IsIndex
<1> QED  BY <1>8, <1>9, <1>10 DEF Indexes

LEMMA HeldAre ==
    ASSUME NEW caches \in CachesGiven \cup {NoCaches}, NEW b \in ToSet(Backends)
    PROVE  IsList(caches.held[b]) /\ ToSet(caches.held[b]) \subseteq Resources
<1>1. caches.held[b] \in Seq(HeldIn(caches))
  <2>1. CASE caches \in CachesGiven
    BY <2>1, PagesAssumption
  <2>2. CASE caches = NoCaches
    <3>1. caches.held[b] = <<>>
      BY <2>2 DEF NoCaches
    <3> QED  BY <3>1
  <2> QED  BY <2>1, <2>2
<1>2. HeldIn(caches) \subseteq Resources
  BY DEF Resources
<1> QED  BY <1>1, <1>2, SeqIsList

LEMMA FromCacheDirIs ==
    ASSUME NEW caches \in CachesGiven \cup {NoCaches}
    PROVE  FromCacheDir(caches) \in Indexes
<1> DEFINE tried == IF caches.isFile THEN <<"safari">> ELSE Backends
           held == [n \in DOMAIN tried |-> caches.held[tried[n]]]
           found == FlattenSeq(held)
           N == Len(found)
           Step(n, x) == Insert(x, found[n])
           V == Indexes
           G == [n \in 1..N |-> [x \in V |-> Step(n, x)]]
           D(f) == [n \in 0..N |-> IF n = 0 THEN EmptyIndex ELSE Step(n, f[n - 1])]
           g == CHOOSE f : f = D(f)
<1>1. IsList(tried) /\ \A n \in DOMAIN tried : tried[n] \in ToSet(Backends)
  <2>1. /\ DOMAIN Backends = 1..5 /\ Backends[4] = "safari"
        /\ Backends \in Seq({"simple", "blockfile", "firefox", "safari", "cachestorage"})
    BY DEF Backends
  <2>2. IsList(Backends)
    BY <2>1, SeqIsList
  <2>3. \A n \in DOMAIN Backends : Backends[n] \in ToSet(Backends)
    BY DEF ToSet
  <2>4. "safari" \in ToSet(Backends)
    BY <2>1, <2>3
  <2>5. CASE caches.isFile
    <3>1. tried = <<"safari">>
      BY <2>5
    <3>2. <<"safari">> \in Seq({"safari"}) /\ DOMAIN <<"safari">> = {1} /\ <<"safari">>[1] = "safari"
      OBVIOUS
    <3> HIDE DEF tried
    <3> QED  BY <2>4, <3>1, <3>2, SeqIsList
  <2>6. CASE ~caches.isFile
    BY <2>2, <2>3, <2>6
  <2> QED  BY <2>5, <2>6
<1>2. FromCacheDir(caches) = g[N]
  BY DEF FromCacheDir
<1> HIDE DEF tried
<1>3. IsList(held) /\ DOMAIN held = DOMAIN tried
      /\ \A n \in DOMAIN held : IsList(held[n]) /\ ToSet(held[n]) \subseteq Resources
  <2>1. held = [n \in DOMAIN tried |-> held[n]]
    OBVIOUS
  <2>2. IsList(held) /\ DOMAIN held = DOMAIN tried
    <3> HIDE DEF held
    <3> QED  BY <1>1, <2>1, MappedList
  <2> QED  BY <1>1, <2>2, HeldAre
<1> HIDE DEF held
<1>4. IsList(found) /\ ToSet(found) = UNION {ToSet(held[n]) : n \in DOMAIN held}
  BY <1>3, FlattenedList
<1> HIDE DEF found
<1>5. ToSet(found) \subseteq Resources
  BY <1>3, <1>4
<1>6. N \in Nat /\ \A n \in 1..N : found[n] \in Resources
  BY <1>4, <1>5, ListIs
<1>7. EmptyIndex \in V /\ \A n \in 1..N : \A x \in V : Step(n, x) \in V
  BY <1>6, EmptyIs, InsertIs
<1> HIDE DEF V, Step, N
<1>8. AreSteps(G, N, V)
  BY <1>7 DEF AreSteps
<1>9. PICK f : f \in [0..N -> V] /\ f[0] = EmptyIndex /\ \A n \in 1..N : f[n] = G[n][f[n - 1]]
  <2> HIDE DEF G
  <2>1. \E f : IsBuilt(f, EmptyIndex, G, N, V)
    BY <1>6, <1>7, <1>8, BuiltUp
  <2> QED  BY <2>1 DEF IsBuilt
<1>10. f = D(f)
  <2>1. ASSUME NEW n \in 0..N PROVE f[n] = IF n = 0 THEN EmptyIndex ELSE Step(n, f[n - 1])
    <3>1. CASE n = 0
      BY <1>9, <3>1
    <3>2. CASE n # 0
      <4>1. n \in 1..N /\ n - 1 \in 0..N
        BY <1>6, <3>2
      <4> QED  BY <1>9, <3>2, <4>1
    <3> QED  BY <3>1, <3>2
  <2>2. f = [n \in 0..N |-> f[n]]
    BY <1>9
  <2> QED  BY <2>1, <2>2
<1>11. g = D(g)
  <2> HIDE DEF D
  <2> QED  BY <1>10
<1>12. \A n \in 0..N : g[n] = IF n = 0 THEN EmptyIndex ELSE Step(n, g[n - 1])
  <2> SUFFICES ASSUME NEW n \in 0..N
               PROVE  g[n] = IF n = 0 THEN EmptyIndex ELSE Step(n, g[n - 1])
    OBVIOUS
  <2> HIDE DEF g
  <2>1. g[n] = D(g)[n]
    BY <1>11
  <2> QED  BY <2>1
<1> HIDE DEF g
<1> DEFINE Good == {n \in 0..N : g[n] \in V}
<1>13. 0 \in Good
  BY <1>6, <1>7, <1>12
<1>14. \A n \in 1..N : n - 1 \in Good => n \in Good
  BY <1>6, <1>7, <1>12
<1>15. N \in Good
  <2> HIDE DEF Good
  <2>1. \A n \in 0..N : n \in Good
    BY <1>6, <1>13, <1>14, CountingUp
  <2> QED  BY <1>6, <2>1
<1> QED  BY <1>2, <1>15 DEF V

LEMMA EntriesAre ==
    ASSUME IndexSound, NEW t
    PROVE  /\ IsList(Entries(t))
           /\ \A u \in ToSet(Entries(t)) : Cached(u) /\ index.byUrl[u].type = t
<1> DEFINE o == index.order
           f == [n \in DOMAIN o |-> EntryIf(o[n], t)]
<1>1. /\ o \in Seq(References) /\ ToSet(o) = DOMAIN index.byUrl
  BY DEF IndexSound, IsIndex
<1>2. Entries(t) = FlattenSeq(f)
  BY DEF Entries
<1> HIDE DEF o
<1>3. ASSUME NEW n \in DOMAIN o
      PROVE  /\ IsList(f[n])
             /\ \A u \in ToSet(f[n]) : Cached(u) /\ index.byUrl[u].type = t
  <2>1. f[n] = EntryIf(o[n], t)
    OBVIOUS
  <2> HIDE DEF f
  <2>2. o[n] \in DOMAIN index.byUrl
    BY <1>1, ElementsAre
  <2>3. CASE index.byUrl[o[n]].type = t
    <3>1. PICK x : x = o[n]
      OBVIOUS
    <3>2. f[n] = <<x>>
      BY <2>1, <2>3, <3>1 DEF EntryIf
    <3>3. <<x>> \in Seq({x}) /\ DOMAIN <<x>> = {1} /\ <<x>>[1] = x
      OBVIOUS
    <3>4. IsList(<<x>>) /\ ToSet(<<x>>) \subseteq {x}
      BY <3>3, SeqIsList
    <3> QED  BY <2>2, <2>3, <3>1, <3>2, <3>4 DEF Cached
  <2>4. CASE index.byUrl[o[n]].type # t
    <3>1. f[n] = <<>>
      BY <2>1, <2>4 DEF EntryIf
    <3>2. <<>> \in Seq({}) /\ DOMAIN <<>> = {}
      OBVIOUS
    <3>3. IsList(<<>>) /\ ToSet(<<>>) \subseteq {}
      BY <3>2, SeqIsList
    <3> QED  BY <3>1, <3>3
  <2> QED  BY <2>3, <2>4
<1>4. IsList(f) /\ DOMAIN f = DOMAIN o
  <2>1. IsList(o)
    BY <1>1, SeqIsList
  <2>2. f = [n \in DOMAIN o |-> f[n]]
    OBVIOUS
  <2> HIDE DEF f
  <2> QED  BY <2>1, <2>2, MappedList
<1> HIDE DEF f
<1>5. IsList(FlattenSeq(f)) /\ ToSet(FlattenSeq(f)) = UNION {ToSet(f[n]) : n \in DOMAIN f}
  BY <1>3, <1>4, FlattenedList
<1> QED  BY <1>2, <1>3, <1>4, <1>5

-----------------------------------------------------------------------------
(* The run. *)

\* What is left of a list after so many.
IsRest(rst, all, k) ==
    /\ k \in 0..Len(all) /\ DOMAIN rst = 1..(Len(all) - k) /\ rst \in Seq(ToSet(all))
    /\ \A n \in 1..(Len(all) - k) : rst[n] = all[k + n]

LEMMA RestIs ==
    ASSUME NEW all, IsList(all), NEW k, NEW rst, IsRest(rst, all, k)
    PROVE  /\ Len(all) \in Nat /\ Len(rst) = Len(all) - k
           /\ rst = <<>> <=> k = Len(all)
           /\ rst # <<>> =>
                 k + 1 \in 1..Len(all) /\ Head(rst) = all[k + 1] /\ IsRest(Tail(rst), all, k + 1)
<1>1. PICK N \in Nat : N = Len(all) /\ DOMAIN all = 1..N
  BY ListIs
<1>2. /\ k \in 0..N /\ DOMAIN rst = 1..(N - k) /\ rst \in Seq(ToSet(all))
      /\ \A n \in 1..(N - k) : rst[n] = all[k + n]
  BY <1>1 DEF IsRest
<1>3. N - k \in Nat /\ Len(rst) = N - k
  BY <1>2
<1>4. rst = <<>> <=> k = N
  BY <1>2, <1>3
<1>5. ASSUME rst # <<>>
      PROVE  k + 1 \in 1..N /\ Head(rst) = all[k + 1] /\ IsRest(Tail(rst), all, k + 1)
  <2>1. k + 1 \in 0..N /\ k + 1 \in 1..N /\ 1 \in 1..(N - k) /\ Len(rst) - 1 = N - (k + 1)
    BY <1>2, <1>3, <1>4, <1>5
  <2>2. Head(rst) = rst[1]
    BY <1>2
  <2>3. PICK t : t = Tail(rst)
    OBVIOUS
  <2>4. t \in Seq(ToSet(all)) /\ Len(t) = N - (k + 1) /\ \A n \in 1..Len(t) : t[n] = rst[n + 1]
    BY <1>2, <1>5, <2>1, <2>3
  <2>5. DOMAIN t = 1..(N - (k + 1))
    BY <2>4
  <2>6. ASSUME NEW n \in 1..(N - (k + 1)) PROVE t[n] = all[(k + 1) + n]
    <3>1. n + 1 \in 1..(N - k) /\ k + (n + 1) = (k + 1) + n /\ n \in 1..Len(t)
      BY <1>2, <2>4
    <3> QED  BY <1>2, <2>4, <3>1
  <2>7. IsRest(t, all, k + 1)
    BY <1>1, <2>1, <2>4, <2>5, <2>6 DEF IsRest
  <2> QED  BY <1>2, <2>1, <2>2, <2>3, <2>7
<1> QED  BY <1>1, <1>3, <1>4, <1>5

LEMMA WholeIsRest ==
    ASSUME NEW all, IsList(all)
    PROVE  IsRest(all, all, 0)
<1>1. PICK N \in Nat : N = Len(all) /\ DOMAIN all = 1..N /\ all \in Seq(ToSet(all))
  BY ListIs
<1> QED  BY <1>1 DEF IsRest

\* The first so many of a list.
LEMMA FirstAre ==
    ASSUME NEW all, IsList(all), NEW k \in 0..Len(all)
    PROVE  /\ DOMAIN SubSeq(all, 1, k) = 1..k
           /\ \A n \in 1..k : SubSeq(all, 1, k)[n] = all[n]
<1>1. PICK N \in Nat : N = Len(all) /\ DOMAIN all = 1..N /\ all \in Seq(ToSet(all))
  BY ListIs
<1> QED  BY <1>1

LEMMA FreeNameIs ==
    ASSUME IsFiniteSet(DOMAIN written), NEW url
    PROVE  FreeName(url) \notin DOMAIN written
<1> DEFINE W == DOMAIN written
           c == Cardinality(W)
           used(n) == <<StemOf(url), n>> \in W
           T == {n \in 0..c : ~used(n)}
           IsIt(n) == ~used(n) /\ \A m \in 0..(n - 1) : used(m)
<1>1. c \in Nat
  BY FS_CardinalityType
<1>2. T # {}
  <2> SUFFICES ASSUME \A n \in 0..c : used(n) PROVE FALSE
    OBVIOUS
  <2> DEFINE f == [n \in 0..c |-> <<StemOf(url), n>>]
  <2>1. f \in Injection(0..c, W)
    <3>1. f \in [0..c -> W]
      OBVIOUS
    <3>2. \A m, n \in 0..c : f[m] = f[n] => m = n
      OBVIOUS
    <3> HIDE DEF f, W
    <3> QED  BY <3>1, <3>2 DEF Injection, IsInjective
  <2>2. IsFiniteSet(0..c) /\ Cardinality(0..c) = c + 1
    BY <1>1, FS_Interval
  <2>3. Cardinality(0..c) <= c
    <3> HIDE DEF f
    <3> QED  BY <2>1, <2>2, FS_Injection
  <2> QED  BY <1>1, <2>2, <2>3
<1>3. PICK n \in T : \A m \in T : n <= m
  <2>1. T \in SUBSET Nat
    BY <1>1
  <2> HIDE DEF T
  <2> QED  BY <1>2, <2>1, LeastNat
<1>4. n \in 0..c /\ IsIt(n)
  <2>1. n \in 0..c /\ ~used(n)
    OBVIOUS
  <2>2. ASSUME NEW m \in 0..(n - 1) PROVE used(m)
    <3>1. m \in 0..c /\ ~(n <= m)
      BY <1>1, <2>1
    <3> HIDE DEF used
    <3> QED  BY <1>3, <3>1
  <2> QED  BY <2>1, <2>2
<1>5. ~used(CHOOSE i \in 0..c : IsIt(i))
  <2> DEFINE i == CHOOSE j \in 0..c : IsIt(j)
  <2> HIDE DEF IsIt
  <2>1. IsIt(i)
    BY <1>4
  <2> HIDE DEF i
  <2>2. ~used(i)
    BY <2>1 DEF IsIt
  <2> QED  BY <2>2 DEF i
<1> QED  BY <1>5 DEF FreeName

\* What is inlined of the page that is rewritten is of the elements before those left.
RestIsRewritten(all, k) == IsRest(rest, all, k) /\ DoneSound(page, SubSeq(all, 1, k))
BeingRewritten ==
    /\ Cached(page.url)
    /\ \E k \in Nat : RestIsRewritten(index.byUrl[page.url].elements, k)

\* Of every page, those before the one that is rewritten are written, each under a name.
PagesAre(k, w) ==
    /\ IsRest(pages, Entries("html"), k)
    /\ w = (IF stage = "rewriting" THEN k - 1 ELSE k) /\ w \in Nat
    /\ stage = "rewriting" => page.url = Entries("html")[k]
    /\ stage = "done" => pages = <<>>
    /\ {written[name].url : name \in DOMAIN written} = {Entries("html")[i] : i \in 1..w}
    /\ Cardinality(DOMAIN written) = w
EveryPage ==
    asked.format = "html" /\ asked.url = NoAddress /\ stage \in {"next", "rewriting", "done"} =>
        \E k, w \in Nat : PagesAre(k, w)

PageInv ==
    /\ asked.caches \in CachesGiven \cup {NoCaches}
    /\ IndexSound /\ Sound(page) /\ IsFiniteSet(DOMAIN written)
    /\ stage \in {"start", "indexed"} => page = NoPage /\ written = <<>>
    /\ stage = "rewriting" => BeingRewritten
    /\ EveryPage

LEMMA NewPageIs ==
    ASSUME NEW url \in References
    PROVE  Sound(NewPage(url)) /\ NewPage(url).url = url /\ NewPage(url).inlined = {}
<1>1. PICK e : e = <<>>
  OBVIOUS
<1>2. e \in Seq(References) /\ DOMAIN e = {} /\ ToSet(e) = {}
  BY <1>1 DEF ToSet
<1>3. PICK p : p = NewPage(url)
  OBVIOUS
<1>4. p = [url |-> url, found |-> e, missing |-> e, seen |-> {}, emitted |-> 0, count |-> 0,
           inlined |-> {}]
  BY <1>1, <1>3 DEF NewPage
<1>5. p \in PagesOver
  BY <1>2, <1>4 DEF PagesOver
<1>6. p.count <= MaxSubresources + 1
  BY <1>4, Limits
<1>7. Distinct(e)
  BY <1>2 DEF Distinct
<1>8. p.found = e /\ p.missing = e /\ p.inlined = {} /\ p.seen = {} /\ p.url = url
  BY <1>4
<1>9. Sound(p)
  BY <1>2, <1>5, <1>6, <1>7, <1>8 DEF Sound
<1> QED  BY <1>3, <1>8, <1>9

LEMMA PageInitSound == PagesInit => PageInv
<1> SUFFICES ASSUME PagesInit PROVE PageInv
  OBVIOUS
<1>1. /\ asked.caches \in CachesGiven \cup {NoCaches}
      /\ stage = "start" /\ index = EmptyIndex /\ page = NoPage /\ written = <<>>
  BY DEF PagesInit
<1>2. IndexSound
  BY <1>1, EmptyIs DEF IndexSound, Indexes
<1>3. Sound(page)
  BY <1>1, NoAddressIs, NewPageIs DEF NoPage
<1>4. IsFiniteSet(DOMAIN written)
  <2>1. DOMAIN <<>> = {}
    OBVIOUS
  <2> QED  BY <1>1, <2>1, FS_EmptySet
<1> QED  BY <1>1, <1>2, <1>3, <1>4 DEF PageInv, EveryPage

\* What is said of a page stays while the index and the page do.
LEMMA SameIndex == index' = index /\ IndexSound => IndexSound'
BY DEF IndexSound, IsIndex

LEMMA SamePage ==
    ASSUME index' = index, NEW p, page' = p, Sound(p)
    PROVE  Sound(page)'
BY DEF Sound, Fits, Cached, BudgetOk

LEMMA SameEntries ==
    ASSUME index' = index
    PROVE  (Entries("html"))' = Entries("html")
BY DEF Entries, EntryIf

LEMMA CachedElements ==
    ASSUME IndexSound, NEW u, Cached(u)
    PROVE  /\ IsList(index.byUrl[u].elements)
           /\ \A n \in DOMAIN index.byUrl[u].elements : IsElement(index.byUrl[u].elements[n])
<1> DEFINE res == index.byUrl[u]
<1>1. res \in Resources
  BY CachedIs
<1> HIDE DEF res
<1>2. /\ res.elements \in Seq(ElementsOf(res))
      /\ \A e \in ElementsOf(res) : IsElement(e)
  BY <1>1, ResourceIs DEF IsElement
<1>3. IsList(res.elements)
  BY <1>2, SeqIsList
<1>4. \A n \in DOMAIN res.elements : res.elements[n] \in ElementsOf(res)
  BY DEF ElementsOf
<1> QED  BY <1>2, <1>3, <1>4 DEF res

LEMMA WithIs ==
    ASSUME NEW map, NEW key, NEW value
    PROVE  /\ DOMAIN With(map, key, value) = DOMAIN map \cup {key}
           /\ With(map, key, value)[key] = value
           /\ \A k \in DOMAIN map : k # key => With(map, key, value)[k] = map[k]
BY DEF With

LEMMA FromCacheSound == PageInv /\ FromCache => PageInv'
<1> SUFFICES ASSUME PageInv, FromCache PROVE PageInv'
  OBVIOUS
<1>1. /\ index' = FromCacheDir(asked.caches) /\ stage' \in {"failed", "indexed"}
      /\ asked' = asked /\ page' = NoPage /\ written' = written
      /\ written = <<>> /\ asked.caches \in CachesGiven \cup {NoCaches}
      /\ IsFiniteSet(DOMAIN written)
  BY DEF PageInv, FromCache
<1>2. IndexSound'
  <2>1. FromCacheDir(asked.caches) \in Indexes
    BY <1>1, FromCacheDirIs
  <2> QED  BY <1>1, <2>1 DEF IndexSound, Indexes
<1>3. Sound(page)'
  <2>1. Sound(NoPage) /\ NoPage.missing = <<>>
    BY NoAddressIs, NewPageIs DEF NoPage, NewPage
  <2>2. ToSet(<<>>) = {}
    BY DEF ToSet
  <2>3. PICK p : p = NoPage
    OBVIOUS
  <2>4. Sound(p) /\ ToSet(p.missing) = {} /\ page' = p
    BY <1>1, <2>1, <2>2, <2>3
  <2> QED  BY <2>4 DEF Sound
<1>4. stage' \notin {"next", "rewriting", "done", "start"}
  BY <1>1
<1> QED  BY <1>1, <1>2, <1>3, <1>4 DEF PageInv, EveryPage

LEMMA PlanPagesSound == PageInv /\ PlanPages => PageInv'
<1> SUFFICES ASSUME PageInv, PlanPages PROVE PageInv'
  OBVIOUS
<1>1. /\ stage = "indexed" /\ stage' = "next" /\ asked' = asked /\ index' = index
      /\ page' = page /\ written' = written /\ written = <<>>
      /\ asked.caches \in CachesGiven \cup {NoCaches} /\ IsFiniteSet(DOMAIN written)
      /\ pages' = IF asked.url # NoAddress THEN <<asked.url>> ELSE Entries("html")
      /\ IndexSound /\ Sound(page)
  BY DEF PageInv, PlanPages
<1>2. IndexSound' /\ Sound(page)'
  BY <1>1, SameIndex, SamePage
<1>3. ASSUME asked.url = NoAddress PROVE PagesAre(0, 0)'
  <2>1. pages' = Entries("html") /\ (Entries("html"))' = Entries("html")
    BY <1>1, <1>3, SameEntries
  <2>2. IsRest(Entries("html"), Entries("html"), 0)
    BY <1>1, EntriesAre, WholeIsRest
  <2>3. DOMAIN written' = {}
    BY <1>1
  <2>4. Cardinality(DOMAIN written') = 0 /\ {written'[name].url : name \in DOMAIN written'} = {}
    BY <2>3, FS_EmptySet
  <2>5. \A i \in Int : i \notin 1..0
    OBVIOUS
  <2>6. IsRest(pages', (Entries("html"))', 0)
    BY <2>1, <2>2
  <2>7. IsRest(pages, Entries("html"), 0)'
    BY <2>6 DEF IsRest
  <2> QED  BY <1>1, <2>4, <2>5, <2>7 DEF PagesAre
<1>4. EveryPage'
  BY <1>1, <1>3 DEF EveryPage
<1> QED  BY <1>1, <1>2, <1>4 DEF PageInv

LEMMA BeginPageSound == PageInv /\ BeginPage => PageInv'
<1> SUFFICES ASSUME PageInv, BeginPage PROVE PageInv'
  OBVIOUS
<1> DEFINE u == Head(pages)
           all == index.byUrl[u].elements
<1>1. /\ stage = "next" /\ stage' = "rewriting" /\ asked' = asked /\ index' = index
      /\ pages # <<>> /\ Cached(u) /\ page' = NewPage(u) /\ rest' = all
      /\ pages' = Tail(pages) /\ written' = written
      /\ asked.caches \in CachesGiven \cup {NoCaches} /\ IsFiniteSet(DOMAIN written)
      /\ IndexSound /\ EveryPage
  BY DEF PageInv, BeginPage, IsHtml
<1>2. u \in References /\ IsList(all)
  BY <1>1, CachedIs, CachedElements
<1>3. PICK p : p = NewPage(u)
  OBVIOUS
<1>4. Sound(p) /\ p.url = u /\ p.inlined = {} /\ page' = p
  BY <1>1, <1>2, <1>3, NewPageIs
<1>5. IndexSound' /\ Sound(page)'
  BY <1>1, <1>4, SameIndex, SamePage
<1>6. BeingRewritten'
  <2>1. Cached(page.url)'
    BY <1>1, <1>4 DEF Cached
  <2>2. IsRest(all, all, 0)
    BY <1>2, WholeIsRest
  <2>3. DOMAIN SubSeq(all, 1, 0) = {}
    BY <1>2, ListIs, FirstAre
  <2>4. PICK a, d : a = all /\ d = SubSeq(all, 1, 0)
    OBVIOUS
  <2>5. (index.byUrl[page.url].elements)' = a /\ rest' = a /\ IsRest(a, a, 0)
        /\ DOMAIN d = {} /\ d = SubSeq(a, 1, 0)
    BY <1>1, <1>4, <2>2, <2>3, <2>4
  <2>6. DoneSound(page, d)'
    BY <1>4, <2>5 DEF DoneSound
  <2>7. RestIsRewritten(a, 0)'
    BY <2>5, <2>6 DEF RestIsRewritten, IsRest
  <2>8. RestIsRewritten(index.byUrl[page.url].elements, 0)'
    BY <2>5, <2>7
  <2> QED  BY <2>1, <2>8 DEF BeingRewritten
<1>7. ASSUME asked.format = "html", asked.url = NoAddress
      PROVE  \E k, w \in Nat : PagesAre(k, w)'
  <2>1. PICK k \in Nat, w \in Nat : PagesAre(k, w)
    BY <1>1, <1>7 DEF EveryPage
  <2>2. /\ IsRest(pages, Entries("html"), k) /\ w = k
        /\ {written[name].url : name \in DOMAIN written} = {Entries("html")[i] : i \in 1..w}
        /\ Cardinality(DOMAIN written) = w
    BY <1>1, <2>1 DEF PagesAre
  <2>3. PICK E : E = Entries("html")
    OBVIOUS
  <2>4. (Entries("html"))' = E /\ IsList(E)
    BY <1>1, <2>3, SameEntries, EntriesAre
  <2>5. u = E[k + 1] /\ IsRest(Tail(pages), E, k + 1)
    BY <1>1, <2>2, <2>3, <2>4, RestIs
  <2>6. IsRest(pages, Entries("html"), k + 1)'
    BY <1>1, <2>4, <2>5 DEF IsRest
  <2>7. w = (k + 1) - 1 /\ w \in Nat
    BY <2>2
  <2>8. page'.url = (Entries("html"))'[k + 1] /\ stage' # "done"
    BY <1>1, <1>4, <2>4, <2>5
  <2>9. {written'[name].url : name \in DOMAIN written'} = {(Entries("html"))'[i] : i \in 1..w}
        /\ Cardinality(DOMAIN written') = w
    BY <1>1, <2>2, <2>3, <2>4
  <2>10. PagesAre(k + 1, w)'
    BY <1>1, <2>6, <2>7, <2>8, <2>9 DEF PagesAre
  <2> QED  BY <2>10
<1>8. EveryPage'
  BY <1>1, <1>7 DEF EveryPage
<1> QED  BY <1>1, <1>5, <1>6, <1>8 DEF PageInv

\* The pages that were written stay, and the list of those that follow.
LEMMA SamePages ==
    ASSUME PageInv, NEW k, NEW w, PagesAre(k, w), stage' = stage, index' = index,
           pages' = pages, written' = written, page'.url = page.url
    PROVE  PagesAre(k, w)'
<1>1. PICK E : E = Entries("html")
  OBVIOUS
<1>2. (Entries("html"))' = E
  BY <1>1, SameEntries
<1>3. /\ IsRest(pages, E, k)
      /\ w = (IF stage = "rewriting" THEN k - 1 ELSE k) /\ w \in Nat
      /\ stage = "rewriting" => page.url = E[k]
      /\ stage = "done" => pages = <<>>
      /\ {written[name].url : name \in DOMAIN written} = {E[i] : i \in 1..w}
      /\ Cardinality(DOMAIN written) = w
  BY <1>1 DEF PagesAre
<1>4. IsRest(pages, Entries("html"), k)'
  BY <1>2, <1>3 DEF IsRest
<1> QED  BY <1>2, <1>3, <1>4 DEF PagesAre

LEMMA SkipPageSound == PageInv /\ SkipPage => PageInv'
<1> SUFFICES ASSUME PageInv, SkipPage PROVE PageInv'
  OBVIOUS
<1>1. /\ stage = "next" /\ stage' = stage /\ asked' = asked /\ index' = index
      /\ pages # <<>> /\ ~IsHtml(Head(pages)) /\ page' = page /\ written' = written
      /\ asked.caches \in CachesGiven \cup {NoCaches} /\ IsFiniteSet(DOMAIN written)
      /\ IndexSound /\ Sound(page) /\ EveryPage
  BY DEF PageInv, SkipPage
<1>2. IndexSound' /\ Sound(page)'
  BY <1>1, SameIndex, SamePage
<1>3. ~(asked.format = "html" /\ asked.url = NoAddress)
  <2> SUFFICES ASSUME asked.format = "html", asked.url = NoAddress PROVE FALSE
    OBVIOUS
  <2>1. PICK k \in Nat, w \in Nat : PagesAre(k, w)
    BY <1>1 DEF EveryPage
  <2>2. IsRest(pages, Entries("html"), k)
    BY <2>1 DEF PagesAre
  <2>3. PICK E : E = Entries("html")
    OBVIOUS
  <2>4. IsList(E) /\ \A u \in ToSet(E) : Cached(u) /\ index.byUrl[u].type = "html"
    BY <1>1, <2>3, EntriesAre
  <2>5. Head(pages) = E[k + 1] /\ k + 1 \in 1..Len(E)
    <3>1. IsList(E) /\ IsRest(pages, E, k) /\ pages # <<>>
      BY <1>1, <2>2, <2>3, <2>4
    <3> QED  BY <3>1, RestIs
  <2>6. Head(pages) \in ToSet(E)
    <3>1. k + 1 \in DOMAIN E
      BY <2>4, <2>5, ListIs
    <3> QED  BY <2>5, <3>1, ElementsAre
  <2> QED  BY <1>1, <2>4, <2>6 DEF IsHtml
<1> QED  BY <1>1, <1>2, <1>3 DEF PageInv, EveryPage

LEMMA RewriteElementSound == PageInv /\ RewriteElement => PageInv'
<1> SUFFICES ASSUME PageInv, RewriteElement PROVE PageInv'
  OBVIOUS
<1>1. /\ stage = "rewriting" /\ stage' = stage /\ asked' = asked /\ index' = index
      /\ rest # <<>> /\ page' = Handle(page, Head(rest)) /\ rest' = Tail(rest)
      /\ pages' = pages /\ written' = written
      /\ asked.caches \in CachesGiven \cup {NoCaches} /\ IsFiniteSet(DOMAIN written)
      /\ IndexSound /\ Sound(page) /\ EveryPage /\ BeingRewritten
  BY DEF PageInv, RewriteElement
<1> DEFINE all == index.byUrl[page.url].elements
<1>2. PICK k \in Nat : Cached(page.url) /\ RestIsRewritten(all, k)
  BY <1>1 DEF BeingRewritten
<1>3. PICK a : a = all
  OBVIOUS
<1> HIDE DEF all
<1>4. IsList(a) /\ \A n \in DOMAIN a : IsElement(a[n])
  BY <1>1, <1>2, <1>3, CachedElements DEF all
<1>5. IsRest(rest, a, k) /\ DoneSound(page, SubSeq(a, 1, k))
  BY <1>2, <1>3 DEF RestIsRewritten
<1>6. /\ k + 1 \in 1..Len(a) /\ Head(rest) = a[k + 1] /\ IsRest(Tail(rest), a, k + 1)
      /\ Len(a) \in Nat /\ DOMAIN a = 1..Len(a) /\ k \in 0..Len(a) /\ k + 1 \in 0..Len(a)
  <2>1. Len(a) \in Nat /\ DOMAIN a = 1..Len(a)
    BY <1>4, ListIs
  <2>2. k + 1 \in 1..Len(a) /\ Head(rest) = a[k + 1] /\ IsRest(Tail(rest), a, k + 1)
    BY <1>1, <1>4, <1>5, RestIs
  <2> QED  BY <2>1, <2>2
<1>7. PICK q : q = Handle(page, a[k + 1])
  OBVIOUS
<1>8. Handled(page, q, a[k + 1]) /\ page' = q
  BY <1>1, <1>4, <1>6, <1>7, HandleIs
<1>9. PICK done, more : done = SubSeq(a, 1, k) /\ more = SubSeq(a, 1, k + 1)
  OBVIOUS
<1>10. /\ DOMAIN done = 1..k /\ \A n \in 1..k : done[n] = a[n]
       /\ DOMAIN more = 1..(k + 1) /\ \A n \in 1..(k + 1) : more[n] = a[n]
  BY <1>4, <1>6, <1>9, FirstAre
<1>11. /\ k + 1 \in DOMAIN more /\ DOMAIN done = DOMAIN more \ {k + 1}
       /\ \A n \in DOMAIN done : more[n] = done[n] /\ IsElement(done[n])
  BY <1>4, <1>6, <1>10
<1>12. Handled(page, q, more[k + 1])
  BY <1>6, <1>8, <1>10
<1>13. DoneSound(q, more)
  BY <1>1, <1>5, <1>9, <1>11, <1>12, DoneGrows
<1>14. Sound(q) /\ Grows(page, q)
  BY <1>8 DEF Handled
<1>15. IndexSound' /\ Sound(page)'
  BY <1>1, <1>8, <1>14, SameIndex, SamePage
<1>16. page'.url = page.url
  BY <1>8, <1>14 DEF Grows
<1>17. BeingRewritten'
  <2>1. Cached(page.url)'
    BY <1>1, <1>2, <1>16 DEF Cached
  <2>2. (index.byUrl[page.url].elements)' = a
    BY <1>1, <1>3, <1>16 DEF all
  <2>3. DoneSound(page, more)'
    BY <1>1, <1>8, <1>13
    DEF DoneSound, ElementDone, StyleDone, SheetDone, StyleNeeds, Settled, Fits, Cached, BudgetOk,
        IsMoreThanASheet, IsOther
  <2>4. IsRest(rest, a, k + 1)'
    BY <1>1, <1>6 DEF IsRest
  <2>5. RestIsRewritten(a, k + 1)'
    BY <1>9, <2>3, <2>4 DEF RestIsRewritten
  <2>6. RestIsRewritten(index.byUrl[page.url].elements, k + 1)'
    BY <2>2, <2>5
  <2>7. k + 1 \in Nat
    OBVIOUS
  <2> QED  BY <2>1, <2>6, <2>7 DEF BeingRewritten
<1>18. ASSUME asked.format = "html", asked.url = NoAddress
       PROVE  \E i, w \in Nat : PagesAre(i, w)'
  <2>1. PICK i \in Nat, w \in Nat : PagesAre(i, w)
    BY <1>1, <1>18 DEF EveryPage
  <2> QED  BY <1>1, <1>16, <2>1, SamePages
<1>19. EveryPage'
  BY <1>1, <1>18 DEF EveryPage
<1> QED  BY <1>1, <1>15, <1>17, <1>19 DEF PageInv

LEMMA WriteHtmlSound == PageInv /\ WriteHtml => PageInv'
<1> SUFFICES ASSUME PageInv, WriteHtml PROVE PageInv'
  OBVIOUS
<1> DEFINE name == FreeName(page.url)
<1>1. /\ stage = "rewriting" /\ asked' = asked /\ index' = index /\ page' = NoPage
      /\ pages' = pages /\ rest = <<>> /\ stage' \in {"next", "failed"}
      /\ stage' = "next" => written' = With(written, name, page)
      /\ stage' = "failed" => written' = written
      /\ asked.caches \in CachesGiven \cup {NoCaches} /\ IsFiniteSet(DOMAIN written)
      /\ IndexSound /\ Sound(page) /\ EveryPage
  BY DEF PageInv, WriteHtml
<1>2. name \notin DOMAIN written
  BY <1>1, FreeNameIs
<1> HIDE DEF name
<1>3. stage' = "next" =>
          /\ DOMAIN written' = DOMAIN written \cup {name} /\ written'[name] = page
          /\ \A m \in DOMAIN written : written'[m] = written[m]
  <2>1. PICK after : after = With(written, name, page)
    OBVIOUS
  <2>2. /\ DOMAIN after = DOMAIN written \cup {name} /\ after[name] = page
        /\ \A m \in DOMAIN written : m # name => after[m] = written[m]
    BY <2>1 DEF With
  <2>3. stage' = "next" => written' = after
    BY <1>1, <2>1
  <2> QED  BY <1>2, <2>2, <2>3
<1>4. IndexSound' /\ Sound(page)'
  <2>1. Sound(NoPage)
    BY NoAddressIs, NewPageIs DEF NoPage
  <2>2. PICK p : p = NoPage
    OBVIOUS
  <2> QED  BY <1>1, <2>1, <2>2, SameIndex, SamePage
<1>5. IsFiniteSet(DOMAIN written')
  <2>1. CASE stage' = "next"
    <3>1. DOMAIN written' = DOMAIN written \cup {name}
      BY <1>3, <2>1
    <3>2. IsFiniteSet(DOMAIN written \cup {name})
      BY <1>1, FS_AddElement
    <3> QED  BY <3>1, <3>2
  <2>2. CASE stage' = "failed"
    BY <1>1, <2>2
  <2> QED  BY <1>1, <2>1, <2>2
<1>6. ASSUME asked.format = "html", asked.url = NoAddress, stage' = "next"
      PROVE  \E k, w \in Nat : PagesAre(k, w)'
  <2>1. PICK k \in Nat, w \in Nat : PagesAre(k, w)
    BY <1>1, <1>6 DEF EveryPage
  <2>2. PICK E : E = Entries("html")
    OBVIOUS
  <2>3. /\ IsRest(pages, E, k) /\ w = k - 1 /\ page.url = E[k]
        /\ {written[m].url : m \in DOMAIN written} = {E[i] : i \in 1..w}
        /\ Cardinality(DOMAIN written) = w
    BY <1>1, <2>1, <2>2 DEF PagesAre
  <2>4. (Entries("html"))' = E
    BY <1>1, <2>2, SameEntries
  <2>5. IsRest(pages, Entries("html"), k)'
    BY <1>1, <2>3, <2>4 DEF IsRest
  <2>6. Cardinality(DOMAIN written') = k
    <3>1. Cardinality(DOMAIN written \cup {name}) = w + 1
      BY <1>1, <1>2, <2>3, FS_AddElement
    <3> QED  BY <1>3, <1>6, <2>3, <3>1
  <2>7. \A i : i \in 1..k <=> i \in 1..w \/ i = k
    BY <2>3
  <2>8. {written'[m].url : m \in DOMAIN written'} = {E[i] : i \in 1..k}
    <3>1. {written'[m].url : m \in DOMAIN written'}
             = {written[m].url : m \in DOMAIN written} \cup {page.url}
      BY <1>3, <1>6
    <3>2. {E[i] : i \in 1..k} = {E[i] : i \in 1..w} \cup {E[k]}
      BY <2>7
    <3> QED  BY <2>3, <3>1, <3>2
  <2>9. PagesAre(k, k)'
    BY <1>6, <2>4, <2>5, <2>6, <2>8 DEF PagesAre
  <2> QED  BY <2>9
<1>7. EveryPage'
  <2>1. stage' # "rewriting" /\ stage' # "done"
    BY <1>1
  <2> QED  BY <1>1, <1>6, <2>1 DEF EveryPage
<1> QED  BY <1>1, <1>4, <1>5, <1>7 DEF PageInv

\* Archives and galleries are of no page.
LEMMA WriteAllSound ==
    ASSUME PageInv, asked.format # "html", NEW name, NEW urls, WriteAll(name, urls)
    PROVE  PageInv'
<1>1. /\ asked' = asked /\ index' = index /\ page' = page /\ stage' \in {"done", "failed"}
      /\ \/ written' = With(written, name, SelectSeq(urls, Cached))
         \/ written' = written
      /\ asked.caches \in CachesGiven \cup {NoCaches} /\ IsFiniteSet(DOMAIN written)
      /\ IndexSound /\ Sound(page)
  BY DEF PageInv, WriteAll
<1>2. DOMAIN written' = DOMAIN written \/ DOMAIN written' = DOMAIN written \cup {name}
  <2>1. PICK after : after = With(written, name, SelectSeq(urls, Cached))
    OBVIOUS
  <2>2. DOMAIN after = DOMAIN written \cup {name}
    BY <2>1, WithIs
  <2>3. written' = after \/ written' = written
    BY <1>1, <2>1
  <2> QED  BY <2>2, <2>3
<1>3. IsFiniteSet(DOMAIN written')
  <2>1. IsFiniteSet(DOMAIN written \cup {name})
    BY <1>1, FS_AddElement
  <2> QED  BY <1>1, <1>2, <2>1
<1>4. IndexSound' /\ Sound(page)'
  BY <1>1, SameIndex, SamePage
<1> QED  BY <1>1, <1>3, <1>4 DEF PageInv, EveryPage

LEMMA WriteOthersSound == PageInv /\ (WriteWarc \/ WriteGallery) => PageInv'
<1> SUFFICES ASSUME PageInv, WriteWarc \/ WriteGallery PROVE PageInv'
  OBVIOUS
<1>1. asked.format # "html" /\ \E name, urls : WriteAll(name, urls)
  BY DEF WriteWarc, WriteGallery
<1> QED  BY <1>1, WriteAllSound

LEMMA AllWrittenSound == PageInv /\ AllWritten => PageInv'
<1> SUFFICES ASSUME PageInv, AllWritten PROVE PageInv'
  OBVIOUS
<1>1. /\ stage = "next" /\ stage' \in {"done", "failed"} /\ asked' = asked /\ index' = index
      /\ pages = <<>> /\ pages' = pages /\ page' = page /\ written' = written
      /\ asked.caches \in CachesGiven \cup {NoCaches} /\ IsFiniteSet(DOMAIN written)
      /\ IndexSound /\ Sound(page) /\ EveryPage
  BY DEF PageInv, AllWritten
<1>2. IndexSound' /\ Sound(page)'
  BY <1>1, SameIndex, SamePage
<1>3. ASSUME asked.format = "html", asked.url = NoAddress
      PROVE  \E k, w \in Nat : PagesAre(k, w)'
  <2>1. PICK k \in Nat, w \in Nat : PagesAre(k, w)
    BY <1>1, <1>3 DEF EveryPage
  <2>2. PICK E : E = Entries("html")
    OBVIOUS
  <2>3. (Entries("html"))' = E
    BY <1>1, <2>2, SameEntries
  <2>4. /\ IsRest(pages, E, k) /\ w = k
        /\ {written[name].url : name \in DOMAIN written} = {E[i] : i \in 1..w}
        /\ Cardinality(DOMAIN written) = w
    BY <1>1, <2>1, <2>2 DEF PagesAre
  <2>5. IsRest(pages, Entries("html"), k)'
    BY <1>1, <2>3, <2>4 DEF IsRest
  <2>6. PagesAre(k, w)'
    BY <1>1, <2>3, <2>4, <2>5 DEF PagesAre
  <2> QED  BY <2>6
<1>4. EveryPage'
  BY <1>1, <1>3 DEF EveryPage
<1>5. stage' # "rewriting" /\ stage' \notin {"start", "indexed"}
  BY <1>1
<1> QED  BY <1>1, <1>2, <1>4, <1>5 DEF PageInv

LEMMA PageStepSound == PageInv /\ [PagesNext]_pageVars => PageInv'
<1> SUFFICES ASSUME PageInv, [PagesNext]_pageVars PROVE PageInv'
  OBVIOUS
<1>1. CASE PagesNext
  BY <1>1, FromCacheSound, PlanPagesSound, BeginPageSound, SkipPageSound, RewriteElementSound,
     WriteHtmlSound, WriteOthersSound, AllWrittenSound DEF PagesNext
<1>2. CASE UNCHANGED pageVars
  <2>1. /\ asked' = asked /\ stage' = stage /\ index' = index /\ pages' = pages /\ rest' = rest
        /\ page' = page /\ written' = written
    BY <1>2 DEF pageVars
  <2>5. IndexSound /\ Sound(page)
    BY DEF PageInv
  <2>2. IndexSound' /\ Sound(page)'
    BY <2>1, <2>5, SameIndex, SamePage
  <2>3. BeingRewritten => BeingRewritten'
    <3> SUFFICES ASSUME BeingRewritten PROVE BeingRewritten'
      OBVIOUS
    <3>1. PICK k \in Nat : Cached(page.url) /\ RestIsRewritten(index.byUrl[page.url].elements, k)
      BY DEF BeingRewritten
    <3>2. PICK a, done : a = index.byUrl[page.url].elements /\ done = SubSeq(a, 1, k)
      OBVIOUS
    <3>3. IsRest(rest, a, k) /\ DoneSound(page, done)
      BY <3>1, <3>2 DEF RestIsRewritten
    <3>4. Cached(page.url)' /\ (index.byUrl[page.url].elements)' = a
      BY <2>1, <3>1, <3>2 DEF Cached
    <3>5. IsRest(rest, a, k)'
      BY <2>1, <3>3 DEF IsRest
    <3>6. DoneSound(page, done)'
      BY <2>1, <3>3
      DEF DoneSound, ElementDone, StyleDone, SheetDone, StyleNeeds, Settled, Fits, Cached, BudgetOk,
          IsMoreThanASheet, IsOther
    <3>7. RestIsRewritten(a, k)'
      BY <3>2, <3>5, <3>6 DEF RestIsRewritten
    <3>8. RestIsRewritten(index.byUrl[page.url].elements, k)'
      BY <3>4, <3>7
    <3> QED  BY <3>4, <3>8 DEF BeingRewritten
  <2>4. EveryPage'
    <3>1. \A k, w \in Nat : PagesAre(k, w) => PagesAre(k, w)'
      BY <2>1, SamePages
    <3> QED  BY <2>1, <3>1 DEF PageInv, EveryPage
  <2> QED  BY <2>1, <2>2, <2>3, <2>4 DEF PageInv
<1> QED  BY <1>1, <1>2

LEMMA InOnePlaceIs ==
    ASSUME NEW p, Sound(p)
    PROVE  InOnePlace(p)
<1>1. /\ p.found \in Seq(References) /\ p.missing \in Seq(References)
      /\ Distinct(p.found) /\ Distinct(p.missing)
      /\ ToSet(p.found) = p.inlined /\ p.seen = p.inlined \cup ToSet(p.missing)
      /\ \A u \in ToSet(p.missing) : u \notin p.inlined
  BY DEF Sound, PagesOver
<1>2. PICK s \in Seq(References), t \in Seq(References) : s = p.found /\ t = p.missing
  BY <1>1
<1>3. PICK both : both = s \o t
  OBVIOUS
<1>4. /\ Len(s) \in Nat /\ Len(t) \in Nat /\ DOMAIN both = 1..(Len(s) + Len(t))
      /\ \A i \in DOMAIN both : both[i] = IF i <= Len(s) THEN s[i] ELSE t[i - Len(s)]
  <2>1. both \in Seq(References) /\ Len(both) = Len(s) + Len(t)
        /\ \A i \in 1..(Len(s) + Len(t)) : both[i] = IF i <= Len(s) THEN s[i] ELSE t[i - Len(s)]
    BY <1>2, <1>3, ConcatProperties
  <2> QED  BY <2>1
<1>5. \A i \in DOMAIN s, j \in DOMAIN t : s[i] # t[j]
  <2> SUFFICES ASSUME NEW i \in DOMAIN s, NEW j \in DOMAIN t PROVE s[i] # t[j]
    OBVIOUS
  <2>1. s[i] \in ToSet(s) /\ t[j] \in ToSet(t)
    BY ElementsAre
  <2> QED  BY <1>1, <1>2, <2>1
<1>6. ASSUME NEW i \in DOMAIN both, NEW j \in DOMAIN both, both[i] = both[j], i <= j
      PROVE  i = j
  <2>1. CASE j <= Len(s)
    <3>1. i \in DOMAIN s /\ j \in DOMAIN s /\ s[i] = s[j]
      BY <1>4, <1>6, <2>1
    <3> QED  BY <1>1, <1>2, <3>1 DEF Distinct
  <2>2. CASE i <= Len(s) /\ ~(j <= Len(s))
    <3>1. i \in DOMAIN s /\ j - Len(s) \in DOMAIN t /\ s[i] = t[j - Len(s)]
      BY <1>4, <1>6, <2>2
    <3> QED  BY <1>5, <3>1
  <2>3. CASE ~(i <= Len(s))
    <3>1. /\ i - Len(s) \in DOMAIN t /\ j - Len(s) \in DOMAIN t
          /\ t[i - Len(s)] = t[j - Len(s)]
      BY <1>4, <1>6, <2>3
    <3>2. i - Len(s) = j - Len(s)
      BY <1>1, <1>2, <3>1 DEF Distinct
    <3> QED  BY <1>4, <3>2
  <2> QED  BY <1>4, <2>1, <2>2, <2>3
<1>7. ASSUME NEW i \in DOMAIN both, NEW j \in DOMAIN both, both[i] = both[j]
      PROVE  i = j
  <2>1. i <= j \/ j <= i
    BY <1>4
  <2> QED  BY <1>6, <1>7, <2>1
<1>8. IsInjective(both)
  BY <1>7 DEF IsInjective
<1> QED  BY <1>1, <1>2, <1>3, <1>8 DEF InOnePlace

LEMMA PageInvImplies == PageInv => PageIsAccountedFor
<1> SUFFICES ASSUME PageInv PROVE PageIsAccountedFor
  OBVIOUS
<1>1. InOnePlace(page) /\ ToSet(page.found) = page.inlined /\ page.count <= MaxSubresources + 1
  BY InOnePlaceIs DEF PageInv, Sound
<1>2. ASSUME stage = "rewriting", NEW all, all = index.byUrl[page.url].elements,
             NEW done, done = SubSeq(all, 1, Len(all) - Len(rest))
      PROVE  \A u \in NeededBy(page, done) \ page.seen : Cached(u) /\ ~Fits(page, u)
  <2>1. PICK k \in Nat : RestIsRewritten(all, k)
    BY <1>2 DEF PageInv, BeingRewritten
  <2>2. IsList(all) /\ \A n \in DOMAIN all : IsElement(all[n])
    BY <1>2, CachedElements DEF PageInv, BeingRewritten
  <2>3. IsRest(rest, all, k) /\ DoneSound(page, SubSeq(all, 1, k))
    BY <2>1 DEF RestIsRewritten
  <2>4. /\ Len(all) \in Nat /\ DOMAIN all = 1..Len(all) /\ Len(rest) = Len(all) - k
        /\ k \in 0..Len(all)
    <3>1. Len(all) \in Nat /\ Len(rest) = Len(all) - k
      BY <2>2, <2>3, RestIs
    <3> QED  BY <2>2, <2>3, <3>1, ListIs DEF IsRest
  <2>5. Len(all) - Len(rest) = k
    BY <2>4
  <2>6. DoneSound(page, done)
    BY <1>2, <2>3, <2>5
  <2>7. \A n \in DOMAIN done : IsElement(done[n])
    <3>1. DOMAIN done = 1..k /\ \A n \in 1..k : done[n] = all[n]
      BY <1>2, <2>2, <2>4, <2>5, FirstAre
    <3> QED  BY <2>2, <2>4, <3>1
  <2> QED  BY <2>6, <2>7, DoneIsAccounted
<1>3. ASSUME stage = "done", asked.format = "html", asked.url = NoAddress
      PROVE  /\ {written[name].url : name \in DOMAIN written} = ToSet(Entries("html"))
             /\ Cardinality(DOMAIN written) = Len(Entries("html"))
  <2>1. PICK k \in Nat, w \in Nat : PagesAre(k, w)
    BY <1>3 DEF PageInv, EveryPage
  <2>2. PICK E : E = Entries("html")
    OBVIOUS
  <2>3. /\ IsRest(pages, E, k) /\ w = k /\ pages = <<>>
        /\ {written[name].url : name \in DOMAIN written} = {E[i] : i \in 1..w}
        /\ Cardinality(DOMAIN written) = w
    BY <1>3, <2>1, <2>2 DEF PagesAre
  <2>4. IsList(E)
    BY <2>2, EntriesAre DEF PageInv
  <2>5. k = Len(E)
    BY <2>3, <2>4, RestIs
  <2>6. {E[i] : i \in 1..Len(E)} = ToSet(E)
    <3>1. DOMAIN E = 1..Len(E)
      BY <2>4, ListIs
    <3> QED  BY <3>1, ElementsAre
  <2> QED  BY <2>2, <2>3, <2>5, <2>6
<1> QED  BY <1>1, <1>2, <1>3 DEF PageIsAccountedFor

\* Whatever the caches hold, whatever the caps and whatever a page refers to: a page's
\* manifest lists each address once, as found if and only if its body is in the page;
\* nothing that the page needs is left out of it but what a style refers to beyond a budget;
\* and a run that is asked for no page in particular writes every cached one, each to a file
\* of its own (singlefile.rs 6-13, 27-33).
THEOREM PagesCorrect == PagesSpec => []PageIsAccountedFor
<1>1. PagesInit => PageInv
  BY PageInitSound
<1>2. PageInv /\ [PagesNext]_pageVars => PageInv'
  BY PageStepSound
<1>3. PageInv => PageIsAccountedFor
  BY PageInvImplies
<1> QED  BY <1>1, <1>2, <1>3, PTL DEF PagesSpec

=============================================================================
