--------------------------- MODULE InvestigateInv ---------------------------
(***************************************************************************)
(* The inductive invariant behind ResumeEquivalence and ResumableIsCurrent. *)
(*                                                                         *)
(* It follows a checkpoint through every place it can be: the resume file,  *)
(* its image on the disk, a temp file, the memory of a session.  In each,   *)
(* its units are parses of profiles of its root at its tier, and are        *)
(* current as long as its fingerprint is, if edits are seen by it: such an  *)
(* edit makes the claim void for ever, because a root's mtime never comes   *)
(* back; of an edit that escapes the fingerprint nothing is claimed.        *)
(* The session and the report are related to the evidence as the run opened *)
(* it instead, because the run may outlive its fingerprint.                 *)
(***************************************************************************)
EXTENDS Investigate

\* Every edit of the evidence moves the mtime of its root.
EditsAreSeen == ~NestedEdits

SoundUnits(cp) ==
    \A i \in DOMAIN cp.completed :
        LET u == cp.completed[i] IN
        /\ RootOf[u.key] = cp.fp.root
        /\ u.tier = cp.tier
        /\ EditsAreSeen /\ cp.fp.mtime = mtime[cp.fp.root] => u.ver = content[u.key]

DistinctKeys(completed) ==
    \A i, j \in DOMAIN completed : completed[i].key = completed[j].key => i = j

SoundCheckpoint(cp) ==
    /\ cp.fp.mtime <= mtime[cp.fp.root]
    /\ DistinctKeys(cp.completed)
    /\ SoundUnits(cp)

SoundFile(file) == IsSaved(file) => SoundCheckpoint(file.cp)

FilesSound ==
    /\ SoundFile(resume)
    /\ SoundFile(synced)
    /\ \A p \in Procs : SoundFile(tmp[p])

\* The unit is what is there now, if the profile is as the run opened it.
AsOpened(p, u) ==
    EditsAreSeen /\ content[u.key] = opened[p][u.key] => u.ver = content[u.key]

\* The index leads to every completed unit and to nothing else.
IndexExact(s) ==
    /\ \A k \in Profiles : s.index[k] # 0 =>
          /\ s.index[k] \in DOMAIN s.cp.completed
          /\ s.cp.completed[s.index[k]].key = k
    /\ \A i \in DOMAIN s.cp.completed : s.index[s.cp.completed[i].key] # 0

SessionSound(p) ==
    /\ sess[p] \in Sessions
    /\ SoundCheckpoint(sess[p].cp)
    /\ sess[p].cp.fp.root = run[p].root
    /\ sess[p].cp.tier = run[p].tier
    /\ IndexExact(sess[p])
    /\ \A i \in DOMAIN sess[p].cp.completed : AsOpened(p, sess[p].cp.completed[i])

Holding == {"record", "temp", "rename", "merge"}

UnitSound(p) ==
    /\ MoreProfiles(p)
    /\ unit[p].key = NextKey(p)
    /\ unit[p].tier = run[p].tier
    /\ AsOpened(p, unit[p])

ReportSound(p) ==
    \A i \in DOMAIN report[p] :
        /\ i <= Len(plan[p])
        /\ report[p][i].key = plan[p][i]
        /\ report[p][i].tier = run[p].tier
        /\ AsOpened(p, report[p][i])

ProcessSound(p) ==
    /\ pc[p] \notin {"idle", "open"} =>
          /\ \A q \in Profiles : opened[p][q] <= content[q]
          /\ Stateful(p) => SessionSound(p)
    /\ IF pc[p] \in {"idle", "open", "discover"}
       THEN report[p] = << >>
       ELSE \A i \in DOMAIN plan[p] : RootOf[plan[p][i]] = run[p].root
    /\ pc[p] = "parse" => MoreProfiles(p)
    /\ pc[p] \in Holding => UnitSound(p)
    /\ pc[p] \in {"record", "temp", "rename"} => Stateful(p)
    /\ EditsAreSeen /\ pc[p] = "record" /\ sess[p].cp.fp.mtime = mtime[run[p].root] =>
          unit[p].ver = content[unit[p].key]
    /\ ReportSound(p)

IInv == TypeOK /\ FilesSound /\ \A p \in Procs : ProcessSound(p)

-----------------------------------------------------------------------------
(* The resume file as an implementation of UnitLog.                        *)

\* A log is identified by the investigation that began it.
AsLog(file) ==
    IF IsSaved(file)
    THEN [id |-> <<file.cp.fp, file.cp.tier, file.cp.created>>,
          units |-> file.cp.completed]
    ELSE [id |-> << >>, units |-> << >>]

KeyOf(u) == u.key

Log == INSTANCE UnitLog WITH
    Key <- KeyOf, log <- AsLog(resume), stable <- AsLog(synced)

\* The resume file of one process at a time is a log of completed units:
\* what a run has recorded is never dropped, reordered or recorded twice by
\* a later run, a crash or an interrupt (only by another investigation or by
\* loss of power).
ImplementsUnitLog == Log!LogSpec
=============================================================================
