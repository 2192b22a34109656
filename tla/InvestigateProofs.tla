-------------------------- MODULE InvestigateProofs --------------------------
(***************************************************************************)
(* Proofs about Investigate for any number of processes, profiles, roots,  *)
(* runs and edits of either kind, crashes and losses of power included:    *)
(* what is resumed; how a run ends; and, of one process at a time, that    *)
(* its resume file implements UnitLog and that what the file holds is not  *)
(* parsed again.  Only that what is resumed is current asks for edits that *)
(* the fingerprint sees (EditsAreSeen).                                    *)
(***************************************************************************)
EXTENDS InvestigateInv, FiniteSetTheorems, TLAPS

LEMMA SequenceFacts ==
    ASSUME NEW S, NEW s \in Seq(S)
    PROVE  /\ Len(s) \in Nat
           /\ DOMAIN s = 1..Len(s)
           /\ \A i \in DOMAIN s : s[i] \in S
  OBVIOUS

\* The order of a discovery is a sequence of profiles under the root.
LEMMA OrdersAreSequences ==
    ASSUME NEW root \in Roots, NEW S \in SUBSET ProfilesUnder(root),
           NEW s \in Orders(S)
    PROVE  /\ s \in Seq(Profiles)
           /\ \A i \in DOMAIN s : RootOf[s[i]] = root
<1>1. S \subseteq Profiles
  BY DEF ProfilesUnder
<1>2. Cardinality(S) \in Nat
  BY <1>1, ProfilesAssumption, FS_Subset, FS_CardinalityType
<1>3. s \in [1..Cardinality(S) -> S]
  BY DEF Orders
<1>4. s \in [1..Cardinality(S) -> Profiles]
  BY <1>1, <1>3
<1>5. s \in Seq(Profiles)
  BY <1>2, <1>4
<1>6. \A i \in DOMAIN s : RootOf[s[i]] = root
  BY <1>3 DEF ProfilesUnder
<1> QED BY <1>5, <1>6

\* A session opened over a sound file is sound: what it resumes belongs to
\* the run's root and tier and is current, and its index is exact.
LEMMA OpenedSessionIsSound ==
    ASSUME mtime \in [Roots -> Nat], content \in [Profiles -> Nat],
           NEW file \in FileStates, SoundFile(file),
           NEW root \in Roots, NEW tier \in Tiers, NEW restart \in BOOLEAN,
           NEW now \in Nat,
           NEW s, s = ResumeOrNew(file, Fingerprint(root, mtime), tier, restart, now)
    PROVE  /\ s \in Sessions
           /\ SoundCheckpoint(s.cp)
           /\ s.cp.fp = Fingerprint(root, mtime)
           /\ s.cp.tier = tier
           /\ IndexExact(s)
           /\ \A i \in DOMAIN s.cp.completed :
                 EditsAreSeen => s.cp.completed[i].ver = content[s.cp.completed[i].key]
<1>0. Fingerprint(root, mtime) \in Fingerprints
  BY DEF Fingerprint, Fingerprints
<1>1. CASE ~restart /\ IsSaved(file) /\ Matches(file.cp, Fingerprint(root, mtime), tier)
  <2> DEFINE cp == file.cp
             seq == file.cp.completed
  <2>1. s = [cp |-> cp, index |-> IndexOf(seq)]
    BY <1>1 DEF ResumeOrNew
  <2>2. cp \in Checkpoints
    BY <1>1 DEF FileStates, IsSaved, Missing, Corrupt
  <2>3. seq \in Seq(Units) /\ cp.fp = Fingerprint(root, mtime) /\ cp.tier = tier
    BY <1>1, <2>2 DEF Checkpoints, Matches
  <2>4. SoundCheckpoint(cp)
    BY <1>1 DEF SoundFile
  <2>5. \A k \in Keys(seq) : \E i \in DOMAIN seq :
           seq[i].key = k /\ \A j \in DOMAIN seq : seq[j].key = k => j <= i
    <3> SUFFICES ASSUME NEW k \in Keys(seq)
                 PROVE  \E i \in DOMAIN seq :
                    seq[i].key = k /\ \A j \in DOMAIN seq : seq[j].key = k => j <= i
      OBVIOUS
    <3>1. PICK i \in DOMAIN seq : seq[i].key = k
      BY DEF Keys
    <3>2. \A j \in DOMAIN seq : seq[j].key = k => j = i
      BY <2>4, <3>1 DEF SoundCheckpoint, DistinctKeys
    <3>3. i <= i
      BY <2>3, <3>1
    <3> QED BY <3>1, <3>2, <3>3
  <2>6. \A k \in Keys(seq) :
           /\ IndexOf(seq)[k] \in DOMAIN seq
           /\ seq[IndexOf(seq)[k]].key = k
    <3>0. \A i \in DOMAIN seq : seq[i] \in Units
      BY <2>3, SequenceFacts
    <3>1. \A k \in Keys(seq) : k \in Profiles
      BY <3>0 DEF Keys, Units
    <3> QED BY <2>5, <3>1 DEF IndexOf
  <2>7. \A k \in Profiles : k \notin Keys(seq) => IndexOf(seq)[k] = 0
    BY DEF IndexOf
  <2>8. DOMAIN seq \subseteq Nat \ {0}
    <3>1. Len(seq) \in Nat /\ DOMAIN seq = 1..Len(seq)
      BY <2>3, SequenceFacts
    <3> HIDE DEF seq
    <3> QED BY <3>1
  <2>9. IndexOf(seq) \in Indexes
    <3>1. \A k \in Profiles : IndexOf(seq)[k] \in DOMAIN seq \cup {0}
      BY <2>6, <2>7
    <3>2. DOMAIN seq \cup {0} \subseteq Nat
      BY <2>8
    <3>3. \A k \in Profiles : IndexOf(seq)[k] \in Nat
      BY <3>1, <3>2
    <3> QED BY <3>3 DEF IndexOf, Indexes
  <2>10. IndexExact(s)
    <3>1. \A k \in Profiles : IndexOf(seq)[k] # 0 =>
            IndexOf(seq)[k] \in DOMAIN seq /\ seq[IndexOf(seq)[k]].key = k
      BY <2>6, <2>7
    <3>2. \A i \in DOMAIN seq : IndexOf(seq)[seq[i].key] # 0
      BY <2>6, <2>8 DEF Keys
    <3> QED BY <2>1, <3>1, <3>2 DEF IndexExact
  <2>11. \A i \in DOMAIN seq : EditsAreSeen => seq[i].ver = content[seq[i].key]
    BY <2>3, <2>4 DEF SoundCheckpoint, SoundUnits, Fingerprint
  <2> QED BY <2>1, <2>2, <2>3, <2>4, <2>9, <2>10, <2>11 DEF Sessions
<1>2. CASE ~(~restart /\ IsSaved(file) /\ Matches(file.cp, Fingerprint(root, mtime), tier))
  <2> DEFINE cp == NewCheckpoint(Fingerprint(root, mtime), tier, now)
  <2>1. s = [cp |-> cp, index |-> NoIndex]
    BY <1>2 DEF ResumeOrNew, FreshSession
  <2>2. cp \in Checkpoints /\ cp.completed = << >>
        /\ cp.fp = Fingerprint(root, mtime) /\ cp.tier = tier
    BY <1>0 DEF NewCheckpoint, Checkpoints
  <2>3. NoIndex \in Indexes /\ \A k \in Profiles : NoIndex[k] = 0
    BY DEF NoIndex, Indexes
  <2>4. SoundCheckpoint(cp)
    BY <2>2 DEF SoundCheckpoint, SoundUnits, DistinctKeys, Fingerprint
  <2>5. IndexExact(s)
    BY <2>1, <2>2, <2>3 DEF IndexExact
  <2> QED BY <2>1, <2>2, <2>3, <2>4, <2>5 DEF Sessions
<1> QED BY <1>1, <1>2

\* Recording a unit that is new to the session keeps the session sound.
LEMMA RecordedSessionIsSound ==
    ASSUME mtime \in [Roots -> Nat], content \in [Profiles -> Nat],
           NEW s \in Sessions, SoundCheckpoint(s.cp), IndexExact(s),
           NEW u \in Units, ~HasCompleted(s, u.key),
           RootOf[u.key] = s.cp.fp.root, u.tier = s.cp.tier,
           EditsAreSeen /\ s.cp.fp.mtime = mtime[s.cp.fp.root] => u.ver = content[u.key],
           NEW t, t = RecordInMemory(s, u)
    PROVE  /\ t \in Sessions
           /\ SoundCheckpoint(t.cp)
           /\ t.cp.fp = s.cp.fp
           /\ t.cp.tier = s.cp.tier
           /\ t.cp.completed = Append(s.cp.completed, u)
           /\ IndexExact(t)
<1> DEFINE old == s.cp.completed
           new == Append(s.cp.completed, u)
<1>1. s.cp \in Checkpoints /\ old \in Seq(Units) /\ s.index \in Indexes
  BY DEF Sessions, Checkpoints
<1>2. Len(old) \in Nat /\ DOMAIN old = 1..Len(old)
  BY <1>1
<1>3. /\ new \in Seq(Units)
      /\ DOMAIN new = 1..(Len(old) + 1)
      /\ \A i \in DOMAIN old : new[i] = old[i]
      /\ new[Len(old) + 1] = u
  BY <1>1
<1>4. t = [cp |-> [s.cp EXCEPT !.completed = new],
           index |-> [s.index EXCEPT ![u.key] = Len(old) + 1]]
  BY DEF RecordInMemory
<1>5. /\ t.cp = [s.cp EXCEPT !.completed = new]
      /\ t.index = [s.index EXCEPT ![u.key] = Len(old) + 1]
  BY <1>4
<1>6. /\ t.cp \in Checkpoints
      /\ t.cp.fp = s.cp.fp /\ t.cp.tier = s.cp.tier /\ t.cp.completed = new
  BY <1>1, <1>3, <1>5 DEF Checkpoints
<1>7. u.key \in Profiles
  BY DEF Units
<1>8. t.index \in Indexes
  BY <1>1, <1>2, <1>5, <1>7 DEF Indexes
<1>9. \A i \in DOMAIN new : i \in DOMAIN old \/ (i = Len(old) + 1 /\ new[i] = u)
  BY <1>2, <1>3
<1>10. \A i \in DOMAIN old : old[i].key # u.key
  BY DEF IndexExact, HasCompleted
<1>11. DistinctKeys(new)
  <2>1. DistinctKeys(old)
    BY DEF SoundCheckpoint
  <2> QED BY <1>3, <1>9, <1>10, <2>1 DEF DistinctKeys
<1>12. SoundUnits(t.cp)
  <2>1. SoundUnits(s.cp)
    BY DEF SoundCheckpoint
  <2> QED BY <1>3, <1>6, <1>9, <2>1 DEF SoundUnits
<1>13. IndexExact(t)
  <2>1. \A k \in Profiles : t.index[k] = IF k = u.key THEN Len(old) + 1 ELSE s.index[k]
    BY <1>1, <1>5 DEF Indexes
  <2>2. ASSUME NEW k \in Profiles, t.index[k] # 0
        PROVE  t.index[k] \in DOMAIN new /\ new[t.index[k]].key = k
    <3>1. CASE k = u.key
      BY <1>2, <1>3, <2>1, <3>1
    <3>2. CASE k # u.key
      <4>1. s.index[k] \in DOMAIN old /\ old[s.index[k]].key = k
        BY <2>1, <2>2, <3>2 DEF IndexExact
      <4>2. t.index[k] = s.index[k]
        BY <2>1, <3>2
      <4>3. DOMAIN old \subseteq DOMAIN new
        BY <1>2, <1>3
      <4>4. new[s.index[k]] = old[s.index[k]]
        BY <1>3, <4>1
      <4> HIDE DEF old, new
      <4> QED BY <4>1, <4>2, <4>3, <4>4
    <3> QED BY <3>1, <3>2
  <2>3. \A i \in DOMAIN new : new[i].key \in Profiles
    <3>1. \A i \in DOMAIN new : new[i] \in Units
      BY <1>3, SequenceFacts
    <3> QED BY <3>1 DEF Units
  <2>4. \A i \in DOMAIN new : t.index[new[i].key] # 0
    BY <1>2, <1>3, <1>9, <1>10, <2>1, <2>3 DEF IndexExact
  <2> QED BY <1>6, <2>2, <2>4 DEF IndexExact
<1>14. SoundCheckpoint(t.cp)
  BY <1>6, <1>11, <1>12 DEF SoundCheckpoint
<1>15. t \in Sessions
  BY <1>4, <1>6, <1>8, <1>5 DEF Sessions
<1> QED BY <1>6, <1>13, <1>14, <1>15

-----------------------------------------------------------------------------
(* What a step may do to the evidence, and what that does to a checkpoint.  *)

EvidenceMoves ==
    /\ \A r \in Roots : mtime[r] <= mtime'[r]
    /\ \A q \in Profiles :
          /\ content[q] <= content'[q]
          /\ EditsAreSeen /\ mtime'[RootOf[q]] = mtime[RootOf[q]] => content'[q] = content[q]

EvidenceOK == mtime \in [Roots -> Nat] /\ content \in [Profiles -> Nat]

LEMMA StillEvidenceMoves ==
    ASSUME EvidenceOK, UNCHANGED evidenceVars
    PROVE  EvidenceMoves
  BY DEF EvidenceOK, EvidenceMoves, evidenceVars

\* A checkpoint that was sound stays sound: an edit either leaves its root
\* alone or outdates its fingerprint.
LEMMA CheckpointStaysSound ==
    ASSUME EvidenceOK, EvidenceOK', EvidenceMoves,
           NEW cp \in Checkpoints, SoundCheckpoint(cp)
    PROVE  SoundCheckpoint(cp)'
<1>1. cp.fp.root \in Roots /\ cp.fp.mtime \in Nat /\ cp.completed \in Seq(Units)
  BY DEF Checkpoints, Fingerprints
<1>2. cp.fp.mtime <= mtime'[cp.fp.root]
  BY <1>1 DEF EvidenceOK, EvidenceMoves, SoundCheckpoint
<1>3. cp.fp.mtime = mtime'[cp.fp.root] => mtime[cp.fp.root] = mtime'[cp.fp.root]
  BY <1>1 DEF EvidenceOK, EvidenceMoves, SoundCheckpoint
<1>4. ASSUME NEW i \in DOMAIN cp.completed
      PROVE  LET u == cp.completed[i] IN
             /\ RootOf[u.key] = cp.fp.root
             /\ u.tier = cp.tier
             /\ EditsAreSeen /\ cp.fp.mtime = mtime'[cp.fp.root] => u.ver = content'[u.key]
  <2> DEFINE u == cp.completed[i]
  <2>1. u \in Units
    BY <1>1, SequenceFacts
  <2>2. /\ RootOf[u.key] = cp.fp.root
        /\ u.tier = cp.tier
        /\ EditsAreSeen /\ cp.fp.mtime = mtime[cp.fp.root] => u.ver = content[u.key]
    BY DEF SoundCheckpoint, SoundUnits
  <2>3. u.key \in Profiles
    BY <2>1 DEF Units
  <2> QED BY <1>3, <2>2, <2>3 DEF EvidenceMoves
<1>5. SoundUnits(cp)'
  BY <1>4 DEF SoundUnits
<1> QED BY <1>2, <1>5 DEF SoundCheckpoint

LEMMA FileStaysSound ==
    ASSUME EvidenceOK, EvidenceOK', EvidenceMoves,
           NEW file \in FileStates, SoundFile(file)
    PROVE  SoundFile(file)'
<1>1. IsSaved(file) => file.cp \in Checkpoints
  BY DEF FileStates, IsSaved, Missing, Corrupt
<1> QED BY <1>1, CheckpointStaysSound DEF SoundFile

-----------------------------------------------------------------------------
(* Every step keeps the types.                                             *)

LEMMA FileTypes ==
    /\ Missing \in FileStates
    /\ Corrupt \in FileStates
    /\ \A cp \in Checkpoints : Saved(cp) \in FileStates
    /\ \A s \in Sessions : s.cp \in Checkpoints
  BY DEF FileStates, Missing, Corrupt, Saved, Sessions

LEMMA ResetType ==
    ASSUME NEW T, NEW f \in [Procs -> T], NEW v \in T, NEW S
    PROVE  [p \in Procs |-> IF p \in S THEN v ELSE f[p]] \in [Procs -> T]
  OBVIOUS

LEMMA LeaveTypes ==
    ASSUME TypeOK, NEW S, NEW status \in Exits, Leave(S, status),
           UNCHANGED <<mtime, content, clock>>,
           resume' \in FileStates, synced' \in FileStates,
           out' \in [OutFiles -> OutStates]
    PROVE  TypeOK'
<1>1. Missing \in FileStates /\ "idle" \in PCs /\ NoOpened \in [Profiles -> Nat]
  BY FileTypes DEF PCs, NoOpened
<1>2. tmp' \in [Procs -> FileStates]
  BY <1>1, ResetType DEF TypeOK, Leave
<1>3. pc' \in [Procs -> PCs]
  BY <1>1, ResetType DEF TypeOK, Leave
<1>4. run' \in [Procs -> Runs \cup {NoRun}]
  <2>1. NoRun \in Runs \cup {NoRun}
    OBVIOUS
  <2> QED BY <2>1, ResetType DEF TypeOK, Leave
<1>5. plan' \in [Procs -> Seq(Profiles)] /\ report' \in [Procs -> Seq(Units)]
  <2>1. << >> \in Seq(Profiles) /\ << >> \in Seq(Units)
    OBVIOUS
  <2> QED BY <2>1, ResetType DEF TypeOK, Leave
<1>6. cancel' \in [Procs -> BOOLEAN]
  BY DEF TypeOK, Leave
<1>7. interrupted' \in [Procs -> BOOLEAN] /\ deepScope' \in [Procs -> BOOLEAN]
  BY DEF TypeOK, Leave
<1>8. sess' \in [Procs -> Sessions \cup {NoSession}]
  <2>1. NoSession \in Sessions \cup {NoSession}
    OBVIOUS
  <2> QED BY <2>1, ResetType DEF TypeOK, Leave
<1>9. unit' \in [Procs -> Units \cup {NoUnit}]
  <2>1. NoUnit \in Units \cup {NoUnit}
    OBVIOUS
  <2> QED BY <2>1, ResetType DEF TypeOK, Leave
<1>10. late' \in [Procs -> Nat] /\ exit' \in [Procs -> Exits]
  BY ResetType DEF TypeOK, Leave
<1>11. opened' \in [Procs -> [Profiles -> Nat]]
  BY <1>1, ResetType DEF TypeOK, Leave
<1>12. \A p \in Procs :
        /\ pc'[p] # "idle" => run'[p] \in Runs
        /\ pc'[p] \in {"record", "temp", "rename"} => sess'[p] \in Sessions
        /\ pc'[p] \in {"record", "temp", "rename", "merge"} => unit'[p] \in Units
  BY DEF TypeOK, Leave
<1> QED BY <1>2, <1>3, <1>4, <1>5, <1>6, <1>7, <1>8, <1>9, <1>10, <1>11, <1>12
        DEF TypeOK

LEMMA GotoMoves ==
    ASSUME TypeOK, NEW p \in Procs, NEW step \in PCs, Goto(p, step)
    PROVE  /\ pc' \in [Procs -> PCs]
           /\ pc'[p] = step
           /\ \A q \in Procs : q # p => pc'[q] = pc[q]
  BY DEF TypeOK, Goto

LEMMA NothingIsTyped == NoOutputs \in [OutFiles -> OutStates]
<1>1. [run |-> 0, whole |-> FALSE, says |-> {}, manifest |-> "manifest"] \in OutStates
  BY DEF OutStates, Manifests
<1> QED BY <1>1 DEF NoOutputs

LEMMA StepNames ==
    /\ {"idle", "open", "discover", "loop", "parse", "record", "temp", "rename",
        "merge", "looped", "deep", "render", "manifest"} \subseteq PCs
    /\ \A f \in OutSteps : f \in PCs /\ Filling[f] \in PCs
    /\ \A f \in OutSteps : \A p : AfterOut(p)[f] \in PCs
    /\ \A f \in OutSteps :
          /\ f \notin {"idle", "open", "discover", "parse"} \cup Holding
          /\ Filling[f] \notin {"idle", "open", "discover", "parse"} \cup Holding
          /\ \A p : AfterOut(p)[f] \notin {"idle", "open", "discover", "parse"} \cup Holding
<1>1. \A f \in OutSteps : f \in {"manifest", "summary", "findings"}
  BY DEF OutSteps
<1>2. \A f \in OutSteps :
        Filling[f] \in {"fill manifest", "fill summary", "fill findings"}
  <2>1. /\ Filling["manifest"] = "fill manifest"
        /\ Filling["summary"] = "fill summary"
        /\ Filling["findings"] = "fill findings"
    BY DEF Filling
  <2> QED BY <1>1, <2>1
<1>3. \A f \in OutSteps : \A p : AfterOut(p)[f] \in {"summary", "findings", "render"}
  <2> SUFFICES ASSUME NEW f \in OutSteps, NEW p
               PROVE  AfterOut(p)[f] \in {"summary", "findings", "render"}
    OBVIOUS
  <2>1. /\ AfterOut(p)["manifest"] \in {"summary", "render"}
        /\ AfterOut(p)["summary"] = "findings"
        /\ AfterOut(p)["findings"] = "render"
    BY DEF AfterOut
  <2> QED BY <1>1, <2>1
<1>4. \A f \in OutSteps : Filling[f] \in Fillings
  BY DEF Fillings
<1>5. OutSteps \subseteq PCs /\ Fillings \subseteq PCs
  BY DEF PCs
<1>6. \A f \in OutSteps : \A p : AfterOut(p)[f] \in PCs
  BY <1>3 DEF PCs, OutSteps
<1>7. {"idle", "open", "discover", "loop", "parse", "record", "temp", "rename",
       "merge", "looped", "deep", "render", "manifest"} \subseteq PCs
  BY DEF PCs, OutSteps
<1> QED BY <1>1, <1>2, <1>3, <1>4, <1>5, <1>6, <1>7 DEF Holding

LEMMA StepTypes ==
    ASSUME IInv, NEW p \in Procs, Step(p)
    PROVE  TypeOK'
<1>0. TypeOK /\ ProcessSound(p)
  BY DEF IInv
<1> USE DEF evidenceVars, diskVars, resultVars, historyVars, memoryVars
<1>1. CASE OpenCheckpoint(p)
  <2>1. run[p] \in Runs /\ mtime \in [Roots -> Nat] /\ content \in [Profiles -> Nat]
    BY <1>0, <1>1 DEF TypeOK, OpenCheckpoint
  <2>2. /\ run[p].root \in Roots /\ run[p].tier \in Tiers
        /\ run[p].restart \in BOOLEAN /\ run[p].id \in Nat
    BY <2>1 DEF Runs
  <2>3. resume \in FileStates /\ SoundFile(resume)
    BY <1>0 DEF IInv, FilesSound, TypeOK
  <2>4. ResumeOrNew(resume, Fingerprint(run[p].root, mtime), run[p].tier,
                    run[p].restart, run[p].id) \in Sessions
    BY <2>1, <2>2, <2>3, OpenedSessionIsSound
  <2>5. sess' \in [Procs -> Sessions \cup {NoSession}]
    BY <1>0, <1>1, <2>4 DEF TypeOK, OpenCheckpoint
  <2>6. opened' \in [Procs -> [Profiles -> Nat]]
    BY <1>0, <1>1, <2>1 DEF TypeOK, OpenCheckpoint
  <2>7. /\ pc' \in [Procs -> PCs]
        /\ pc'[p] = "discover"
        /\ \A q \in Procs : q # p => pc'[q] = pc[q]
    BY <1>0, <1>1, GotoMoves, StepNames DEF OpenCheckpoint
  <2>8. \A q \in Procs : q # p => sess'[q] = sess[q]
    BY <1>0, <1>1 DEF TypeOK, OpenCheckpoint
  <2> QED BY <1>0, <1>1, <2>1, <2>5, <2>6, <2>7, <2>8 DEF TypeOK, OpenCheckpoint
<1>2. CASE Discover(p)
  <2>1. run[p] \in Runs /\ run[p].root \in Roots
    BY <1>0, <1>2 DEF TypeOK, Discover, Runs
  <2>2. plan' \in [Procs -> Seq(Profiles)]
    <3>1. PICK S \in SUBSET ProfilesUnder(run[p].root) :
             \E order \in Orders(S) : plan' = [plan EXCEPT ![p] = order]
      BY <1>2 DEF Discover
    <3>2. PICK order \in Orders(S) : plan' = [plan EXCEPT ![p] = order]
      BY <3>1
    <3>3. order \in Seq(Profiles)
      BY <2>1, <3>2, OrdersAreSequences
    <3> QED BY <1>0, <3>2, <3>3 DEF TypeOK
  <2>3. /\ pc' \in [Procs -> PCs]
        /\ pc'[p] = "loop"
        /\ \A q \in Procs : q # p => pc'[q] = pc[q]
    BY <1>0, <1>2, GotoMoves, StepNames DEF Discover
  <2> QED BY <1>0, <1>2, <2>1, <2>2, <2>3 DEF TypeOK, Discover
<1>3. CASE LoopInterrupted(p)
  <2>1. /\ pc' \in [Procs -> PCs]
        /\ pc'[p] = "looped"
        /\ \A q \in Procs : q # p => pc'[q] = pc[q]
    BY <1>0, <1>3, GotoMoves, StepNames DEF LoopInterrupted
  <2>2. interrupted' \in [Procs -> BOOLEAN]
    BY <1>0, <1>3 DEF TypeOK, LoopInterrupted
  <2> QED BY <1>0, <1>3, <2>1, <2>2 DEF TypeOK, LoopInterrupted
<1>4. CASE ReuseUnit(p)
  <2> DEFINE u == CompletedUnit(sess[p], NextKey(p))
  <2>1. SessionSound(p) /\ MoreProfiles(p) /\ HasCompleted(sess[p], NextKey(p))
    BY <1>0, <1>4 DEF ReuseUnit, ProcessSound
  <2>2. NextKey(p) \in Profiles
    BY <1>0, <2>1 DEF TypeOK, NextKey, MoreProfiles
  <2>3. u \in Units
    <3>1. sess[p].cp.completed \in Seq(Units)
      BY <2>1 DEF SessionSound, Sessions, Checkpoints
    <3>2. sess[p].index[NextKey(p)] \in DOMAIN sess[p].cp.completed
      BY <2>1, <2>2 DEF SessionSound, IndexExact, HasCompleted
    <3> QED BY <3>1, <3>2, SequenceFacts DEF CompletedUnit
  <2>4. Append(report[p], u) \in Seq(Units)
    BY <1>0, <2>3 DEF TypeOK
  <2>5. report' \in [Procs -> Seq(Units)]
    BY <1>0, <1>4, <2>4 DEF TypeOK, ReuseUnit
  <2> QED BY <1>0, <1>4, <2>5 DEF TypeOK, ReuseUnit
<1>5. CASE BeginParse(p)
  <2>1. /\ pc' \in [Procs -> PCs]
        /\ pc'[p] = "parse"
        /\ \A q \in Procs : q # p => pc'[q] = pc[q]
    BY <1>0, <1>5, GotoMoves, StepNames DEF BeginParse
  <2> QED BY <1>0, <1>5, <2>1 DEF TypeOK, BeginParse
<1>6. CASE Parse(p)
  <2> DEFINE u == [key |-> NextKey(p), ver |-> content[NextKey(p)],
                   tier |-> run[p].tier]
  <2>1. MoreProfiles(p)
    BY <1>0, <1>6 DEF Parse, ProcessSound
  <2>2. NextKey(p) \in Profiles
    BY <1>0, <2>1 DEF TypeOK, NextKey, MoreProfiles
  <2>3. run[p] \in Runs
    BY <1>0, <1>6 DEF TypeOK, Parse
  <2>4. u \in Units
    BY <1>0, <2>2, <2>3 DEF TypeOK, Units, Runs
  <2>5. unit' \in [Procs -> Units \cup {NoUnit}] /\ unit'[p] = u
        /\ \A q \in Procs : q # p => unit'[q] = unit[q]
    BY <1>0, <1>6, <2>4 DEF TypeOK, Parse
  <2>6. late' \in [Procs -> Nat]
    BY <1>0, <1>6 DEF TypeOK, Parse
  <2>7. /\ pc' \in [Procs -> PCs]
        /\ pc'[p] = IF Stateful(p) THEN "record" ELSE "merge"
        /\ \A q \in Procs : q # p => pc'[q] = pc[q]
    BY <1>0, <1>6, GotoMoves, StepNames DEF Parse
  <2>8. Stateful(p) => sess[p] \in Sessions
    BY <1>0, <1>6 DEF Parse, ProcessSound, SessionSound
  <2> QED BY <1>0, <1>6, <2>3, <2>4, <2>5, <2>6, <2>7, <2>8 DEF TypeOK, Parse
<1>7. CASE Record(p)
  <2>1. sess[p] \in Sessions /\ unit[p] \in Units /\ SessionSound(p) /\ UnitSound(p)
    BY <1>0, <1>7 DEF TypeOK, Record, ProcessSound, Holding
  <2>2. CASE HasCompleted(sess[p], unit[p].key)
    <3>1. /\ pc' \in [Procs -> PCs]
          /\ pc'[p] = "merge"
          /\ \A q \in Procs : q # p => pc'[q] = pc[q]
      BY <1>0, <1>7, <2>2, GotoMoves, StepNames DEF Record
    <3> QED BY <1>0, <1>7, <2>1, <2>2, <3>1 DEF TypeOK, Record
  <2>3. CASE ~HasCompleted(sess[p], unit[p].key)
    <3>1. /\ pc' \in [Procs -> PCs]
          /\ pc'[p] = "temp"
          /\ \A q \in Procs : q # p => pc'[q] = pc[q]
      BY <1>0, <1>7, <2>3, GotoMoves, StepNames DEF Record
    <3>2. RecordInMemory(sess[p], unit[p]) \in Sessions
      <4>1. sess[p].cp \in Checkpoints /\ sess[p].cp.completed \in Seq(Units)
            /\ sess[p].index \in Indexes
        BY <2>1 DEF Sessions, Checkpoints
      <4>2. Append(sess[p].cp.completed, unit[p]) \in Seq(Units)
        BY <2>1, <4>1
      <4>3. [sess[p].cp EXCEPT !.completed = Append(sess[p].cp.completed, unit[p])]
              \in Checkpoints
        BY <4>1, <4>2 DEF Checkpoints
      <4>4. Len(sess[p].cp.completed) + 1 \in Nat
        BY <4>1, SequenceFacts
      <4>5. [sess[p].index EXCEPT ![unit[p].key] = Len(sess[p].cp.completed) + 1]
              \in Indexes
        BY <4>1, <4>4 DEF Indexes
      <4> QED BY <4>3, <4>5 DEF RecordInMemory, Sessions
    <3>3. sess' = [sess EXCEPT ![p] = RecordInMemory(sess[p], unit[p])]
      BY <1>7, <2>3 DEF Record
    <3>4. /\ sess' \in [Procs -> Sessions \cup {NoSession}]
          /\ sess'[p] \in Sessions
          /\ \A q \in Procs : q # p => sess'[q] = sess[q]
      BY <1>0, <3>2, <3>3 DEF TypeOK
    <3> QED BY <1>0, <1>7, <2>1, <3>1, <3>4 DEF TypeOK, Record
  <2> QED BY <2>2, <2>3
<1>8. CASE WriteTemp(p)
  <2>1. /\ pc' \in [Procs -> PCs]
        /\ pc'[p] = "rename"
        /\ \A q \in Procs : q # p => pc'[q] = pc[q]
    BY <1>0, <1>8, GotoMoves, StepNames DEF WriteTemp
  <2>2. sess[p] \in Sessions /\ unit[p] \in Units /\ run[p] \in Runs
    BY <1>0, <1>8 DEF TypeOK, WriteTemp
  <2>3. Saved(sess[p].cp) \in FileStates
    BY <2>2, FileTypes
  <2>4. tmp' \in [Procs -> FileStates]
    BY <1>0, <1>8, <2>3 DEF TypeOK, WriteTemp
  <2> QED BY <1>0, <1>8, <2>1, <2>2, <2>4 DEF TypeOK, WriteTemp
<1>9. CASE Rename(p)
  <2>1. /\ pc' \in [Procs -> PCs]
        /\ pc'[p] = "merge"
        /\ \A q \in Procs : q # p => pc'[q] = pc[q]
    BY <1>0, <1>9, GotoMoves, StepNames DEF Rename
  <2>2. unit[p] \in Units /\ run[p] \in Runs
    BY <1>0, <1>9 DEF TypeOK, Rename
  <2>3. tmp' \in [Procs -> FileStates] /\ resume' \in FileStates
    BY <1>0, <1>9, FileTypes DEF TypeOK, Rename
  <2> QED BY <1>0, <1>9, <2>1, <2>2, <2>3 DEF TypeOK, Rename
<1>10. CASE Merge(p)
  <2>1. /\ pc' \in [Procs -> PCs]
        /\ pc'[p] = "loop"
        /\ \A q \in Procs : q # p => pc'[q] = pc[q]
    BY <1>0, <1>10, GotoMoves, StepNames DEF Merge
  <2>2. unit[p] \in Units /\ run[p] \in Runs
    BY <1>0, <1>10 DEF TypeOK, Merge
  <2>3. Append(report[p], unit[p]) \in Seq(Units)
    BY <1>0, <2>2 DEF TypeOK
  <2>4. report' \in [Procs -> Seq(Units)]
    BY <1>0, <1>10, <2>3 DEF TypeOK, Merge
  <2> QED BY <1>0, <1>10, <2>1, <2>2, <2>4 DEF TypeOK, Merge
<1>11. CASE LoopDone(p)
  <2>1. /\ pc' \in [Procs -> PCs]
        /\ pc'[p] = "looped"
        /\ \A q \in Procs : q # p => pc'[q] = pc[q]
    BY <1>0, <1>11, GotoMoves, StepNames DEF LoopDone
  <2> QED BY <1>0, <1>11, <2>1 DEF TypeOK, LoopDone
<1>12. CASE BeginDeep(p)
  <2>1. /\ pc' \in [Procs -> PCs]
        /\ pc'[p] = "deep"
        /\ \A q \in Procs : q # p => pc'[q] = pc[q]
    BY <1>0, <1>12, GotoMoves, StepNames DEF BeginDeep
  <2> QED BY <1>0, <1>12, <2>1 DEF TypeOK, BeginDeep
<1>13. CASE DeepDone(p)
  <2>1. /\ pc' \in [Procs -> PCs]
        /\ pc'[p] \in {"manifest", "render"}
        /\ \A q \in Procs : q # p => pc'[q] = pc[q]
    BY <1>0, <1>13, GotoMoves, StepNames DEF DeepDone
  <2>2. deepScope' \in [Procs -> BOOLEAN]
    BY <1>0, <1>13 DEF TypeOK, DeepDone
  <2> QED BY <1>0, <1>13, <2>1, <2>2 DEF TypeOK, DeepDone
<1>14. CASE SkipDeep(p)
  <2>1. /\ pc' \in [Procs -> PCs]
        /\ pc'[p] \in {"manifest", "render"}
        /\ \A q \in Procs : q # p => pc'[q] = pc[q]
    BY <1>0, <1>14, GotoMoves, StepNames DEF SkipDeep
  <2> QED BY <1>0, <1>14, <2>1 DEF TypeOK, SkipDeep
<1>15. ASSUME NEW f \in OutSteps, TruncateOut(p, f) \/ FillOut(p, f)
       PROVE  TypeOK'
  <2>1. /\ pc' \in [Procs -> PCs]
        /\ pc'[p] \in {Filling[f], AfterOut(p)[f]}
        /\ \A q \in Procs : q # p => pc'[q] = pc[q]
    BY <1>0, <1>15, GotoMoves, StepNames DEF TruncateOut, FillOut
  <2>2. pc'[p] \notin {"idle"} \cup Holding
    BY <2>1, StepNames
  <2>3. pc[p] # "idle"
    BY <1>15, StepNames DEF TruncateOut, FillOut
  <2>4. run[p] \in Runs
    BY <1>0, <2>3 DEF TypeOK
  <2>5. OutClaims(p, f) \in SUBSET Claims
    BY DEF OutClaims, FooterClaims, Claims
  <2>6. out' \in [OutFiles -> OutStates]
    <3>1. \E o \in OutStates : out' = [out EXCEPT ![FileOf(p, f)] = o]
      <4>1. [run |-> run[p].id, whole |-> FALSE, says |-> {},
             manifest |-> ManifestOf(p)] \in OutStates
        BY <2>4 DEF OutStates, Runs, ManifestOf, Manifests
      <4>2. [run |-> run[p].id, whole |-> TRUE, says |-> OutClaims(p, f),
             manifest |-> ManifestOf(p)] \in OutStates
        BY <2>4, <2>5 DEF OutStates, Runs, ManifestOf, Manifests
      <4> QED BY <1>15, <4>1, <4>2 DEF TruncateOut, FillOut
    <3> QED BY <1>0, <3>1 DEF TypeOK
  <2>7. /\ UNCHANGED <<evidenceVars, diskVars, clock, run, plan, cancel, sess,
                       unit, report, resultVars, historyVars, exit>>
    BY <1>15 DEF TruncateOut, FillOut
  <2> QED BY <1>0, <2>1, <2>2, <2>4, <2>6, <2>7 DEF TypeOK, Holding
<1>16. CASE Render(p)
  <2>1. \E status \in Exits : Leave({p}, status)
    BY <1>16 DEF Render, Exits
  <2> QED BY <1>0, <1>16, <2>1, LeaveTypes DEF TypeOK, Render
<1>17. CASE Fail(p)
  <2>1. "error" \in Exits
    BY DEF Exits
  <2> QED BY <1>0, <1>17, <2>1, LeaveTypes DEF TypeOK, Fail
<1> QED BY <1>1, <1>2, <1>3, <1>4, <1>5, <1>6, <1>7, <1>8, <1>9, <1>10, <1>11,
           <1>12, <1>13, <1>14, <1>15, <1>16, <1>17 DEF Step

LEMMA SurroundingTypes ==
    ASSUME IInv, Surroundings
    PROVE  TypeOK'
<1>0. TypeOK
  BY DEF IInv
<1> USE DEF evidenceVars, diskVars, resultVars, historyVars, memoryVars
<1>1. ASSUME NEW p \in Procs, Launch(p)
      PROVE  TypeOK'
  <2>1. /\ pc' \in [Procs -> PCs]
        /\ pc'[p] = "open"
        /\ \A q \in Procs : q # p => pc'[q] = pc[q]
    BY <1>0, <1>1, GotoMoves, StepNames DEF Launch
  <2>2. clock' \in Nat /\ clock' = clock + 1
    BY <1>0, <1>1 DEF TypeOK, Launch
  <2>3. PICK root \in Roots, line \in Launches :
           run' = [run EXCEPT ![p] =
                     [id |-> clock + 1, root |-> root, tier |-> line.tier,
                      restart |-> line.restart, output |-> line.output,
                      manifest |-> line.manifest]]
    BY <1>1 DEF Launch
  <2>4. line \in [tier: Tiers, restart: BOOLEAN, output: BOOLEAN, manifest: BOOLEAN]
    BY BoundsAssumption
  <2>5. [id |-> clock + 1, root |-> root, tier |-> line.tier,
         restart |-> line.restart, output |-> line.output,
         manifest |-> line.manifest] \in Runs
    BY <2>2, <2>4 DEF Runs
  <2>6. /\ run' \in [Procs -> Runs \cup {NoRun}] /\ run'[p] \in Runs
        /\ \A q \in Procs : q # p => run'[q] = run[q]
    BY <1>0, <2>3, <2>5 DEF TypeOK
  <2>7. exit' \in [Procs -> Exits]
    BY <1>0, <1>1 DEF TypeOK, Launch, Exits
  <2> QED BY <1>0, <1>1, <2>1, <2>2, <2>6, <2>7 DEF TypeOK, Launch
<1>2. ASSUME NEW p \in Procs, Interrupt(p)
      PROVE  TypeOK'
  BY <1>0, <1>2 DEF TypeOK, Interrupt
<1>3. ASSUME NEW p \in Procs, InterruptAgain(p) \/ Crash(p)
      PROVE  TypeOK'
  <2>1. \E status \in Exits : Leave({p}, status)
    BY <1>3 DEF InterruptAgain, Crash, Exits
  <2> QED BY <1>0, <1>3, <2>1, LeaveTypes DEF TypeOK, InterruptAgain, Crash
<1>4. CASE WriteBack
  BY <1>0, <1>4 DEF TypeOK, WriteBack
<1>5. CASE PowerLoss
  <2>1. "killed" \in Exits
    BY DEF Exits
  <2>2. resume' \in FileStates /\ synced' \in FileStates
    BY <1>0, <1>5, FileTypes DEF TypeOK, PowerLoss
  <2>3. out' \in [OutFiles -> OutStates]
    <3>1. NoOutputs \in [OutFiles -> OutStates]
      BY NothingIsTyped
    <3> QED BY <1>0, <1>5, <3>1 DEF TypeOK, PowerLoss
  <2> QED BY <1>0, <1>5, <2>1, <2>2, <2>3, LeaveTypes DEF TypeOK, PowerLoss
<1>6. ASSUME NEW r \in Roots, EditRoot(r)
      PROVE  TypeOK'
  <2>1. mtime' \in [Roots -> Nat] /\ content' \in [Profiles -> Nat]
    BY <1>0, <1>6 DEF TypeOK, EditRoot
  <2> QED BY <1>0, <1>6, <2>1 DEF TypeOK, EditRoot
<1>7. ASSUME NEW q \in Profiles, EditNested(q)
      PROVE  TypeOK'
  <2>1. content' \in [Profiles -> Nat]
    BY <1>0, <1>7 DEF TypeOK, EditNested
  <2> QED BY <1>0, <1>7, <2>1 DEF TypeOK, EditNested
<1> QED BY <1>1, <1>2, <1>3, <1>4, <1>5, <1>6, <1>7 DEF Surroundings

-----------------------------------------------------------------------------
(* Every step keeps what is known of a process.                            *)

SameMemory(p) ==
    /\ pc'[p] = pc[p] /\ run'[p] = run[p] /\ plan'[p] = plan[p]
    /\ sess'[p] = sess[p] /\ unit'[p] = unit[p] /\ report'[p] = report[p]
    /\ opened'[p] = opened[p]

\* What AsOpened says of a unit survives an edit: a profile that has changed
\* never again looks as it did when the run opened it.
LEMMA AsOpenedStays ==
    ASSUME EvidenceOK, EvidenceOK', EvidenceMoves, NEW p, NEW u,
           u.key \in Profiles, opened'[p] = opened[p],
           opened[p][u.key] \in Nat, opened[p][u.key] <= content[u.key],
           AsOpened(p, u)
    PROVE  AsOpened(p, u)'
  BY DEF EvidenceOK, EvidenceMoves, AsOpened

LEMMA SessionStaysSound ==
    ASSUME EvidenceOK, EvidenceOK', EvidenceMoves, NEW p,
           opened[p] \in [Profiles -> Nat],
           \A q \in Profiles : opened[p][q] <= content[q],
           SessionSound(p), sess'[p] = sess[p], run'[p] = run[p],
           opened'[p] = opened[p]
    PROVE  SessionSound(p)'
<1>1. PICK s \in Sessions : s = sess[p] /\ s = sess'[p]
  BY DEF SessionSound
<1>2. s.cp \in Checkpoints /\ s.cp.completed \in Seq(Units)
  BY DEF Sessions, Checkpoints
<1>3. SoundCheckpoint(s.cp)'
  BY <1>1, <1>2, CheckpointStaysSound DEF SessionSound
<1>4. ASSUME NEW i \in DOMAIN s.cp.completed
      PROVE  AsOpened(p, s.cp.completed[i])'
  <2>1. s.cp.completed[i] \in Units
    BY <1>2, SequenceFacts
  <2>2. s.cp.completed[i].key \in Profiles
    BY <2>1 DEF Units
  <2>3. AsOpened(p, s.cp.completed[i])
    BY <1>1 DEF SessionSound
  <2> QED BY <2>2, <2>3, AsOpenedStays
<1>5. IndexExact(s) /\ s.cp.fp.root = run[p].root /\ s.cp.tier = run[p].tier
  BY <1>1 DEF SessionSound
<1>6. SoundCheckpoint(sess[p].cp)'
  BY <1>1, <1>3 DEF SoundCheckpoint, SoundUnits
<1>7. (\A i \in DOMAIN sess[p].cp.completed : AsOpened(p, sess[p].cp.completed[i]))'
  BY <1>1, <1>4 DEF AsOpened
<1>8. IndexExact(sess[p])'
  BY <1>1, <1>5 DEF IndexExact
<1> QED BY <1>1, <1>5, <1>6, <1>7, <1>8 DEF SessionSound

\* A process that keeps its memory keeps what its memory says, whatever
\* happens to the evidence and wherever the process goes.
LEMMA MemoryStaysSound ==
    ASSUME TypeOK, TypeOK', EvidenceMoves, NEW p \in Procs, ProcessSound(p),
           run'[p] = run[p], plan'[p] = plan[p], sess'[p] = sess[p],
           unit'[p] = unit[p], report'[p] = report[p], opened'[p] = opened[p],
           pc[p] \notin {"idle", "open"}
    PROVE  /\ \A q \in Profiles : opened'[p][q] <= content'[q]
           /\ Stateful(p) => SessionSound(p)'
           /\ ReportSound(p)'
           /\ unit[p] \in Units /\ UnitSound(p) => UnitSound(p)'
<1>0. EvidenceOK /\ EvidenceOK'
  BY DEF TypeOK, EvidenceOK
<1>1. /\ opened[p] \in [Profiles -> Nat]
      /\ \A q \in Profiles : opened[p][q] <= content[q]
  BY DEF TypeOK, ProcessSound
<1>2. \A q \in Profiles : opened'[p][q] <= content'[q]
  BY <1>0, <1>1 DEF EvidenceOK, EvidenceMoves
<1>3. Stateful(p) => SessionSound(p)'
  BY <1>0, <1>1, SessionStaysSound DEF ProcessSound
<1>4. \A u : u \in Units /\ AsOpened(p, u) =>
               (EditsAreSeen /\ content'[u.key] = opened'[p][u.key] => u.ver = content'[u.key])
  BY <1>0, <1>1 DEF EvidenceOK, EvidenceMoves, AsOpened, Units
<1>5. ReportSound(p)'
  <2>1. \A i \in DOMAIN report[p] : report[p][i] \in Units
    BY SequenceFacts DEF TypeOK
  <2>2. ReportSound(p)
    BY DEF ProcessSound
  <2> QED BY <1>4, <2>1, <2>2 DEF ReportSound, AsOpened
<1>6. unit[p] \in Units /\ UnitSound(p) => UnitSound(p)'
  BY <1>4 DEF UnitSound, AsOpened, MoreProfiles, NextKey
<1> QED BY <1>2, <1>3, <1>5, <1>6

LEMMA FrameSound ==
    ASSUME TypeOK, TypeOK', EvidenceMoves, NEW p \in Procs, ProcessSound(p),
           SameMemory(p)
    PROVE  ProcessSound(p)'
<1>1. CASE pc[p] \in {"idle", "open"}
  BY <1>1 DEF SameMemory, ProcessSound, Holding, ReportSound
<1>2. CASE pc[p] \notin {"idle", "open"}
  <2>1. /\ \A q \in Profiles : opened'[p][q] <= content'[q]
        /\ Stateful(p) => SessionSound(p)'
        /\ ReportSound(p)'
        /\ unit[p] \in Units /\ UnitSound(p) => UnitSound(p)'
    BY <1>2, MemoryStaysSound DEF SameMemory
  <2>2. pc[p] \in Holding => unit[p] \in Units /\ UnitSound(p)
    BY DEF TypeOK, Holding, ProcessSound
  <2>3. EditsAreSeen /\ pc[p] = "record" /\ sess[p].cp.fp.mtime = mtime'[run[p].root] =>
           unit[p].ver = content'[unit[p].key]
    <3> SUFFICES ASSUME EditsAreSeen, pc[p] = "record", sess[p].cp.fp.mtime = mtime'[run[p].root]
                 PROVE  unit[p].ver = content'[unit[p].key]
      OBVIOUS
    <3>1. Stateful(p) /\ SessionSound(p) /\ UnitSound(p) /\ unit[p] \in Units
      BY DEF ProcessSound, Holding, TypeOK
    <3>2. RootOf[unit[p].key] = run[p].root
      <4>1. Len(report[p]) + 1 \in DOMAIN plan[p]
        BY <3>1, SequenceFacts DEF TypeOK, UnitSound, MoreProfiles
      <4> QED BY <3>1, <4>1 DEF ProcessSound, UnitSound, NextKey
    <3>3. run[p].root \in Roots /\ unit[p].key \in Profiles
      BY <3>1 DEF TypeOK, Runs, Units
    <3>4. /\ sess[p].cp.fp.mtime \in Nat
          /\ sess[p].cp.fp.mtime <= mtime[run[p].root]
      BY <3>1 DEF SessionSound, SoundCheckpoint, Sessions, Checkpoints, Fingerprints
    <3>5. mtime[run[p].root] = mtime'[run[p].root]
      BY <3>3, <3>4 DEF EvidenceMoves, TypeOK
    <3>6. unit[p].ver = content[unit[p].key]
      BY <3>5 DEF ProcessSound
    <3> QED BY <3>2, <3>3, <3>5, <3>6 DEF EvidenceMoves
  <2>4. MoreProfiles(p)' = MoreProfiles(p) /\ Stateful(p)' = Stateful(p)
    BY DEF SameMemory, MoreProfiles, Stateful
  <2> QED BY <1>2, <2>1, <2>2, <2>3, <2>4 DEF SameMemory, ProcessSound
<1> QED BY <1>1, <1>2

LEMMA LeaveSound ==
    ASSUME TypeOK, TypeOK', EvidenceMoves, \A q \in Procs : ProcessSound(q),
           NEW S, NEW status, Leave(S, status)
    PROVE  (\A p \in Procs : ProcessSound(p))'
<1> SUFFICES ASSUME NEW p \in Procs
             PROVE  ProcessSound(p)'
  OBVIOUS
<1>1. CASE p \in S
  <2>1. pc'[p] = "idle" /\ report'[p] = << >>
    BY <1>1 DEF Leave
  <2> QED BY <2>1 DEF ProcessSound, Holding, ReportSound
<1>2. CASE p \notin S
  BY <1>2, FrameSound DEF Leave, SameMemory
<1> QED BY <1>1, <1>2

\* A process that only moves on between steps that hold nothing.
LEMMA QuietSound ==
    ASSUME TypeOK, TypeOK', EvidenceMoves, NEW p \in Procs, ProcessSound(p),
           run'[p] = run[p], plan'[p] = plan[p], sess'[p] = sess[p],
           unit'[p] = unit[p], report'[p] = report[p], opened'[p] = opened[p],
           pc[p] \notin {"idle", "open", "discover"},
           pc'[p] \notin {"idle", "open", "discover", "parse"} \cup Holding
    PROVE  ProcessSound(p)'
<1>1. /\ \A q \in Profiles : opened'[p][q] <= content'[q]
      /\ Stateful(p) => SessionSound(p)'
      /\ ReportSound(p)'
  BY MemoryStaysSound
<1>2. Stateful(p)' = Stateful(p)
  BY DEF Stateful
<1> QED BY <1>1, <1>2 DEF ProcessSound, Holding

LEMMA StepSound ==
    ASSUME IInv, NEW p \in Procs, Step(p), TypeOK'
    PROVE  FilesSound' /\ (\A q \in Procs : ProcessSound(q))'
<1> USE DEF evidenceVars, diskVars, resultVars, historyVars, memoryVars
<1>0. TypeOK /\ FilesSound /\ \A q \in Procs : ProcessSound(q)
  BY DEF IInv
<1>1. UNCHANGED evidenceVars
  BY DEF Step, OpenCheckpoint, Discover, LoopInterrupted, ReuseUnit, BeginParse,
         Parse, Record, WriteTemp, Rename, Merge, LoopDone, BeginDeep, DeepDone,
         SkipDeep, TruncateOut, FillOut, Render, Fail
<1>2. EvidenceOK /\ EvidenceOK' /\ EvidenceMoves
  BY <1>0, <1>1, StillEvidenceMoves DEF EvidenceOK, TypeOK
<1>3. \A file \in FileStates : SoundFile(file) => SoundFile(file)'
  BY <1>2, FileStaysSound
<1>4. /\ resume \in FileStates /\ synced \in FileStates
      /\ \A q \in Procs : tmp[q] \in FileStates
  BY <1>0 DEF TypeOK
<1>5. SoundFile(Missing)' /\ SoundFile(Corrupt)'
  BY DEF SoundFile, IsSaved, Missing, Corrupt
<1>6. ASSUME UNCHANGED diskVars
      PROVE  FilesSound'
  BY <1>0, <1>1, <1>6 DEF FilesSound, SoundFile, SoundCheckpoint, SoundUnits, IsSaved
<1>7. ASSUME NEW S, NEW status, Leave(S, status), UNCHANGED <<resume, synced>>
      PROVE  FilesSound' /\ (\A q \in Procs : ProcessSound(q))'
  <2>1. (\A q \in Procs : ProcessSound(q))'
    BY <1>0, <1>2, <1>7, LeaveSound
  <2>2. \A q \in Procs : tmp'[q] = Missing \/ tmp'[q] = tmp[q]
    BY <1>7 DEF Leave
  <2>3. \A q \in Procs : SoundFile(tmp[q])'
    BY <1>0, <1>1, <2>2
       DEF FilesSound, SoundFile, SoundCheckpoint, SoundUnits, IsSaved, Missing
  <2>4. SoundFile(resume)' /\ SoundFile(synced)'
    BY <1>0, <1>1, <1>7 DEF FilesSound, SoundFile, SoundCheckpoint, SoundUnits, IsSaved
  <2> QED BY <2>1, <2>3, <2>4 DEF FilesSound
<1>8. ASSUME ProcessSound(p)',
             \A q \in Procs : q # p => SameMemory(q)
      PROVE  (\A q \in Procs : ProcessSound(q))'
  BY <1>0, <1>2, <1>8, FrameSound
<1>9. CASE OpenCheckpoint(p)
  <2>1. run[p] \in Runs /\ run'[p] = run[p] /\ report'[p] = report[p]
        /\ pc'[p] = "discover" /\ pc[p] = "open" /\ opened'[p] = content
    BY <1>0, <1>9 DEF TypeOK, OpenCheckpoint, Goto
  <2>2. PICK s : s = ResumeOrNew(resume, Fingerprint(run[p].root, mtime),
                                 run[p].tier, run[p].restart, run[p].id)
    OBVIOUS
  <2>3. /\ s \in Sessions
        /\ SoundCheckpoint(s.cp)
        /\ s.cp.fp = Fingerprint(run[p].root, mtime)
        /\ s.cp.tier = run[p].tier
        /\ IndexExact(s)
        /\ \A i \in DOMAIN s.cp.completed :
              EditsAreSeen => s.cp.completed[i].ver = content[s.cp.completed[i].key]
    <3>1. /\ run[p].root \in Roots /\ run[p].tier \in Tiers
          /\ run[p].restart \in BOOLEAN /\ run[p].id \in Nat
      BY <2>1 DEF Runs
    <3>2. SoundFile(resume)
      BY <1>0 DEF FilesSound
    <3>3. mtime \in [Roots -> Nat] /\ content \in [Profiles -> Nat]
      BY <1>2 DEF EvidenceOK
    <3> QED BY <1>4, <2>2, <3>1, <3>2, <3>3, OpenedSessionIsSound
  <2>4. s.cp.fp.root = run[p].root
    BY <2>3 DEF Fingerprint
  <2>5. Stateful(p) => sess'[p] = s
    BY <1>0, <1>9, <2>2 DEF OpenCheckpoint, TypeOK
  <2>6. Stateful(p) => SessionSound(p)'
    <3> SUFFICES ASSUME Stateful(p)
                 PROVE  SessionSound(p)'
      OBVIOUS
    <3>1. sess'[p] = s
      BY <2>5
    <3>2. SoundCheckpoint(sess[p].cp)'
      BY <1>1, <2>3, <3>1 DEF SoundCheckpoint, SoundUnits
    <3>3. IndexExact(sess[p])'
      BY <2>3, <3>1 DEF IndexExact
    <3>4. (\A i \in DOMAIN sess[p].cp.completed : AsOpened(p, sess[p].cp.completed[i]))'
      BY <1>1, <2>1, <2>3, <3>1 DEF AsOpened
    <3> QED BY <2>1, <2>3, <2>4, <3>1, <3>2, <3>3, <3>4 DEF SessionSound
  <2>7. \A q \in Profiles : opened'[p][q] <= content'[q]
    BY <1>0, <1>1, <2>1 DEF TypeOK
  <2>8. report[p] = << >>
    BY <1>0, <2>1 DEF ProcessSound
  <2>9. ProcessSound(p)'
    BY <2>1, <2>6, <2>7, <2>8 DEF ProcessSound, Stateful, Holding, ReportSound
  <2>10. \A q \in Procs : q # p => SameMemory(q)
    BY <1>0, <1>9 DEF TypeOK, OpenCheckpoint, Goto, SameMemory
  <2>11. UNCHANGED diskVars
    BY <1>9 DEF OpenCheckpoint
  <2> QED BY <1>6, <1>8, <2>9, <2>10, <2>11
<1>10. CASE Discover(p)
  <2>1. PICK S \in SUBSET ProfilesUnder(run[p].root) :
           \E order \in Orders(S) : plan' = [plan EXCEPT ![p] = order]
    BY <1>10 DEF Discover
  <2>2. PICK order \in Orders(S) : plan' = [plan EXCEPT ![p] = order]
    BY <2>1
  <2>3. run[p].root \in Roots
    BY <1>0, <1>10 DEF TypeOK, Discover, Runs
  <2>4. \A i \in DOMAIN order : RootOf[order[i]] = run[p].root
    BY <2>2, <2>3, OrdersAreSequences
  <2>5. /\ plan'[p] = order /\ pc'[p] = "loop" /\ pc[p] = "discover"
        /\ run'[p] = run[p] /\ sess'[p] = sess[p] /\ report'[p] = report[p]
        /\ opened'[p] = opened[p]
    BY <1>0, <1>10, <2>2 DEF TypeOK, Discover, Goto
  <2>6. report[p] = << >>
    BY <1>0, <2>5 DEF ProcessSound
  <2>7. /\ \A q \in Profiles : opened'[p][q] <= content'[q]
        /\ Stateful(p) => SessionSound(p)'
    <3>1. opened[p] \in [Profiles -> Nat]
      BY <1>0 DEF TypeOK
    <3>2. \A q \in Profiles : opened[p][q] <= content[q]
      BY <1>0, <2>5 DEF ProcessSound
    <3>3. Stateful(p) => SessionSound(p)
      BY <1>0, <2>5 DEF ProcessSound
    <3> QED BY <1>1, <1>2, <2>5, <3>1, <3>2, <3>3, SessionStaysSound
  <2>8. ProcessSound(p)'
    BY <2>4, <2>5, <2>6, <2>7 DEF ProcessSound, Stateful, Holding, ReportSound
  <2>9. \A q \in Procs : q # p => SameMemory(q)
    BY <1>0, <1>10 DEF TypeOK, Discover, Goto, SameMemory
  <2>10. UNCHANGED diskVars
    BY <1>10 DEF Discover
  <2> QED BY <1>6, <1>8, <2>8, <2>9, <2>10
<1>11. CASE LoopInterrupted(p)
  <2>1. pc[p] \notin {"idle", "open", "discover"}
        /\ pc'[p] \notin {"idle", "open", "discover", "parse"} \cup Holding
    BY <1>0, <1>11 DEF TypeOK, LoopInterrupted, Goto, Holding
  <2>2. ProcessSound(p)'
    BY <1>0, <1>2, <1>11, <2>1, QuietSound DEF LoopInterrupted
  <2>3. \A q \in Procs : q # p => SameMemory(q)
    BY <1>0, <1>11 DEF TypeOK, LoopInterrupted, Goto, SameMemory
  <2>4. UNCHANGED diskVars
    BY <1>11 DEF LoopInterrupted
  <2> QED BY <1>6, <1>8, <2>2, <2>3, <2>4
<1>12. CASE ReuseUnit(p)
  <2> DEFINE k == NextKey(p)
             u == CompletedUnit(sess[p], k)
  <2>1. /\ pc[p] = "loop" /\ pc'[p] = "loop" /\ Stateful(p) /\ MoreProfiles(p)
        /\ run'[p] = run[p] /\ plan'[p] = plan[p] /\ sess'[p] = sess[p]
        /\ opened'[p] = opened[p] /\ report'[p] = Append(report[p], u)
    BY <1>0, <1>12 DEF TypeOK, ReuseUnit
  <2>2. SessionSound(p)
    BY <1>0, <2>1 DEF ProcessSound
  <2>3. Len(report[p]) + 1 \in DOMAIN plan[p] /\ Len(report[p]) + 1 <= Len(plan[p])
        /\ Len(report[p]) \in Nat
    BY <1>0, <2>1, SequenceFacts DEF TypeOK, MoreProfiles
  <2>4. k \in Profiles /\ k = plan[p][Len(report[p]) + 1]
    BY <1>0, <2>3, SequenceFacts DEF TypeOK, NextKey
  <2>5. /\ sess[p].index[k] \in DOMAIN sess[p].cp.completed
        /\ u = sess[p].cp.completed[sess[p].index[k]]
        /\ u.key = k
    BY <1>12, <2>2, <2>4 DEF ReuseUnit, HasCompleted, SessionSound, IndexExact,
                            CompletedUnit
  <2>6. SoundUnits(sess[p].cp) /\ sess[p].cp.tier = run[p].tier
    BY <2>2 DEF SessionSound, SoundCheckpoint
  <2>7. u.tier = run[p].tier /\ AsOpened(p, u)
    BY <2>2, <2>5, <2>6 DEF SessionSound, SoundUnits
  <2>8. /\ \A q \in Profiles : opened'[p][q] <= content'[q]
        /\ Stateful(p) => SessionSound(p)'
    <3>1. opened[p] \in [Profiles -> Nat]
      BY <1>0 DEF TypeOK
    <3>2. \A q \in Profiles : opened[p][q] <= content[q]
      BY <1>0, <2>1 DEF ProcessSound
    <3> QED BY <1>1, <1>2, <2>1, <2>2, <3>1, <3>2, SessionStaysSound
  <2>9. ReportSound(p)'
    <3>1. ReportSound(p) /\ report[p] \in Seq(Units)
      BY <1>0 DEF ProcessSound, TypeOK
    <3>2. \A i \in DOMAIN report'[p] :
             \/ i \in DOMAIN report[p] /\ report'[p][i] = report[p][i]
             \/ i = Len(report[p]) + 1 /\ report'[p][i] = u
      BY <2>1, <3>1
    <3> QED BY <1>1, <2>1, <2>3, <2>4, <2>5, <2>7, <3>1, <3>2 DEF ReportSound, AsOpened
  <2>10. ProcessSound(p)'
    BY <1>0, <2>1, <2>8, <2>9 DEF ProcessSound, Stateful, Holding
  <2>11. \A q \in Procs : q # p => SameMemory(q)
    BY <1>0, <1>12 DEF TypeOK, ReuseUnit, SameMemory
  <2>12. UNCHANGED diskVars
    BY <1>12 DEF ReuseUnit
  <2> QED BY <1>6, <1>8, <2>10, <2>11, <2>12
<1>13. CASE BeginParse(p)
  <2>1. /\ pc[p] = "loop" /\ pc'[p] = "parse" /\ MoreProfiles(p)
        /\ run'[p] = run[p] /\ plan'[p] = plan[p] /\ sess'[p] = sess[p]
        /\ unit'[p] = unit[p] /\ report'[p] = report[p] /\ opened'[p] = opened[p]
    BY <1>0, <1>13 DEF TypeOK, BeginParse, Goto
  <2>2. /\ \A q \in Profiles : opened'[p][q] <= content'[q]
        /\ Stateful(p) => SessionSound(p)'
        /\ ReportSound(p)'
    BY <1>0, <1>2, <2>1, MemoryStaysSound
  <2>3. ProcessSound(p)'
    BY <1>0, <2>1, <2>2 DEF ProcessSound, Stateful, Holding, MoreProfiles
  <2>4. \A q \in Procs : q # p => SameMemory(q)
    BY <1>0, <1>13 DEF TypeOK, BeginParse, Goto, SameMemory
  <2>5. UNCHANGED diskVars
    BY <1>13 DEF BeginParse
  <2> QED BY <1>6, <1>8, <2>3, <2>4, <2>5
<1>14. CASE Parse(p)
  <2> DEFINE u == [key |-> NextKey(p), ver |-> content[NextKey(p)], tier |-> run[p].tier]
  <2>1. /\ pc[p] = "parse" /\ pc'[p] = IF Stateful(p) THEN "record" ELSE "merge"
        /\ run'[p] = run[p] /\ plan'[p] = plan[p] /\ sess'[p] = sess[p]
        /\ unit'[p] = u /\ report'[p] = report[p] /\ opened'[p] = opened[p]
    BY <1>0, <1>14 DEF TypeOK, Parse, Goto
  <2>2. MoreProfiles(p) /\ ReportSound(p)
    BY <1>0, <2>1 DEF ProcessSound
  <2>3. /\ \A q \in Profiles : opened'[p][q] <= content'[q]
        /\ Stateful(p) => SessionSound(p)'
    <3>1. opened[p] \in [Profiles -> Nat]
      BY <1>0 DEF TypeOK
    <3>2. \A q \in Profiles : opened[p][q] <= content[q]
      BY <1>0, <2>1 DEF ProcessSound
    <3>3. Stateful(p) => SessionSound(p)
      BY <1>0, <2>1 DEF ProcessSound
    <3> QED BY <1>1, <1>2, <2>1, <3>1, <3>2, <3>3, SessionStaysSound
  <2>4. ReportSound(p)'
    BY <1>1, <2>1, <2>2 DEF ReportSound, AsOpened
  <2>5. UnitSound(p)'
    BY <1>1, <2>1, <2>2 DEF UnitSound, AsOpened, MoreProfiles, NextKey
  <2>6. unit'[p].ver = content'[unit'[p].key]
    BY <1>1, <2>1
  <2>7. ProcessSound(p)'
    BY <1>0, <2>1, <2>3, <2>4, <2>5, <2>6 DEF ProcessSound, Stateful, Holding
  <2>8. \A q \in Procs : q # p => SameMemory(q)
    BY <1>0, <1>14 DEF TypeOK, Parse, Goto, SameMemory
  <2>9. UNCHANGED diskVars
    BY <1>14 DEF Parse
  <2> QED BY <1>6, <1>8, <2>7, <2>8, <2>9
<1>15. CASE Record(p)
  <2>1. /\ pc[p] = "record" /\ run'[p] = run[p] /\ plan'[p] = plan[p]
        /\ unit'[p] = unit[p] /\ report'[p] = report[p] /\ opened'[p] = opened[p]
    BY <1>15 DEF Record
  <2>2. /\ Stateful(p) /\ SessionSound(p) /\ UnitSound(p) /\ ReportSound(p)
        /\ unit[p] \in Units /\ unit[p].key \in Profiles
    BY <1>0, <2>1 DEF ProcessSound, Holding, TypeOK, Units
  <2>3. \A q \in Procs : q # p => SameMemory(q)
    BY <1>0, <1>15 DEF TypeOK, Record, Goto, SameMemory
  <2>4. UNCHANGED diskVars
    BY <1>15 DEF Record
  <2>5. /\ \A q \in Profiles : opened'[p][q] <= content'[q]
        /\ ReportSound(p)' /\ UnitSound(p)' /\ Stateful(p)'
    <3>1. \A q \in Profiles : opened[p][q] <= content[q]
      BY <1>0, <2>1 DEF ProcessSound
    <3>2. ReportSound(p)'
      BY <1>1, <2>1, <2>2 DEF ReportSound, AsOpened
    <3>3. UnitSound(p)'
      BY <1>1, <2>1, <2>2 DEF UnitSound, AsOpened, MoreProfiles, NextKey
    <3> QED BY <1>1, <2>1, <2>2, <3>1, <3>2, <3>3 DEF Stateful
  <2>6. \A i \in DOMAIN plan'[p] : RootOf[plan'[p][i]] = run'[p].root
    BY <1>0, <2>1 DEF ProcessSound
  <2>7. CASE HasCompleted(sess[p], unit[p].key)
    <3>1. pc'[p] = "merge" /\ sess'[p] = sess[p]
      BY <1>0, <1>15, <2>7 DEF TypeOK, Record, Goto
    <3>2. SessionSound(p)'
      <4>1. opened[p] \in [Profiles -> Nat]
        BY <1>0 DEF TypeOK
      <4>2. \A q \in Profiles : opened[p][q] <= content[q]
        BY <1>0, <2>1 DEF ProcessSound
      <4> QED BY <1>2, <2>1, <2>2, <3>1, <4>1, <4>2, SessionStaysSound
    <3>3. ProcessSound(p)'
      BY <2>5, <2>6, <3>1, <3>2 DEF ProcessSound, Holding
    <3> QED BY <1>6, <1>8, <2>3, <2>4, <3>3
  <2>8. CASE ~HasCompleted(sess[p], unit[p].key)
    <3>1. PICK s \in Sessions : s = sess[p]
      BY <2>2 DEF SessionSound
    <3>2. PICK t : t = RecordInMemory(s, unit[p])
      OBVIOUS
    <3>3. pc'[p] = "temp" /\ sess'[p] = t
      BY <1>0, <1>15, <2>8, <3>1, <3>2 DEF TypeOK, Record, Goto
    <3>4. /\ SoundCheckpoint(s.cp) /\ IndexExact(s)
          /\ s.cp.fp.root = run[p].root /\ s.cp.tier = run[p].tier
          /\ \A i \in DOMAIN s.cp.completed : AsOpened(p, s.cp.completed[i])
      BY <2>2, <3>1 DEF SessionSound
    <3>5. RootOf[unit[p].key] = s.cp.fp.root
      <4>1. Len(report[p]) + 1 \in DOMAIN plan[p]
        BY <1>0, <2>2, SequenceFacts DEF TypeOK, UnitSound, MoreProfiles
      <4>2. unit[p].key = plan[p][Len(report[p]) + 1]
        BY <2>2 DEF UnitSound, NextKey
      <4>3. \A i \in DOMAIN plan[p] : RootOf[plan[p][i]] = run[p].root
        BY <1>0, <2>1 DEF ProcessSound
      <4> QED BY <3>4, <4>1, <4>2, <4>3
    <3>6. unit[p].tier = s.cp.tier /\ AsOpened(p, unit[p])
      BY <2>2, <3>4 DEF UnitSound
    <3>7. EditsAreSeen /\ s.cp.fp.mtime = mtime[s.cp.fp.root] => unit[p].ver = content[unit[p].key]
      BY <1>0, <2>1, <3>1, <3>4 DEF ProcessSound
    <3>8. /\ t \in Sessions
          /\ SoundCheckpoint(t.cp)
          /\ t.cp.fp = s.cp.fp
          /\ t.cp.tier = s.cp.tier
          /\ t.cp.completed = Append(s.cp.completed, unit[p])
          /\ IndexExact(t)
      BY <1>2, <2>2, <2>8, <3>1, <3>2, <3>4, <3>5, <3>6, <3>7,
         RecordedSessionIsSound DEF EvidenceOK
    <3>9. \A i \in DOMAIN t.cp.completed : AsOpened(p, t.cp.completed[i])
      <4>1. s.cp.completed \in Seq(Units)
        BY DEF Sessions, Checkpoints
      <4>2. \A i \in DOMAIN Append(s.cp.completed, unit[p]) :
               \/ /\ i \in DOMAIN s.cp.completed
                  /\ Append(s.cp.completed, unit[p])[i] = s.cp.completed[i]
               \/ Append(s.cp.completed, unit[p])[i] = unit[p]
        BY <2>2, <4>1
      <4> QED BY <3>4, <3>6, <3>8, <4>2
    <3>10. SessionSound(p)'
      <4>1. SoundCheckpoint(sess[p].cp)'
        BY <1>1, <3>3, <3>8 DEF SoundCheckpoint, SoundUnits
      <4>2. IndexExact(sess[p])'
        BY <3>3, <3>8 DEF IndexExact
      <4>3. (\A i \in DOMAIN sess[p].cp.completed : AsOpened(p, sess[p].cp.completed[i]))'
        BY <1>1, <2>1, <3>3, <3>9 DEF AsOpened
      <4> QED BY <2>1, <3>3, <3>4, <3>8, <4>1, <4>2, <4>3 DEF SessionSound
    <3>11. ProcessSound(p)'
      BY <2>5, <2>6, <3>3, <3>10 DEF ProcessSound, Holding
    <3> QED BY <1>6, <1>8, <2>3, <2>4, <3>11
  <2> QED BY <2>7, <2>8
<1>16. CASE WriteTemp(p) \/ Rename(p)
  <2>1. /\ pc[p] \in {"temp", "rename"} /\ pc'[p] \in {"rename", "merge"}
        /\ pc'[p] = "rename" => Stateful(p)'
        /\ run'[p] = run[p] /\ plan'[p] = plan[p] /\ sess'[p] = sess[p]
        /\ unit'[p] = unit[p] /\ report'[p] = report[p] /\ opened'[p] = opened[p]
    BY <1>0, <1>16 DEF TypeOK, WriteTemp, Rename, Goto, ProcessSound, Stateful
  <2>2. unit[p] \in Units /\ UnitSound(p) /\ Stateful(p) /\ SessionSound(p)
    BY <1>0, <2>1 DEF TypeOK, ProcessSound, Holding
  <2>3. /\ \A q \in Profiles : opened'[p][q] <= content'[q]
        /\ Stateful(p) => SessionSound(p)'
        /\ ReportSound(p)'
        /\ UnitSound(p)'
    BY <1>0, <1>2, <2>1, <2>2, MemoryStaysSound
  <2>4. ProcessSound(p)'
    BY <1>0, <2>1, <2>2, <2>3 DEF ProcessSound, Holding
  <2>5. \A q \in Procs : q # p => SameMemory(q)
    BY <1>0, <1>16 DEF TypeOK, WriteTemp, Rename, Goto, SameMemory
  <2>6. FilesSound'
    <3>1. SoundFile(Saved(sess[p].cp))
      BY <2>2 DEF SessionSound, SoundFile, Saved
    <3>2. Saved(sess[p].cp) \in FileStates
      BY <2>2, FileTypes DEF SessionSound
    <3>3. synced' = synced
      BY <1>16 DEF WriteTemp, Rename
    <3>4. resume' \in {resume, tmp[p]}
      BY <1>16 DEF WriteTemp, Rename
    <3>5. \A q \in Procs : tmp'[q] \in {tmp[q], Saved(sess[p].cp), Missing}
      BY <1>0, <1>16 DEF TypeOK, WriteTemp, Rename
    <3>6. PICK file : file = Saved(sess[p].cp)
      OBVIOUS
    <3>7. SoundFile(file)'
      BY <1>3, <3>1, <3>2, <3>6
    <3>8. PICK r, y : r = resume /\ y = synced
      OBVIOUS
    <3>9. SoundFile(r)' /\ SoundFile(y)'
      BY <1>0, <1>3, <1>4, <3>8 DEF FilesSound
    <3>10. ASSUME NEW q \in Procs
           PROVE  \E g : g = tmp[q] /\ SoundFile(g)'
      <4>1. PICK g : g = tmp[q]
        OBVIOUS
      <4> QED BY <1>0, <1>3, <1>4, <4>1 DEF FilesSound
    <3>11. SoundFile(resume)' /\ SoundFile(synced)'
      BY <3>3, <3>4, <3>8, <3>9, <3>10 DEF SoundFile, SoundCheckpoint, SoundUnits
    <3>12. ASSUME NEW q \in Procs
           PROVE  SoundFile(tmp[q])'
      BY <1>5, <3>5, <3>6, <3>7, <3>10 DEF SoundFile, SoundCheckpoint, SoundUnits
    <3> QED BY <3>11, <3>12 DEF FilesSound
  <2> QED BY <1>8, <2>4, <2>5, <2>6
<1>17. CASE Merge(p)
  <2>1. /\ pc[p] = "merge" /\ pc'[p] = "loop"
        /\ run'[p] = run[p] /\ plan'[p] = plan[p] /\ sess'[p] = sess[p]
        /\ opened'[p] = opened[p] /\ report'[p] = Append(report[p], unit[p])
    BY <1>0, <1>17 DEF TypeOK, Merge, Goto
  <2>2. unit[p] \in Units /\ UnitSound(p) /\ ReportSound(p)
    BY <1>0, <2>1 DEF TypeOK, ProcessSound, Holding
  <2>3. /\ Len(report[p]) + 1 <= Len(plan[p])
        /\ unit[p].key = plan[p][Len(report[p]) + 1]
    BY <1>0, <2>2, SequenceFacts DEF TypeOK, UnitSound, MoreProfiles, NextKey
  <2>4. /\ \A q \in Profiles : opened'[p][q] <= content'[q]
        /\ Stateful(p) => SessionSound(p)'
    <3>1. opened[p] \in [Profiles -> Nat]
      BY <1>0 DEF TypeOK
    <3>2. \A q \in Profiles : opened[p][q] <= content[q]
      BY <1>0, <2>1 DEF ProcessSound
    <3>3. Stateful(p) => SessionSound(p)
      BY <1>0, <2>1 DEF ProcessSound
    <3> QED BY <1>1, <1>2, <2>1, <3>1, <3>2, <3>3, SessionStaysSound
  <2>5. ReportSound(p)'
    <3>1. report[p] \in Seq(Units)
      BY <1>0 DEF TypeOK
    <3>2. \A i \in DOMAIN report'[p] :
             \/ i \in DOMAIN report[p] /\ report'[p][i] = report[p][i]
             \/ i = Len(report[p]) + 1 /\ report'[p][i] = unit[p]
      BY <2>1, <2>2, <3>1
    <3> QED BY <1>1, <2>1, <2>2, <2>3, <3>2 DEF ReportSound, UnitSound, AsOpened
  <2>6. ProcessSound(p)'
    BY <1>0, <2>1, <2>4, <2>5 DEF ProcessSound, Stateful, Holding
  <2>7. \A q \in Procs : q # p => SameMemory(q)
    BY <1>0, <1>17 DEF TypeOK, Merge, Goto, SameMemory
  <2>8. UNCHANGED diskVars
    BY <1>17 DEF Merge
  <2> QED BY <1>6, <1>8, <2>6, <2>7, <2>8
<1>18. CASE LoopDone(p)
  <2>1. pc[p] \notin {"idle", "open", "discover"}
        /\ pc'[p] \notin {"idle", "open", "discover", "parse"} \cup Holding
    BY <1>0, <1>18 DEF TypeOK, LoopDone, Goto, Holding
  <2>2. ProcessSound(p)'
    BY <1>0, <1>2, <1>18, <2>1, QuietSound DEF LoopDone
  <2>3. \A q \in Procs : q # p => SameMemory(q)
    BY <1>0, <1>18 DEF TypeOK, LoopDone, Goto, SameMemory
  <2>4. UNCHANGED diskVars
    BY <1>18 DEF LoopDone
  <2> QED BY <1>6, <1>8, <2>2, <2>3, <2>4
<1>19. CASE BeginDeep(p)
  <2>1. pc[p] \notin {"idle", "open", "discover"}
        /\ pc'[p] \notin {"idle", "open", "discover", "parse"} \cup Holding
    BY <1>0, <1>19 DEF TypeOK, BeginDeep, Goto, Holding
  <2>2. ProcessSound(p)'
    BY <1>0, <1>2, <1>19, <2>1, QuietSound DEF BeginDeep
  <2>3. \A q \in Procs : q # p => SameMemory(q)
    BY <1>0, <1>19 DEF TypeOK, BeginDeep, Goto, SameMemory
  <2>4. UNCHANGED diskVars
    BY <1>19 DEF BeginDeep
  <2> QED BY <1>6, <1>8, <2>2, <2>3, <2>4
<1>20. CASE DeepDone(p)
  <2>1. pc[p] \notin {"idle", "open", "discover"}
        /\ pc'[p] \notin {"idle", "open", "discover", "parse"} \cup Holding
    BY <1>0, <1>20 DEF TypeOK, DeepDone, Goto, Holding
  <2>2. ProcessSound(p)'
    BY <1>0, <1>2, <1>20, <2>1, QuietSound DEF DeepDone
  <2>3. \A q \in Procs : q # p => SameMemory(q)
    BY <1>0, <1>20 DEF TypeOK, DeepDone, Goto, SameMemory
  <2>4. UNCHANGED diskVars
    BY <1>20 DEF DeepDone
  <2> QED BY <1>6, <1>8, <2>2, <2>3, <2>4
<1>21. CASE SkipDeep(p)
  <2>1. pc[p] \notin {"idle", "open", "discover"}
        /\ pc'[p] \notin {"idle", "open", "discover", "parse"} \cup Holding
    BY <1>0, <1>21 DEF TypeOK, SkipDeep, Goto, Holding
  <2>2. ProcessSound(p)'
    BY <1>0, <1>2, <1>21, <2>1, QuietSound DEF SkipDeep
  <2>3. \A q \in Procs : q # p => SameMemory(q)
    BY <1>0, <1>21 DEF TypeOK, SkipDeep, Goto, SameMemory
  <2>4. UNCHANGED diskVars
    BY <1>21 DEF SkipDeep
  <2> QED BY <1>6, <1>8, <2>2, <2>3, <2>4
<1>22. ASSUME NEW f \in OutSteps, TruncateOut(p, f) \/ FillOut(p, f)
       PROVE  FilesSound' /\ (\A q \in Procs : ProcessSound(q))'
  <2>1. /\ pc[p] \in {f, Filling[f]}
        /\ pc'[p] \in {Filling[f], AfterOut(p)[f]}
    BY <1>0, <1>22 DEF TypeOK, TruncateOut, FillOut, Goto
  <2>2. pc[p] \notin {"idle", "open", "discover"}
        /\ pc'[p] \notin {"idle", "open", "discover", "parse"} \cup Holding
    BY <2>1, StepNames
  <2>3. ProcessSound(p)'
    BY <1>0, <1>2, <1>22, <2>2, QuietSound DEF TruncateOut, FillOut
  <2>4. \A q \in Procs : q # p => SameMemory(q)
    BY <1>0, <1>22 DEF TypeOK, TruncateOut, FillOut, Goto, SameMemory
  <2>5. UNCHANGED diskVars
    BY <1>22 DEF TruncateOut, FillOut
  <2> QED BY <1>6, <1>8, <2>3, <2>4, <2>5
<1>23. CASE Render(p) \/ Fail(p)
  <2>1. \E status : Leave({p}, status)
    BY <1>23 DEF Render, Fail
  <2>2. UNCHANGED <<resume, synced>>
    BY <1>23 DEF Render, Fail
  <2> QED BY <1>7, <2>1, <2>2
<1> QED BY <1>9, <1>10, <1>11, <1>12, <1>13, <1>14, <1>15, <1>16, <1>17, <1>18,
           <1>19, <1>20, <1>21, <1>22, <1>23 DEF Step

LEMMA SurroundingsSound ==
    ASSUME IInv, Surroundings, TypeOK'
    PROVE  FilesSound' /\ (\A q \in Procs : ProcessSound(q))'
<1> USE DEF evidenceVars, diskVars, resultVars, historyVars, memoryVars
<1>0. TypeOK /\ FilesSound /\ \A q \in Procs : ProcessSound(q)
  BY DEF IInv
<1>1. EvidenceOK /\ EvidenceOK'
  BY <1>0 DEF EvidenceOK, TypeOK
<1>2. /\ resume \in FileStates /\ synced \in FileStates
      /\ \A q \in Procs : tmp[q] \in FileStates
  BY <1>0 DEF TypeOK
<1>3. ASSUME EvidenceMoves, resume' \in {resume, synced, Corrupt},
             synced' \in {resume, synced, Corrupt},
             \A q \in Procs : tmp'[q] \in {tmp[q], Missing}
      PROVE  FilesSound'
  <2>1. \A file \in FileStates : SoundFile(file) => SoundFile(file)'
    BY <1>1, <1>3, FileStaysSound
  <2>2. SoundFile(Missing)' /\ SoundFile(Corrupt)'
    BY DEF SoundFile, IsSaved, Missing, Corrupt
  <2>3. PICK r, y : r = resume /\ y = synced
    OBVIOUS
  <2>4. SoundFile(r)' /\ SoundFile(y)'
    BY <1>0, <1>2, <2>1, <2>3 DEF FilesSound
  <2>5. SoundFile(resume)' /\ SoundFile(synced)'
    BY <1>3, <2>2, <2>3, <2>4 DEF SoundFile, SoundCheckpoint, SoundUnits
  <2>6. ASSUME NEW q \in Procs
        PROVE  SoundFile(tmp[q])'
    <3>1. PICK g : g = tmp[q]
      OBVIOUS
    <3>2. SoundFile(g)'
      BY <1>0, <1>2, <2>1, <3>1 DEF FilesSound
    <3> QED BY <1>3, <2>2, <3>1, <3>2 DEF SoundFile, SoundCheckpoint, SoundUnits
  <2> QED BY <2>5, <2>6 DEF FilesSound
<1>4. ASSUME UNCHANGED <<mtime, content>>
      PROVE  EvidenceMoves
  BY <1>1, <1>4, StillEvidenceMoves
<1>5. ASSUME EvidenceMoves, \A q \in Procs : SameMemory(q)
      PROVE  (\A q \in Procs : ProcessSound(q))'
  BY <1>0, <1>5, FrameSound
<1>6. ASSUME NEW p \in Procs, Launch(p)
      PROVE  FilesSound' /\ (\A q \in Procs : ProcessSound(q))'
  <2>1. EvidenceMoves
    BY <1>4, <1>6 DEF Launch
  <2>2. FilesSound'
    BY <1>3, <1>6, <2>1 DEF Launch
  <2>3. pc[p] = "idle" /\ pc'[p] = "open" /\ report'[p] = report[p]
    BY <1>0, <1>6 DEF TypeOK, Launch, Goto
  <2>4. report[p] = << >>
    BY <1>0, <2>3 DEF ProcessSound
  <2>5. ProcessSound(p)'
    BY <2>3, <2>4 DEF ProcessSound, Holding, ReportSound
  <2>6. ASSUME NEW q \in Procs, q # p
        PROVE  ProcessSound(q)'
    <3>1. SameMemory(q)
      BY <1>0, <1>6, <2>6 DEF TypeOK, Launch, Goto, SameMemory
    <3> QED BY <1>0, <2>1, <3>1, FrameSound
  <2> QED BY <2>2, <2>5, <2>6
<1>7. ASSUME NEW p \in Procs, Interrupt(p)
      PROVE  FilesSound' /\ (\A q \in Procs : ProcessSound(q))'
  <2>1. EvidenceMoves
    BY <1>4, <1>7 DEF Interrupt
  <2>2. \A q \in Procs : SameMemory(q)
    BY <1>7 DEF Interrupt, SameMemory
  <2>3. FilesSound'
    BY <1>3, <1>7, <2>1 DEF Interrupt
  <2> QED BY <1>5, <2>1, <2>2, <2>3
<1>8. ASSUME EvidenceMoves, NEW S, NEW status, Leave(S, status),
             resume' \in {resume, synced, Corrupt},
             synced' \in {resume, synced, Corrupt}
      PROVE  FilesSound' /\ (\A q \in Procs : ProcessSound(q))'
  <2>1. \A q \in Procs : tmp'[q] \in {tmp[q], Missing}
    BY <1>8 DEF Leave
  <2>2. FilesSound'
    BY <1>3, <1>8, <2>1
  <2>3. (\A q \in Procs : ProcessSound(q))'
    BY <1>0, <1>8, LeaveSound
  <2> QED BY <2>2, <2>3
<1>9. ASSUME NEW p \in Procs, InterruptAgain(p) \/ Crash(p)
      PROVE  FilesSound' /\ (\A q \in Procs : ProcessSound(q))'
  <2>1. EvidenceMoves /\ resume' = resume /\ synced' = synced
    BY <1>4, <1>9 DEF InterruptAgain, Crash
  <2>2. \E status : Leave({p}, status)
    BY <1>9 DEF InterruptAgain, Crash
  <2> QED BY <1>8, <2>1, <2>2
<1>10. CASE WriteBack
  <2>1. EvidenceMoves
    BY <1>4, <1>10 DEF WriteBack
  <2>2. \A q \in Procs : SameMemory(q)
    BY <1>10 DEF WriteBack, SameMemory
  <2>3. FilesSound'
    BY <1>3, <1>10, <2>1 DEF WriteBack
  <2> QED BY <1>5, <2>1, <2>2, <2>3
<1>11. CASE PowerLoss
  <2>1. EvidenceMoves
    BY <1>4, <1>11 DEF PowerLoss
  <2>2. resume' \in {resume, synced, Corrupt} /\ synced' = resume'
        /\ Leave(Running, "killed")
    BY <1>11 DEF PowerLoss
  <2> QED BY <1>8, <2>1, <2>2
<1>12. ASSUME NEW r \in Roots, EditRoot(r)
       PROVE  FilesSound' /\ (\A q \in Procs : ProcessSound(q))'
  <2>1. EvidenceMoves
    <3>1. /\ mtime'[r] = mtime[r] + 1
          /\ \A s \in Roots : s # r => mtime'[s] = mtime[s]
      BY <1>1, <1>12 DEF EditRoot, EvidenceOK
    <3>2. PICK S \in SUBSET ProfilesUnder(r) :
             content' = [q \in Profiles |->
                            IF q \in S THEN content[q] + 1 ELSE content[q]]
      BY <1>12 DEF EditRoot
    <3>3. \A q \in S : RootOf[q] = r
      BY <3>2 DEF ProfilesUnder
    <3>4. mtime[r] \in Nat /\ \A s \in Roots : mtime[s] \in Nat
      BY <1>1 DEF EvidenceOK
    <3>5. \A q \in Profiles : content[q] \in Nat
      BY <1>1 DEF EvidenceOK
    <3>6. \A s \in Roots : mtime[s] <= mtime'[s]
      BY <3>1, <3>4
    <3>7. ASSUME NEW q \in Profiles
          PROVE  /\ content[q] <= content'[q]
                 /\ mtime'[RootOf[q]] = mtime[RootOf[q]] => content'[q] = content[q]
      <4>1. content'[q] = IF q \in S THEN content[q] + 1 ELSE content[q]
        BY <3>2
      <4>2. content[q] \in Nat
        BY <3>5
      <4>3. CASE q \in S
        BY <3>1, <3>3, <3>4, <4>1, <4>2, <4>3
      <4>4. CASE q \notin S
        BY <4>1, <4>2, <4>4
      <4> QED BY <4>3, <4>4
    <3> QED BY <3>6, <3>7 DEF EvidenceMoves
  <2>2. \A q \in Procs : SameMemory(q)
    BY <1>12 DEF EditRoot, SameMemory
  <2>3. FilesSound'
    BY <1>3, <1>12, <2>1 DEF EditRoot
  <2> QED BY <1>5, <2>1, <2>2, <2>3
<1>13. ASSUME NEW q \in Profiles, EditNested(q)
       PROVE  FilesSound' /\ (\A p \in Procs : ProcessSound(p))'
  <2>1. EvidenceMoves
    <3>1. mtime' = mtime /\ ~EditsAreSeen
      BY <1>13 DEF EditNested, EditsAreSeen
    <3>2. \A k \in Profiles : content[k] \in Nat /\ content'[k] \in {content[k], content[k] + 1}
      BY <1>1, <1>13 DEF EditNested, EvidenceOK
    <3>3. \A s \in Roots : mtime[s] <= mtime'[s]
      BY <1>1, <3>1 DEF EvidenceOK
    <3>4. \A k \in Profiles : content[k] <= content'[k]
      BY <3>2
    <3> QED BY <3>1, <3>3, <3>4 DEF EvidenceMoves
  <2>2. \A p \in Procs : SameMemory(p)
    BY <1>13 DEF EditNested, SameMemory
  <2>3. FilesSound'
    BY <1>3, <1>13, <2>1 DEF EditNested
  <2> QED BY <1>5, <2>1, <2>2, <2>3
<1> QED BY <1>6, <1>7, <1>9, <1>10, <1>11, <1>12, <1>13 DEF Surroundings

-----------------------------------------------------------------------------
(* The invariant, and what follows from it.                                *)

LEMMA InitIInv == Init => IInv
<1> SUFFICES ASSUME Init
             PROVE  IInv
  OBVIOUS
<1>1. Missing \in FileStates /\ Corrupt \in FileStates
  BY FileTypes
<1>2. TypeOK
  BY <1>1, NothingIsTyped DEF Init, TypeOK, PCs, NoOpened, Exits
<1>3. FilesSound
  BY DEF Init, FilesSound, SoundFile, IsSaved, Missing, Corrupt
<1>4. \A p \in Procs : ProcessSound(p)
  BY DEF Init, ProcessSound, Holding, ReportSound
<1> QED BY <1>2, <1>3, <1>4 DEF IInv

LEMMA StutterSound ==
    ASSUME IInv, UNCHANGED vars
    PROVE  IInv'
<1> USE DEF vars, evidenceVars, diskVars, resultVars, historyVars, memoryVars
<1>0. TypeOK /\ FilesSound /\ \A p \in Procs : ProcessSound(p)
  BY DEF IInv
<1>1. TypeOK'
  BY <1>0 DEF TypeOK
<1>2. FilesSound'
  BY <1>0 DEF FilesSound, SoundFile, SoundCheckpoint, SoundUnits, IsSaved
<1>3. EvidenceMoves
  BY <1>0, StillEvidenceMoves DEF EvidenceOK, TypeOK
<1>4. (\A p \in Procs : ProcessSound(p))'
  BY <1>0, <1>1, <1>3, FrameSound DEF SameMemory
<1> QED BY <1>1, <1>2, <1>4 DEF IInv

\* The invariant is inductive: every session, saved or in memory, is of its root and
\* tier, has a profile once, and, as long as edits move the fingerprint, tells the truth
\* about the evidence.
THEOREM IInvInvariant == Spec => []IInv
<1>1. Init => IInv
  BY InitIInv
<1>2. IInv /\ [Next]_vars => IInv'
  <2> SUFFICES ASSUME IInv, [Next]_vars
               PROVE  IInv'
    OBVIOUS
  <2>1. ASSUME NEW p \in Procs, Step(p)
        PROVE  IInv'
    <3>1. TypeOK'
      BY <2>1, StepTypes
    <3> QED BY <2>1, <3>1, StepSound DEF IInv
  <2>2. CASE Surroundings
    <3>1. TypeOK'
      BY <2>2, SurroundingTypes
    <3> QED BY <2>2, <3>1, SurroundingsSound DEF IInv
  <2>3. CASE UNCHANGED vars
    BY <2>3, StutterSound
  <2> QED BY <2>1, <2>2, <2>3 DEF Next
<1> QED BY <1>1, <1>2, PTL DEF Spec

\* Every variable keeps its type; in particular whatever is resumed or reused
\* is a unit of the run's own profiles.
THEOREM TypeCorrect == Spec => []TypeOK
<1>1. IInv => TypeOK
  BY DEF IInv
<1> QED BY <1>1, IInvInvariant, PTL

\* A resumed, interrupted, crashed or shared run merges what an undisturbed
\* run would have merged (run_profile_loop, CheckpointSession).
THEOREM ResumeIsEquivalent ==
    ASSUME EditsAreSeen
    PROVE  Spec => []ResumeEquivalence
<1>1. IInv => ResumeEquivalence
  <2> SUFFICES ASSUME IInv, NEW p \in Procs, NEW i \in DOMAIN report[p]
               PROVE  LET q == plan[p][i] IN
                      /\ i <= Len(plan[p])
                      /\ report[p][i].key = q
                      /\ report[p][i].tier = run[p].tier
                      /\ content[q] = opened[p][q] => report[p][i].ver = content[q]
    BY DEF ResumeEquivalence
  <2>1. ReportSound(p)
    BY DEF IInv, ProcessSound
  <2> QED BY EditsAreSeen, <2>1 DEF ReportSound, AsOpened
<1> QED BY <1>1, IInvInvariant, PTL

\* Whatever .br4n6-resume.json holds, a run that finds the evidence matching
\* it finds only current parses in it (Checkpoint::matches).
THEOREM ResumableCheckpointIsCurrent ==
    ASSUME EditsAreSeen
    PROVE  Spec => []ResumableIsCurrent
<1>1. IInv => ResumableIsCurrent
  <2> SUFFICES ASSUME IInv, IsSaved(resume)
               PROVE  CurrentCheckpoint(resume.cp)
    BY DEF ResumableIsCurrent
  <2>1. SoundCheckpoint(resume.cp)
    BY DEF IInv, FilesSound, SoundFile
  <2> QED BY EditsAreSeen, <2>1 DEF SoundCheckpoint, SoundUnits, DistinctKeys, CurrentCheckpoint,
                      Fingerprint
<1> QED BY <1>1, IInvInvariant, PTL

-----------------------------------------------------------------------------
(* The resume file of one process at a time implements UnitLog, and what it holds is not *)
(* parsed again; how a run ends, what a Ctrl-C stops and what it leaves behind.          *)

OneProcess == \A p, q \in Procs : p = q

SameLog(a, b) == a.fp = b.fp /\ a.tier = b.tier /\ a.created = b.created

\* A session that had these units when the file was last written goes on
\* with the file, or begins anew under a number that no file bears yet.
Continues(p, units) ==
    \/ IsSaved(resume) /\ SameLog(resume.cp, sess[p].cp) /\ resume.cp.completed = units
    \/ /\ units = << >>
       /\ IsSaved(resume) =>
             /\ resume.cp.created < sess[p].cp.created
             /\ ~run[p].restart => ~Matches(resume.cp, sess[p].cp.fp, run[p].tier)

ButLast(s) == SubSeq(s, 1, Len(s) - 1)

\* Where a session stands to its file.
SessionOfFile(p) ==
    /\ sess[p].cp.created <= clock
    /\ IF pc[p] \in {"temp", "rename"}
       THEN /\ sess[p].cp.completed # << >>
            /\ Continues(p, ButLast(sess[p].cp.completed))
       ELSE Continues(p, sess[p].cp.completed)

LogOfProcess(p) ==
    /\ pc[p] # "idle" => run[p].id = clock
    /\ pc[p] = "open" /\ IsSaved(resume) => resume.cp.created < clock
    /\ pc[p] \notin {"idle", "open"} /\ Stateful(p) => SessionOfFile(p)
    /\ pc[p] = "rename" => tmp[p] = Saved(sess[p].cp)
    /\ pc[p] = "parse" /\ Stateful(p) => ~HasCompleted(sess[p], NextKey(p))

NoNewer(file) == IsSaved(file) => file.cp.created <= clock

LogInv ==
    /\ NoNewer(resume) /\ NoNewer(synced)
    /\ \A p \in Procs : LogOfProcess(p)

-----------------------------------------------------------------------------

LEMMA ButLastFacts ==
    ASSUME NEW S, NEW s \in Seq(S)
    PROVE  /\ \A e \in S : Append(s, e) # << >> /\ ButLast(Append(s, e)) = s
           /\ s # << >> => /\ Len(s) \in Nat \ {0}
                           /\ Len(ButLast(s)) = Len(s) - 1
                           /\ ButLast(s) = << >> => Len(s) = 1
<1>1. ASSUME NEW e \in S
      PROVE  Append(s, e) # << >> /\ ButLast(Append(s, e)) = s
  <2> DEFINE t == Append(s, e)
  <2>1. /\ t \in Seq(S) /\ Len(t) = Len(s) + 1
        /\ \A i \in 1..Len(s) : t[i] = s[i]
    OBVIOUS
  <2> HIDE DEF t
  <2>2. /\ ButLast(t) \in Seq(S) /\ Len(ButLast(t)) = Len(s)
        /\ \A i \in 1..Len(s) : ButLast(t)[i] = s[i]
    BY <2>1 DEF ButLast
  <2>3. ButLast(t) = s
    BY <2>2
  <2>4. t # << >>
    BY <2>1
  <2> QED BY <2>3, <2>4 DEF t
<1>2. ASSUME s # << >>
      PROVE  /\ Len(s) \in Nat \ {0}
             /\ Len(ButLast(s)) = Len(s) - 1
             /\ ButLast(s) = << >> => Len(s) = 1
  <2>1. Len(s) = 0 => s = << >>
    OBVIOUS
  <2>2. Len(s) \in Nat \ {0}
    BY <1>2, <2>1
  <2>3. Len(ButLast(s)) = Len(s) - 1
    <3>1. PICK n \in Nat : Len(s) = n + 1
      BY <2>2
    <3>2. Len(SubSeq(s, 1, n)) = n
      BY <3>1
    <3> QED BY <3>1, <3>2 DEF ButLast
  <2> QED BY <2>2, <2>3
<1> QED BY <1>1, <1>2

\* What the type invariant and IInv say of a session that is at hand.
LEMMA SessionFacts ==
    ASSUME IInv, NEW p \in Procs, pc[p] \notin {"idle", "open"}, Stateful(p)
    PROVE  /\ sess[p] \in Sessions /\ sess[p].cp.completed \in Seq(Units)
           /\ sess[p].cp \in Checkpoints
           /\ DistinctKeys(sess[p].cp.completed) /\ IndexExact(sess[p])
           /\ sess[p].cp.tier = run[p].tier
  BY DEF IInv, ProcessSound, SessionSound, SoundCheckpoint, Sessions, Checkpoints

LEMMA FilesHaveKinds ==
    ASSUME TypeOK
    PROVE  /\ IsSaved(resume) => resume.cp \in Checkpoints
           /\ IsSaved(synced) => synced.cp \in Checkpoints
  BY DEF TypeOK, FileStates, IsSaved, Missing, Corrupt

LEMMA InitLog == Init => LogInv
  BY DEF Init, LogInv, NoNewer, LogOfProcess, IsSaved, Missing, Corrupt

\* Where no step of a run is taken and its files stay, its session does.
LEMMA StillLog ==
    ASSUME LogInv,
           UNCHANGED <<resume, tmp, clock, run, sess, pc, plan, report>>,
           synced' \in {synced, resume}
    PROVE  LogInv'
<1>1. NoNewer(resume)' /\ NoNewer(synced)'
  BY DEF LogInv, NoNewer
<1>2. ASSUME NEW p \in Procs PROVE LogOfProcess(p)'
  BY DEF LogInv, LogOfProcess, SessionOfFile, Continues, Stateful, NextKey
<1> QED BY <1>1, <1>2 DEF LogInv

\* A step of the one run between places that do not matter here.
LEMMA QuietLog ==
    ASSUME OneProcess, LogInv, NEW p \in Procs,
           pc[p] \notin {"idle", "open", "temp", "rename"},
           pc'[p] \notin {"idle", "open", "temp", "rename", "parse"},
           UNCHANGED <<resume, synced, clock, run, sess>>
    PROVE  LogInv'
<1>1. \A q \in Procs : q = p
  BY DEF OneProcess
<1>2. NoNewer(resume)' /\ NoNewer(synced)'
  BY DEF LogInv, NoNewer
<1>3. LogOfProcess(p)'
  BY DEF LogInv, LogOfProcess, SessionOfFile, Continues, Stateful
<1> QED BY <1>1, <1>2, <1>3 DEF LogInv

\* All processes are gone.
LEMMA GoneLog ==
    ASSUME LogInv, \A q \in Procs : pc'[q] = "idle", clock' = clock,
           resume' = resume \/ resume' = synced \/ resume' = Corrupt,
           synced' = synced \/ synced' = resume'
    PROVE  LogInv'
<1>1. NoNewer(resume)' /\ NoNewer(synced)'
  BY DEF LogInv, NoNewer, IsSaved, Corrupt
<1>2. ASSUME NEW p \in Procs PROVE LogOfProcess(p)'
  BY DEF LogOfProcess
<1> QED BY <1>1, <1>2 DEF LogInv

LEMMA LeaveLog ==
    ASSUME OneProcess, TypeOK, LogInv, NEW p \in Procs, NEW status,
           Leave({p}, status), UNCHANGED <<resume, synced, clock>>
    PROVE  LogInv'
<1>1. \A q \in Procs : pc'[q] = "idle"
  BY DEF Leave, OneProcess
<1> QED BY <1>1, GoneLog

LEMMA LaunchLog ==
    ASSUME OneProcess, TypeOK, LogInv, NEW p \in Procs, Launch(p)
    PROVE  LogInv'
<1>1. \A q \in Procs : q = p
  BY DEF OneProcess
<1>2. clock \in Nat /\ clock' = clock + 1 /\ resume' = resume /\ synced' = synced
  BY DEF Launch, diskVars, TypeOK
<1>3. pc'[p] = "open" /\ run'[p].id = clock'
  BY <1>2 DEF Launch, Goto, TypeOK
<1>4. NoNewer(resume)' /\ NoNewer(synced)'
  BY <1>2, FilesHaveKinds DEF LogInv, NoNewer, Checkpoints
<1>5. LogOfProcess(p)'
  BY <1>2, <1>3, FilesHaveKinds DEF LogInv, NoNewer, LogOfProcess, Checkpoints
<1> QED BY <1>1, <1>4, <1>5 DEF LogInv

\* The session goes on with the units of the file, or is new.
LEMMA OpenLog ==
    ASSUME OneProcess, TypeOK, LogInv, NEW p \in Procs, OpenCheckpoint(p)
    PROVE  LogInv'
<1>1. \A q \in Procs : q = p
  BY DEF OneProcess
<1>2. /\ UNCHANGED <<resume, synced, clock, run>>
      /\ pc'[p] = "discover" /\ pc[p] = "open"
  BY DEF OpenCheckpoint, diskVars, Goto, TypeOK
<1>3. run[p].id = clock /\ run[p].id \in Nat
  BY <1>2 DEF LogInv, LogOfProcess, TypeOK
<1>4. NoNewer(resume)' /\ NoNewer(synced)'
  BY <1>2 DEF LogInv, NoNewer
<1>5. ASSUME Stateful(p) PROVE SessionOfFile(p)'
  <2> DEFINE fp == Fingerprint(run[p].root, mtime)
  <2>1. sess'[p] = ResumeOrNew(resume, fp, run[p].tier, run[p].restart, run[p].id)
    BY <1>5 DEF OpenCheckpoint, TypeOK
  <2> HIDE DEF fp
  <2>2. CASE ~run[p].restart /\ IsSaved(resume) /\ Matches(resume.cp, fp, run[p].tier)
    <3>1. sess'[p].cp = resume.cp
      BY <2>1, <2>2 DEF ResumeOrNew
    <3> QED BY <1>2, <2>2, <3>1 DEF SessionOfFile, Continues, SameLog, LogInv, NoNewer
  <2>3. CASE ~(~run[p].restart /\ IsSaved(resume) /\ Matches(resume.cp, fp, run[p].tier))
    <3>1. /\ sess'[p].cp.completed = << >> /\ sess'[p].cp.created = run[p].id
          /\ sess'[p].cp.fp = fp
      BY <2>1, <2>3 DEF ResumeOrNew, FreshSession, NewCheckpoint
    <3>2. IsSaved(resume) => resume.cp.created < clock
      BY <1>2 DEF LogInv, LogOfProcess
    <3> QED BY <1>2, <1>3, <2>3, <3>1, <3>2 DEF SessionOfFile, Continues
  <2> QED BY <2>2, <2>3
<1>6. LogOfProcess(p)'
  BY <1>2, <1>3, <1>5 DEF LogOfProcess, Stateful
<1> QED BY <1>1, <1>4, <1>6 DEF LogInv

LEMMA BeginParseLog ==
    ASSUME OneProcess, TypeOK, LogInv, NEW p \in Procs, BeginParse(p)
    PROVE  LogInv'
<1>1. \A q \in Procs : q = p
  BY DEF OneProcess
<1>2. /\ UNCHANGED <<resume, synced, clock, run, sess, plan, report>>
      /\ pc'[p] = "parse" /\ pc[p] = "loop"
      /\ ~(Stateful(p) /\ HasCompleted(sess[p], NextKey(p)))
  BY DEF BeginParse, diskVars, Goto, TypeOK
<1>3. NoNewer(resume)' /\ NoNewer(synced)'
  BY <1>2 DEF LogInv, NoNewer
<1>4. LogOfProcess(p)'
  BY <1>2 DEF LogInv, LogOfProcess, SessionOfFile, Continues, Stateful, NextKey
<1> QED BY <1>1, <1>3, <1>4 DEF LogInv

\* A unit put down in memory is the one the file does not have yet.
LEMMA RecordLog ==
    ASSUME OneProcess, IInv, LogInv, NEW p \in Procs, Record(p)
    PROVE  LogInv'
<1>1. \A q \in Procs : q = p
  BY DEF OneProcess
<1>2. /\ UNCHANGED <<resume, synced, clock, run>> /\ pc[p] = "record"
      /\ Stateful(p) /\ unit[p] \in Units
  BY DEF Record, diskVars, IInv, TypeOK, ProcessSound
<1>3. NoNewer(resume)' /\ NoNewer(synced)'
  BY <1>2 DEF LogInv, NoNewer
<1>4. CASE HasCompleted(sess[p], unit[p].key)
  <2>1. pc'[p] = "merge" /\ sess' = sess
    BY <1>4 DEF Record, Goto, IInv, TypeOK
  <2> QED BY <1>2, <2>1, QuietLog
<1>5. CASE ~HasCompleted(sess[p], unit[p].key)
  <2>1. pc'[p] = "temp" /\ sess'[p] = RecordInMemory(sess[p], unit[p])
    BY <1>5 DEF Record, Goto, IInv, TypeOK
  <2>2. sess[p].cp \in Checkpoints /\ sess[p].cp.completed \in Seq(Units)
    BY <1>2, SessionFacts
  <2>3. /\ sess'[p].cp.completed = Append(sess[p].cp.completed, unit[p])
        /\ SameLog(sess'[p].cp, sess[p].cp)
    BY <2>1, <2>2 DEF RecordInMemory, Checkpoints, SameLog
  <2>4. /\ sess'[p].cp.completed # << >>
        /\ ButLast(sess'[p].cp.completed) = sess[p].cp.completed
    BY <1>2, <2>2, <2>3, ButLastFacts
  <2>5. sess[p].cp.created <= clock /\ Continues(p, sess[p].cp.completed)
    BY <1>2 DEF LogInv, LogOfProcess, SessionOfFile
  <2>6. SessionOfFile(p)'
    BY <1>2, <2>1, <2>3, <2>4, <2>5 DEF SessionOfFile, Continues, SameLog
  <2>7. LogOfProcess(p)'
    BY <1>2, <2>1, <2>6 DEF LogInv, LogOfProcess
  <2> QED BY <1>1, <1>3, <2>7 DEF LogInv
<1> QED BY <1>4, <1>5

LEMMA WriteTempLog ==
    ASSUME OneProcess, TypeOK, LogInv, NEW p \in Procs, WriteTemp(p)
    PROVE  LogInv'
<1>1. \A q \in Procs : q = p
  BY DEF OneProcess
<1>2. /\ UNCHANGED <<resume, synced, clock, run, sess>>
      /\ pc[p] = "temp" /\ pc'[p] = "rename" /\ tmp'[p] = Saved(sess[p].cp)
  BY DEF WriteTemp, Goto, TypeOK
<1>3. NoNewer(resume)' /\ NoNewer(synced)'
  BY <1>2 DEF LogInv, NoNewer
<1>4. LogOfProcess(p)'
  BY <1>2 DEF LogInv, LogOfProcess, SessionOfFile, Continues, Stateful
<1> QED BY <1>1, <1>3, <1>4 DEF LogInv

\* What a rename makes of the resume file.
LEMMA RenameGives ==
    ASSUME IInv, LogInv, NEW p \in Procs, Rename(p)
    PROVE  /\ resume' = Saved(sess[p].cp) /\ IsSaved(resume') /\ resume'.cp = sess[p].cp
           /\ UNCHANGED <<synced, clock, run, sess>>
           /\ pc[p] = "rename" /\ pc'[p] = "merge" /\ Stateful(p) /\ SessionOfFile(p)
  BY DEF Rename, Goto, IInv, TypeOK, ProcessSound, LogInv, LogOfProcess, Saved, IsSaved

LEMMA RenameLog ==
    ASSUME OneProcess, IInv, LogInv, NEW p \in Procs, Rename(p)
    PROVE  LogInv'
<1>1. \A q \in Procs : q = p
  BY DEF OneProcess
<1>2. NoNewer(resume)' /\ NoNewer(synced)'
  BY RenameGives DEF LogInv, NoNewer, SessionOfFile
<1>3. SessionOfFile(p)'
  BY RenameGives DEF SessionOfFile, Continues, SameLog
<1>4. LogOfProcess(p)'
  BY <1>3, RenameGives DEF LogInv, LogOfProcess
<1> QED BY <1>1, <1>2, <1>4 DEF LogInv

LEMMA StepLog ==
    ASSUME OneProcess, IInv, LogInv, NEW p \in Procs, Step(p)
    PROVE  LogInv'
<1> USE DEF diskVars, Goto
<1>0. TypeOK /\ pc \in [Procs -> PCs]
  BY DEF IInv, TypeOK
<1>1. CASE Discover(p) \/ LoopInterrupted(p) \/ ReuseUnit(p) \/ LoopDone(p)
  BY <1>0, <1>1, QuietLog DEF Discover, LoopInterrupted, ReuseUnit, LoopDone
<1>2. CASE Parse(p) \/ Merge(p)
  BY <1>0, <1>2, QuietLog DEF Parse, Merge
<1>3. CASE BeginDeep(p) \/ DeepDone(p) \/ SkipDeep(p)
  BY <1>0, <1>3, QuietLog DEF BeginDeep, DeepDone, SkipDeep
<1>4. ASSUME NEW f \in OutSteps, TruncateOut(p, f) \/ FillOut(p, f) PROVE LogInv'
  <2>1. \A s \in {f, Filling[f], AfterOut(p)[f]} :
          s \notin {"idle", "open", "temp", "rename", "parse"}
    BY StepNames DEF Holding
  <2>2. /\ pc[p] \in {f, Filling[f]} /\ pc'[p] \in {Filling[f], AfterOut(p)[f]}
        /\ UNCHANGED <<resume, synced, clock, run, sess>>
    BY <1>0, <1>4 DEF TruncateOut, FillOut
  <2> QED BY <2>1, <2>2, QuietLog
<1>5. CASE Render(p) \/ Fail(p)
  BY <1>0, <1>5, LeaveLog DEF Render, Fail
<1> QED BY <1>0, <1>1, <1>2, <1>3, <1>4, <1>5, OpenLog, BeginParseLog, RecordLog,
           WriteTempLog, RenameLog DEF Step

LEMMA SurroundingsLog ==
    ASSUME OneProcess, IInv, LogInv, Surroundings
    PROVE  LogInv'
<1> USE DEF diskVars, memoryVars
<1>0. TypeOK
  BY DEF IInv
<1>1. ASSUME NEW p \in Procs, InterruptAgain(p) \/ Crash(p) PROVE LogInv'
  BY <1>0, <1>1, LeaveLog DEF InterruptAgain, Crash
<1>2. CASE PowerLoss
  <2>1. \A q \in Procs : pc'[q] = "idle"
    BY <1>2 DEF PowerLoss, Leave, Running
  <2> QED BY <1>2, <2>1, GoneLog DEF PowerLoss
<1>3. ASSUME NEW p \in Procs, Interrupt(p) PROVE LogInv'
  BY <1>3, StillLog DEF Interrupt
<1>4. CASE WriteBack
  BY <1>4, StillLog DEF WriteBack
<1>5. ASSUME NEW r \in Roots, EditRoot(r) PROVE LogInv'
  BY <1>5, StillLog DEF EditRoot
<1>6. ASSUME NEW q \in Profiles, EditNested(q) PROVE LogInv'
  BY <1>6, StillLog DEF EditNested
<1> QED BY <1>0, <1>1, <1>2, <1>3, <1>4, <1>5, <1>6, LaunchLog DEF Surroundings

\* Where a session stands to its file, through every run of one process at a
\* time (resume_or_new, record, write_atomic of checkpoint.rs).
THEOREM LogInvariant ==
    ASSUME OneProcess
    PROVE  Spec => [](IInv /\ LogInv)
<1>1. IInv /\ LogInv /\ [Next]_vars => LogInv'
  <2> SUFFICES ASSUME IInv, LogInv, [Next]_vars PROVE LogInv'
    OBVIOUS
  <2>1. CASE UNCHANGED vars
    BY <2>1, StillLog DEF vars, diskVars, memoryVars
  <2> QED BY <2>1, OneProcess, StepLog, SurroundingsLog DEF Next
<1> QED BY <1>1, InitLog, IInvInvariant, PTL DEF Spec

-----------------------------------------------------------------------------

\* Work that was saved is not done again (completed_unit of checkpoint.rs, asked
\* by run_profile_loop before it parses).
THEOREM SavedWorkIsNotRepeated ==
    ASSUME OneProcess
    PROVE  Spec => []ParsesOnlyUnsaved
<1>1. IInv /\ LogInv => ParsesOnlyUnsaved
  <2> SUFFICES ASSUME IInv, LogInv, NEW p \in Procs,
                      pc[p] = "parse", Stateful(p), ~run[p].restart,
                      IsSaved(resume), Matches(resume.cp, sess[p].cp.fp, run[p].tier),
                      NextKey(p) \in Keys(resume.cp.completed)
               PROVE  FALSE
    BY DEF ParsesOnlyUnsaved
  <2>1. /\ Continues(p, sess[p].cp.completed) /\ ~HasCompleted(sess[p], NextKey(p))
    BY DEF LogInv, LogOfProcess, SessionOfFile
  <2>2. resume.cp.completed = sess[p].cp.completed
    BY <2>1 DEF Continues
  <2>3. IndexExact(sess[p])
    BY SessionFacts
  <2> QED BY <2>1, <2>2, <2>3 DEF IndexExact, HasCompleted, Keys
<1> QED BY <1>1, LogInvariant, PTL

\* A rename of a process begins a log or adds to it the one unit it lacks.
LEMMA RenameIsLogged ==
    ASSUME OneProcess, IInv, LogInv, NEW p \in Procs, Rename(p)
    PROVE  Log!Begin \/ Log!Extend
<1> DEFINE new == sess[p].cp
           old == AsLog(resume)
           log == AsLog(resume')
<1>1. /\ UNCHANGED AsLog(synced)
      /\ log.id = <<new.fp, new.tier, new.created>> /\ log.units = new.completed
  BY RenameGives DEF AsLog
<1>2. /\ new.completed \in Seq(Units) /\ DistinctKeys(new.completed)
      /\ new \in Checkpoints /\ new.completed # << >>
      /\ Continues(p, ButLast(new.completed))
  BY RenameGives, SessionFacts DEF SessionOfFile
<1>3. /\ Len(new.completed) \in Nat \ {0}
      /\ Len(ButLast(new.completed)) = Len(new.completed) - 1
      /\ ButLast(new.completed) = << >> => Len(new.completed) = 1
  BY <1>2, ButLastFacts
<1>4. CASE IsSaved(resume) /\ SameLog(resume.cp, new)
           /\ resume.cp.completed = ButLast(new.completed)
  <2>1. old.id = log.id /\ old.units = ButLast(new.completed)
    BY <1>1, <1>4 DEF AsLog, SameLog
  <2>2. old.id # << >>
    BY <1>4 DEF AsLog
  <2>3. Len(log.units) = Len(old.units) + 1
    BY <1>1, <1>3, <2>1
  <2>4. SubSeq(log.units, 1, Len(old.units)) = old.units
    BY <1>1, <1>3, <2>1 DEF ButLast
  <2>5. \A i \in DOMAIN old.units :
          KeyOf(old.units[i]) # KeyOf(log.units[Len(log.units)])
    <3> SUFFICES ASSUME NEW i \in DOMAIN old.units,
                        old.units[i].key = new.completed[Len(new.completed)].key
                 PROVE  FALSE
      BY <1>1 DEF KeyOf
    <3>1. /\ i \in 1..(Len(new.completed) - 1)
          /\ old.units[i] = new.completed[i]
      BY <1>2, <1>3, <2>1 DEF ButLast
    <3>2. i \in DOMAIN new.completed /\ Len(new.completed) \in DOMAIN new.completed
      BY <1>2, <1>3, <3>1
    <3> QED BY <1>2, <1>3, <3>1, <3>2 DEF DistinctKeys
  <2> QED BY <1>1, <2>1, <2>2, <2>3, <2>4, <2>5 DEF Log!Extend
<1>5. CASE ButLast(new.completed) = << >> /\
           (IsSaved(resume) => resume.cp.created < new.created)
  <2>1. CASE IsSaved(resume)
    <3>1. resume.cp.created # new.created
      BY <1>2, <1>5, <2>1, FilesHaveKinds DEF Checkpoints, IInv
    <3>2. old.id # log.id
      BY <1>1, <2>1, <3>1 DEF AsLog
    <3> QED BY <1>1, <1>3, <1>5, <3>2 DEF Log!Begin
  <2>2. CASE ~IsSaved(resume)
    <3>1. old.id # log.id
      BY <1>1, <2>2 DEF AsLog
    <3> QED BY <1>1, <1>3, <1>5, <3>1 DEF Log!Begin
  <2> QED BY <2>1, <2>2
<1> QED BY <1>2, <1>4, <1>5 DEF Continues

\* The other steps of a run leave the file alone.
LEMMA OtherStepsAreSilent ==
    ASSUME NEW p \in Procs, Step(p), ~Rename(p)
    PROVE  UNCHANGED <<resume, synced>>
  BY DEF Step, OpenCheckpoint, Discover, LoopInterrupted, ReuseUnit, BeginParse,
     Parse, Record, WriteTemp, Merge, LoopDone, BeginDeep, DeepDone, SkipDeep,
     TruncateOut, FillOut, Render, Fail, diskVars

LEMMA SurroundingsAreLogged ==
    ASSUME Surroundings
    PROVE  Log!Persist \/ Log!LosePower \/ UNCHANGED <<resume, synced>>
<1>1. CASE WriteBack
  <2>1. synced' = resume /\ resume' = resume
    BY <1>1 DEF WriteBack
  <2> QED BY <2>1 DEF Log!Persist, AsLog
<1>2. CASE PowerLoss
  <2>1. synced' = resume' /\ resume' \in {resume, synced, Corrupt}
    BY <1>2 DEF PowerLoss
  <2>2. AsLog(Corrupt) = Log!NoLog
    BY DEF AsLog, IsSaved, Corrupt, Log!NoLog
  <2> QED BY <2>1, <2>2 DEF Log!LosePower, AsLog
<1>3. CASE ~WriteBack /\ ~PowerLoss
  BY <1>3 DEF Surroundings, Launch, Interrupt, InterruptAgain, Crash, EditRoot,
     EditNested, diskVars
<1> QED BY <1>1, <1>2, <1>3

\* The resume file of one process at a time is a log of completed units that
\* only grows until another investigation replaces it (checkpoint.rs).
THEOREM ResumeFileIsALog ==
    ASSUME OneProcess
    PROVE  Spec => ImplementsUnitLog
<1>1. Init => Log!LogInit
  BY DEF Init, Log!LogInit, Log!NoLog, AsLog, IsSaved, Missing, Corrupt
<1>2. IInv /\ LogInv /\ [Next]_vars => [Log!LogNext]_<<AsLog(resume), AsLog(synced)>>
  <2> SUFFICES ASSUME IInv, LogInv, [Next]_vars,
                      ~UNCHANGED <<AsLog(resume), AsLog(synced)>>
               PROVE  Log!LogNext
    OBVIOUS
  <2>1. ~UNCHANGED <<resume, synced>>
    BY DEF AsLog
  <2>2. Next
    BY <2>1 DEF vars, diskVars
  <2>3. CASE Surroundings
    BY <2>1, <2>3, SurroundingsAreLogged DEF Log!LogNext
  <2>4. ASSUME NEW p \in Procs, Step(p) PROVE Log!LogNext
    BY <2>1, <2>4, OneProcess, OtherStepsAreSilent, RenameIsLogged DEF Log!LogNext
  <2> QED BY <2>2, <2>3, <2>4 DEF Next
<1> QED BY <1>1, <1>2, LogInvariant, PTL DEF Spec, ImplementsUnitLog, Log!LogSpec

-----------------------------------------------------------------------------
(* The ways a run ends. *)

IsList(s) == s \in Seq({s[i] : i \in DOMAIN s})

Early   == {"idle", "open", "discover"}
Working == {"parse", "record", "temp", "rename", "merge"}
Writing == OutSteps \cup Fillings \cup {"render"}

\* The shape of the state.
RunShapes ==
    /\ pc \in [Procs -> PCs]
    /\ cancel \in [Procs -> BOOLEAN]
    /\ interrupted \in [Procs -> BOOLEAN]
    /\ deepScope \in [Procs -> BOOLEAN]
    /\ late \in [Procs -> Nat]
    /\ run = [p \in Procs |-> run[p]]
    /\ exit = [p \in Procs |-> exit[p]]
    /\ tmp = [p \in Procs |-> tmp[p]]
    /\ plan = [p \in Procs |-> plan[p]]
    /\ report = [p \in Procs |-> report[p]]
    /\ \A p \in Procs : IsList(plan[p]) /\ IsList(report[p])

\* How far the report of a run is along its plan.
Progress(p) ==
    /\ Len(report[p]) <= Len(plan[p])
    /\ pc[p] \in Early => report[p] = << >>
    /\ pc[p] \in Working => MoreProfiles(p)
    /\ pc[p] \in {"looped", "deep"} \cup Writing /\ ~interrupted[p] =>
          Len(report[p]) = Len(plan[p])

\* What a run knows of its end.
EndKnown(p) ==
    /\ interrupted[p] =>
          /\ cancel[p] /\ MoreProfiles(p) /\ ~deepScope[p]
          /\ pc[p] \in {"looped"} \cup Writing
    /\ deepScope[p] => pc[p] \in Writing
    /\ pc[p] \in Writing /\ run[p].tier = "deep" /\ ~interrupted[p] => deepScope[p]

\* A late parse is the one that was under way.
LateSound(p) == late[p] <= 1 /\ (late[p] # 0 => cancel[p] /\ pc[p] # "parse")

RunSound(p) ==
    /\ Progress(p) /\ EndKnown(p) /\ LateSound(p)
    /\ tmp[p] # Corrupt

RunInv == RunShapes /\ \A p \in Procs : RunSound(p)

-----------------------------------------------------------------------------

LEMMA ListFacts ==
    ASSUME NEW s, IsList(s)
    PROVE  /\ Len(s) \in Nat
           /\ \A e : /\ IsList(Append(s, e))
                     /\ Len(Append(s, e)) = Len(s) + 1
<1>1. Len(s) \in Nat
  BY DEF IsList
<1>2. ASSUME NEW e
      PROVE  IsList(Append(s, e)) /\ Len(Append(s, e)) = Len(s) + 1
  <2> DEFINE S == {s[i] : i \in DOMAIN s} \cup {e}
             t == Append(s, e)
  <2>1. s \in Seq(S)
    BY DEF IsList
  <2>2. t \in Seq(S) /\ Len(t) = Len(s) + 1
    BY <2>1
  <2> HIDE DEF t, S
  <2>3. t \in Seq({t[i] : i \in DOMAIN t})
    BY <2>2
  <2> QED BY <2>2, <2>3 DEF IsList, t
<1> QED BY <1>1, <1>2

LEMMA NoList == IsList(<< >>) /\ Len(<< >>) = 0
  BY DEF IsList

LEMMA OrdersAreLists ==
    ASSUME NEW root, NEW S \in SUBSET ProfilesUnder(root), NEW s \in Orders(S)
    PROVE  IsList(s)
<1>1. Cardinality(S) \in Nat
  BY ProfilesAssumption, FS_Subset, FS_CardinalityType DEF ProfilesUnder
<1>2. s \in Seq(S)
  BY <1>1 DEF Orders
<1> QED BY <1>2 DEF IsList

\* The names of the steps, and where those of the output files lie.
LEMMA StepPlaces ==
    /\ Early \cup Working \cup Writing \cup {"loop", "looped", "deep"} \subseteq PCs
    /\ (Early \cup Working \cup {"loop", "looped", "deep"}) \cap Writing = {}
    /\ \A f \in OutSteps : {f, Filling[f]} \subseteq Writing
    /\ \A f \in OutSteps : \A p : AfterOut(p)[f] \in Writing
    /\ "manifest" \in Writing /\ "render" \in Writing
<1>1. OutSteps = {"manifest", "summary", "findings"}
  BY DEF OutSteps
<1>2. /\ Filling["manifest"] = "fill manifest"
      /\ Filling["summary"] = "fill summary"
      /\ Filling["findings"] = "fill findings"
      /\ \A p : /\ AfterOut(p)["manifest"] \in {"summary", "render"}
                /\ AfterOut(p)["summary"] = "findings"
                /\ AfterOut(p)["findings"] = "render"
  BY DEF Filling, AfterOut
<1>3. Fillings = {"fill manifest", "fill summary", "fill findings"}
  BY <1>1, <1>2 DEF Fillings
<1> QED BY <1>1, <1>2, <1>3 DEF Writing, Early, Working, PCs

LEMMA RunLengths ==
    ASSUME RunInv, NEW p \in Procs
    PROVE  /\ Len(plan[p]) \in Nat /\ Len(report[p]) \in Nat
           /\ \A e : /\ IsList(Append(report[p], e))
                     /\ Len(Append(report[p], e)) = Len(report[p]) + 1
  BY ListFacts DEF RunInv, RunShapes

LEMMA InitSound == Init => RunInv
<1> SUFFICES ASSUME Init PROVE RunInv
  OBVIOUS
<1>1. RunShapes
  BY NoList, StepPlaces DEF Init, RunShapes, Early
<1>2. ASSUME NEW p \in Procs PROVE RunSound(p)
  BY NoList, StepPlaces DEF Init, RunSound, Progress, EndKnown, LateSound,
     Early, Working, Missing, Corrupt
<1> QED BY <1>1, <1>2 DEF RunInv

\* Processes that are gone know nothing; the others are as they were.
LEMMA RunLeaveSound ==
    ASSUME RunInv, NEW S \in SUBSET Procs, NEW status, Leave(S, status)
    PROVE  RunInv'
<1>1. RunShapes'
  BY NoList, StepPlaces DEF RunInv, RunShapes, Leave, Early
<1>2. ASSUME NEW q \in Procs PROVE RunSound(q)'
  <2>1. CASE q \in S
    BY <2>1, NoList, StepPlaces DEF Leave, RunSound, Progress, EndKnown, LateSound,
       Early, Working, Missing, Corrupt
  <2>2. CASE q \notin S
    BY <2>2 DEF RunInv, Leave, RunSound, Progress, EndKnown, LateSound, MoreProfiles
  <2> QED BY <2>1, <2>2
<1> QED BY <1>1, <1>2 DEF RunInv

\* A step of one process leaves what the others know alone.
LEMMA OthersSound ==
    ASSUME RunInv, NEW q \in Procs,
           pc'[q] = pc[q], cancel'[q] = cancel[q], run'[q] = run[q],
           plan'[q] = plan[q], report'[q] = report[q],
           interrupted'[q] = interrupted[q], deepScope'[q] = deepScope[q],
           late'[q] = late[q], tmp'[q] = tmp[q]
    PROVE  RunSound(q)'
  BY DEF RunInv, RunSound, Progress, EndKnown, LateSound, MoreProfiles

LEMMA RunFrameSound ==
    ASSUME RunInv,
           UNCHANGED <<tmp, pc, run, plan, cancel, report, resultVars, late, exit>>
    PROVE  RunInv'
<1>1. RunShapes'
  BY DEF RunInv, RunShapes, resultVars
<1>2. \A q \in Procs : RunSound(q)'
  BY OthersSound DEF resultVars
<1> QED BY <1>1, <1>2 DEF RunInv

\* The steps of a run up to its output files.
LEMMA RunStepSound == ASSUME RunInv, NEW p \in Procs, Step(p) PROVE RunInv'
<1> USE RunLengths DEF evidenceVars, diskVars, memoryVars, resultVars, historyVars,
                       Goto
<1>1. CASE OpenCheckpoint(p)
  <2>1. RunShapes'
    BY <1>1, StepPlaces, NoList DEF OpenCheckpoint, RunInv, RunShapes, Early, Working
  <2>2. ASSUME NEW q \in Procs, q # p PROVE RunSound(q)'
    BY <1>1, <2>2, OthersSound DEF OpenCheckpoint, RunInv, RunShapes
  <2>3. RunSound(p)'
    BY <1>1, StepPlaces, NoList DEF OpenCheckpoint, RunInv, RunShapes,
       RunSound, Progress, EndKnown, LateSound, MoreProfiles,
       Early, Working
  <2> QED BY <2>1, <2>2, <2>3 DEF RunInv
<1>2. CASE Discover(p)
  <2>0. /\ pc[p] = "discover" /\ pc' = [pc EXCEPT ![p] = "loop"]
        /\ \E order : IsList(order) /\ plan' = [plan EXCEPT ![p] = order]
        /\ UNCHANGED <<tmp, run, cancel, report, interrupted, deepScope, late, exit>>
    BY <1>2, OrdersAreLists DEF Discover
  <2>1. RunShapes'
    BY <2>0, StepPlaces, NoList, ListFacts DEF RunInv, RunShapes, Early, Working
  <2>2. ASSUME NEW q \in Procs, q # p PROVE RunSound(q)'
    BY <2>0, <2>2, OthersSound DEF RunInv, RunShapes
  <2>3. RunSound(p)'
    BY <2>0, StepPlaces, NoList, ListFacts DEF RunInv, RunShapes,
       RunSound, Progress, EndKnown, LateSound, MoreProfiles,
       Early, Working
  <2> QED BY <2>1, <2>2, <2>3 DEF RunInv
<1>3. CASE LoopInterrupted(p)
  <2>1. RunShapes'
    BY <1>3, StepPlaces DEF LoopInterrupted, RunInv, RunShapes, Early, Working
  <2>2. ASSUME NEW q \in Procs, q # p PROVE RunSound(q)'
    BY <1>3, <2>2, OthersSound DEF LoopInterrupted, RunInv, RunShapes
  <2>3. RunSound(p)'
    BY <1>3, StepPlaces DEF LoopInterrupted, RunInv, RunShapes,
       RunSound, Progress, EndKnown, LateSound, MoreProfiles,
       Early, Working
  <2> QED BY <2>1, <2>2, <2>3 DEF RunInv
<1>4. CASE ReuseUnit(p)
  <2>1. RunShapes'
    BY <1>4, StepPlaces DEF ReuseUnit, RunInv, RunShapes, Early, Working
  <2>2. ASSUME NEW q \in Procs, q # p PROVE RunSound(q)'
    BY <1>4, <2>2, OthersSound DEF ReuseUnit, RunInv, RunShapes
  <2>3. RunSound(p)'
    BY <1>4, StepPlaces DEF ReuseUnit, RunInv, RunShapes,
       RunSound, Progress, EndKnown, LateSound, MoreProfiles,
       Early, Working
  <2> QED BY <2>1, <2>2, <2>3 DEF RunInv
<1>5. CASE BeginParse(p)
  <2>1. RunShapes'
    BY <1>5, StepPlaces DEF BeginParse, RunInv, RunShapes, Early, Working
  <2>2. ASSUME NEW q \in Procs, q # p PROVE RunSound(q)'
    BY <1>5, <2>2, OthersSound DEF BeginParse, RunInv, RunShapes
  <2>3. RunSound(p)'
    BY <1>5, StepPlaces DEF BeginParse, RunInv, RunShapes,
       RunSound, Progress, EndKnown, LateSound, MoreProfiles,
       Early, Working
  <2> QED BY <2>1, <2>2, <2>3 DEF RunInv
<1>6. CASE Parse(p)
  <2>1. RunShapes'
    BY <1>6, StepPlaces DEF Parse, RunInv, RunShapes, Early, Working
  <2>2. ASSUME NEW q \in Procs, q # p PROVE RunSound(q)'
    BY <1>6, <2>2, OthersSound DEF Parse, RunInv, RunShapes
  <2>3. RunSound(p)'
    BY <1>6, StepPlaces DEF Parse, RunInv, RunShapes,
       RunSound, Progress, EndKnown, LateSound, MoreProfiles,
       Early, Working
  <2> QED BY <2>1, <2>2, <2>3 DEF RunInv
<1>7. CASE Record(p)
  <2>0. /\ pc[p] = "record"
        /\ \E step \in {"merge", "temp"} : pc' = [pc EXCEPT ![p] = step]
        /\ UNCHANGED <<tmp, run, plan, cancel, report, interrupted, deepScope, late, exit>>
    BY <1>7 DEF Record
  <2>1. RunShapes'
    BY <2>0, StepPlaces DEF RunInv, RunShapes, Early, Working
  <2>2. ASSUME NEW q \in Procs, q # p PROVE RunSound(q)'
    BY <2>0, <2>2, OthersSound DEF RunInv, RunShapes
  <2>3. RunSound(p)'
    BY <2>0, StepPlaces DEF RunInv, RunShapes,
       RunSound, Progress, EndKnown, LateSound, MoreProfiles,
       Early, Working
  <2> QED BY <2>1, <2>2, <2>3 DEF RunInv
<1>8. CASE WriteTemp(p)
  <2>1. RunShapes'
    BY <1>8, StepPlaces DEF WriteTemp, RunInv, RunShapes, Early, Working
  <2>2. ASSUME NEW q \in Procs, q # p PROVE RunSound(q)'
    BY <1>8, <2>2, OthersSound DEF WriteTemp, RunInv, RunShapes
  <2>3. RunSound(p)'
    BY <1>8, StepPlaces DEF WriteTemp, RunInv, RunShapes,
       RunSound, Progress, EndKnown, LateSound, MoreProfiles,
       Early, Working, Saved, Corrupt
  <2> QED BY <2>1, <2>2, <2>3 DEF RunInv
<1>9. CASE Rename(p)
  <2>1. RunShapes'
    BY <1>9, StepPlaces DEF Rename, RunInv, RunShapes, Early, Working
  <2>2. ASSUME NEW q \in Procs, q # p PROVE RunSound(q)'
    BY <1>9, <2>2, OthersSound DEF Rename, RunInv, RunShapes
  <2>3. RunSound(p)'
    BY <1>9, StepPlaces DEF Rename, RunInv, RunShapes,
       RunSound, Progress, EndKnown, LateSound, MoreProfiles,
       Early, Working, Missing, Corrupt
  <2> QED BY <2>1, <2>2, <2>3 DEF RunInv
<1>10. CASE Merge(p)
  <2>1. RunShapes'
    BY <1>10, StepPlaces DEF Merge, RunInv, RunShapes, Early, Working
  <2>2. ASSUME NEW q \in Procs, q # p PROVE RunSound(q)'
    BY <1>10, <2>2, OthersSound DEF Merge, RunInv, RunShapes
  <2>3. RunSound(p)'
    BY <1>10, StepPlaces DEF Merge, RunInv, RunShapes,
       RunSound, Progress, EndKnown, LateSound, MoreProfiles,
       Early, Working
  <2> QED BY <2>1, <2>2, <2>3 DEF RunInv
<1>11. CASE LoopDone(p)
  <2>1. RunShapes'
    BY <1>11, StepPlaces DEF LoopDone, RunInv, RunShapes, Early, Working
  <2>2. ASSUME NEW q \in Procs, q # p PROVE RunSound(q)'
    BY <1>11, <2>2, OthersSound DEF LoopDone, RunInv, RunShapes
  <2>3. RunSound(p)'
    BY <1>11, StepPlaces DEF LoopDone, RunInv, RunShapes,
       RunSound, Progress, EndKnown, LateSound, MoreProfiles,
       Early, Working
  <2> QED BY <2>1, <2>2, <2>3 DEF RunInv
<1>12. CASE BeginDeep(p)
  <2>1. RunShapes'
    BY <1>12, StepPlaces DEF BeginDeep, RunInv, RunShapes, Early, Working
  <2>2. ASSUME NEW q \in Procs, q # p PROVE RunSound(q)'
    BY <1>12, <2>2, OthersSound DEF BeginDeep, RunInv, RunShapes
  <2>3. RunSound(p)'
    BY <1>12, StepPlaces DEF BeginDeep, RunInv, RunShapes,
       RunSound, Progress, EndKnown, LateSound, MoreProfiles,
       Early, Working
  <2> QED BY <2>1, <2>2, <2>3 DEF RunInv
<1>13. CASE DeepDone(p)
  <2>1. RunShapes'
    BY <1>13, StepPlaces DEF DeepDone, RunInv, RunShapes, Early, Working
  <2>2. ASSUME NEW q \in Procs, q # p PROVE RunSound(q)'
    BY <1>13, <2>2, OthersSound DEF DeepDone, RunInv, RunShapes
  <2>3. RunSound(p)'
    <3>1. Progress(p)'
      BY <1>13, StepPlaces DEF DeepDone, RunInv, RunShapes, RunSound, Progress, EndKnown,
         MoreProfiles, Early, Working
    <3>2. EndKnown(p)'
      BY <1>13, StepPlaces DEF DeepDone, RunInv, RunShapes, RunSound, EndKnown, MoreProfiles
    <3>3. LateSound(p)'
      BY <1>13, StepPlaces DEF DeepDone, RunInv, RunShapes, RunSound, LateSound
    <3>4. (tmp[p] # Corrupt)'
      BY <1>13, StepPlaces DEF DeepDone, RunInv, RunSound
    <3> QED  BY <3>1, <3>2, <3>3, <3>4 DEF RunSound
  <2> QED BY <2>1, <2>2, <2>3 DEF RunInv
<1>14. CASE SkipDeep(p)
  <2>1. RunShapes'
    BY <1>14, StepPlaces DEF SkipDeep, RunInv, RunShapes, Early, Working
  <2>2. ASSUME NEW q \in Procs, q # p PROVE RunSound(q)'
    BY <1>14, <2>2, OthersSound DEF SkipDeep, RunInv, RunShapes
  <2>3. RunSound(p)'
    BY <1>14, StepPlaces DEF SkipDeep, RunInv, RunShapes,
       RunSound, Progress, EndKnown, LateSound, MoreProfiles,
       Early, Working
  <2> QED BY <2>1, <2>2, <2>3 DEF RunInv
<1>15. ASSUME NEW f \in OutSteps, TruncateOut(p, f) PROVE RunInv'
  <2>1. RunShapes'
    BY <1>15, StepPlaces DEF TruncateOut, RunInv, RunShapes, Early, Working
  <2>2. ASSUME NEW q \in Procs, q # p PROVE RunSound(q)'
    BY <1>15, <2>2, OthersSound DEF TruncateOut, RunInv, RunShapes
  <2>3. RunSound(p)'
    BY <1>15, StepPlaces DEF TruncateOut, RunInv, RunShapes,
       RunSound, Progress, EndKnown, LateSound, MoreProfiles,
       Early, Working
  <2> QED BY <2>1, <2>2, <2>3 DEF RunInv
<1>16. ASSUME NEW f \in OutSteps, FillOut(p, f) PROVE RunInv'
  <2>1. RunShapes'
    BY <1>16, StepPlaces DEF FillOut, RunInv, RunShapes, Early, Working
  <2>2. ASSUME NEW q \in Procs, q # p PROVE RunSound(q)'
    BY <1>16, <2>2, OthersSound DEF FillOut, RunInv, RunShapes
  <2>3. RunSound(p)'
    BY <1>16, StepPlaces DEF FillOut, RunInv, RunShapes,
       RunSound, Progress, EndKnown, LateSound, MoreProfiles,
       Early, Working
  <2> QED BY <2>1, <2>2, <2>3 DEF RunInv
<1>17. CASE Render(p)
  BY <1>17, RunLeaveSound DEF Render
<1>18. CASE Fail(p)
  BY <1>18, RunLeaveSound DEF Fail
<1> QED BY <1>1, <1>2, <1>3, <1>4, <1>5, <1>6, <1>7, <1>8, <1>9, <1>10, <1>11,
           <1>12, <1>13, <1>14, <1>15, <1>16, <1>17, <1>18 DEF Step

\* A flag that goes up lets every claim of the run stand.
LEMMA InterruptSound ==
    ASSUME RunInv, NEW p \in Procs, Interrupt(p)
    PROVE  RunInv'
<1> USE DEF evidenceVars, diskVars, resultVars, historyVars
<1>1. RunShapes'
  BY DEF Interrupt, RunInv, RunShapes
<1>2. ASSUME NEW q \in Procs PROVE RunSound(q)'
  BY DEF Interrupt, RunInv, RunShapes, RunSound, Progress, EndKnown, LateSound,
     MoreProfiles
<1> QED BY <1>1, <1>2 DEF RunInv

LEMMA LaunchSound ==
    ASSUME RunInv, NEW p \in Procs, Launch(p)
    PROVE  RunInv'
<1> USE DEF evidenceVars, diskVars, memoryVars, resultVars, historyVars, Goto
<1>0. /\ pc[p] = "idle" /\ pc' = [pc EXCEPT ![p] = "open"]
      /\ \E args : run' = [run EXCEPT ![p] = args]
      /\ exit' = [exit EXCEPT ![p] = "running"]
      /\ UNCHANGED <<tmp, plan, cancel, report, interrupted, deepScope, late>>
  BY DEF Launch
<1>1. RunShapes'
  BY <1>0, StepPlaces DEF RunInv, RunShapes, Early
<1>2. ASSUME NEW q \in Procs, q # p PROVE RunSound(q)'
  BY <1>0, <1>2, OthersSound DEF RunInv, RunShapes
<1>3. RunSound(p)'
  BY <1>0, StepPlaces DEF RunInv, RunShapes, RunSound, Progress, EndKnown, LateSound,
     MoreProfiles, Early, Working
<1> QED BY <1>1, <1>2, <1>3 DEF RunInv

LEMMA RunSurroundingsSound == RunInv /\ Surroundings => RunInv'
<1> SUFFICES ASSUME RunInv, Surroundings PROVE RunInv'
  OBVIOUS
<1>1. ASSUME NEW p \in Procs, InterruptAgain(p) \/ Crash(p) PROVE RunInv'
  BY <1>1, RunLeaveSound DEF InterruptAgain, Crash
<1>2. CASE PowerLoss
  BY <1>2, RunLeaveSound DEF PowerLoss, Running
<1>3. CASE WriteBack
  <2>1. UNCHANGED <<tmp, pc, run, plan, cancel, report, resultVars, late, exit>>
    BY <1>3 DEF WriteBack, resultVars, historyVars
  <2> QED BY <2>1, RunFrameSound
<1>4. ASSUME NEW r \in Roots, EditRoot(r) PROVE RunInv'
  <2>1. UNCHANGED <<tmp, pc, run, plan, cancel, report, resultVars, late, exit>>
    BY <1>4 DEF EditRoot, diskVars, resultVars, historyVars
  <2> QED BY <2>1, RunFrameSound
<1>5. ASSUME NEW q \in Profiles, EditNested(q) PROVE RunInv'
  <2>1. UNCHANGED <<tmp, pc, run, plan, cancel, report, resultVars, late, exit>>
    BY <1>5 DEF EditNested, diskVars, resultVars, historyVars
  <2> QED BY <2>1, RunFrameSound
<1> QED BY <1>1, <1>2, <1>3, <1>4, <1>5, LaunchSound, InterruptSound DEF Surroundings

LEMMA RunStutterSound == RunInv /\ UNCHANGED vars => RunInv'
<1> SUFFICES ASSUME RunInv, UNCHANGED vars PROVE RunInv'
  OBVIOUS
<1>1. UNCHANGED <<tmp, pc, run, plan, cancel, report, resultVars, late, exit>>
  BY DEF vars, diskVars, memoryVars, resultVars, historyVars
<1> QED BY <1>1, RunFrameSound

\* What a run knows of its progress and of its end is right at every step
\* (run_investigate, run_profile_loop), whatever the evidence does meanwhile.
THEOREM RunInvariant == Spec => []RunInv
<1>1. RunInv /\ [Next]_vars => RunInv'
  BY RunStepSound, RunSurroundingsSound, RunStutterSound DEF Next
<1> QED BY <1>1, InitSound, PTL DEF Spec

\* A Ctrl-C lets the parse under way finish and no other begin (the flag is
\* looked at before every profile in run_profile_loop).
THEOREM OneLateParse == Spec => []AtMostOneLateParse
<1>1. RunInv => AtMostOneLateParse
  BY DEF RunInv, RunSound, LateSound, AtMostOneLateParse
<1> QED BY <1>1, RunInvariant, PTL

-----------------------------------------------------------------------------

\* What the resume file holds comes from a temp file, which is whole when it
\* is renamed (write_atomic); only a loss of power may leave it unreadable.
THEOREM TornFilesAreOfPowerLoss == Spec => TornOnlyByPowerLoss
<1>1. ASSUME RunInv, [Next]_vars
      PROVE  [resume' = Corrupt => resume = Corrupt \/ PowerLoss]_vars
  <2> SUFFICES ASSUME Next, resume' # resume, resume' = Corrupt, ~PowerLoss
               PROVE  FALSE
    BY <1>1
  <2>1. CASE Surroundings
    BY <2>1 DEF Surroundings, Launch, Interrupt, InterruptAgain, Crash, WriteBack,
       EditRoot, EditNested, diskVars
  <2>2. ASSUME NEW p \in Procs, Step(p) PROVE FALSE
    <3>1. CASE Rename(p)
      BY <1>1, <3>1 DEF Rename, RunInv, RunSound
    <3>2. CASE ~Rename(p)
      BY <2>2, <3>2 DEF Step, OpenCheckpoint, Discover, LoopInterrupted, ReuseUnit,
         BeginParse, Parse, Record, WriteTemp, Merge, LoopDone, BeginDeep, DeepDone,
         SkipDeep, TruncateOut, FillOut, Render, Fail, diskVars
    <3> QED BY <3>1, <3>2
  <2> QED BY <2>1, <2>2 DEF Next
<1> QED BY <1>1, RunInvariant, PTL DEF Spec, TornOnlyByPowerLoss

\* The status of a run that this process leaves is true of it.
LEMMA LeftHonestly ==
    ASSUME RunInv, NEW p \in Procs, NEW S \in SUBSET Procs, NEW status,
           Leave(S, status), pc[p] # "idle", pc'[p] = "idle",
           status \notin {"ok", "interrupted"}
    PROVE  exit'[p] \notin {"ok", "interrupted"}
  BY StepPlaces DEF Leave, RunInv, RunShapes

Honest(p) ==
    pc[p] # "idle" /\ pc'[p] = "idle" =>
        /\ exit'[p] = "ok" =>
              /\ Len(report[p]) = Len(plan[p])
              /\ run[p].tier = "deep" => deepScope[p]
        /\ exit'[p] = "interrupted" =>
              cancel[p] /\ Len(report[p]) < Len(plan[p]) /\ ~deepScope[p]

LEMMA OutFileNames ==
    /\ "manifest" \in OutFiles /\ "elsewhere" \in OutFiles
    /\ "summary" \in OutFiles /\ "findings" \in OutFiles
    /\ Manifests \subseteq OutFiles
    /\ "summary" \notin Manifests /\ "findings" \notin Manifests
    /\ \A p : ManifestOf(p) \in Manifests
    /\ \A f \in OutSteps : f = "manifest" \/ f = "summary" \/ f = "findings"
  BY DEF OutFiles, OutSteps, Manifests, ManifestOf

ClaimsHonestly ==
    \A claim \in out'["summary"].says \ out["summary"].says :
        \E p \in Procs : /\ out'["summary"].run = run[p].id
                         /\ deepScope[p] \/ interrupted[p]

\* A claim is made when the summary is filled, in a run that has done its deep phase or
\* was cut short before.
LEMMA ClaimsAreHonest ==
    ASSUME RunInv, TypeOK, [Next]_vars
    PROVE  ClaimsHonestly
<1> SUFFICES ASSUME out'["summary"] # out["summary"], out'["summary"].says # {}
             PROVE  ClaimsHonestly
  BY DEF ClaimsHonestly
<1>1. Next
  BY DEF vars
<1>2. out \in [OutFiles -> OutStates]
  BY DEF TypeOK
<1>3. CASE Surroundings
  <2>1. out' = out \/ out' = NoOutputs
    BY <1>3 DEF Surroundings, Launch, Interrupt, InterruptAgain, Crash, WriteBack, PowerLoss,
       EditRoot, EditNested
  <2> QED BY <2>1, OutFileNames DEF NoOutputs
<1>4. ASSUME NEW p \in Procs, NEW f \in OutSteps, TruncateOut(p, f) \/ FillOut(p, f)
      PROVE  ClaimsHonestly
  <2>1. FileOf(p, f) \in OutFiles /\ (FileOf(p, f) = "summary" <=> f = "summary")
    BY OutFileNames DEF FileOf
  <2>2. CASE TruncateOut(p, f)
    <3>1. FileOf(p, f) # "summary" => out'["summary"] = out["summary"]
      BY <1>2, <2>1, <2>2, OutFileNames DEF TruncateOut
    <3>2. FileOf(p, f) = "summary" => out'["summary"].says = {}
      BY <1>2, <2>1, <2>2, OutFileNames DEF TruncateOut
    <3> QED BY <3>1, <3>2
  <2>3. CASE FillOut(p, f)
    <3>1. f = "summary"
      BY <1>2, <2>1, <2>3, OutFileNames DEF FillOut
    <3>2. out'["summary"].run = run[p].id /\ out'["summary"].says = OutClaims(p, f)
      BY <1>2, <2>1, <2>3, <3>1, OutFileNames DEF FillOut
    <3>3. run[p].tier = "deep"
      BY <3>1, <3>2 DEF OutClaims, FooterClaims
    <3>4. pc[p] \in Writing
      BY <2>3 DEF FillOut, Writing, Fillings
    <3>5. deepScope[p] \/ interrupted[p]
      BY <3>3, <3>4 DEF RunInv, RunSound, EndKnown
    <3> QED BY <3>2, <3>5 DEF ClaimsHonestly
  <2> QED BY <1>4, <2>2, <2>3
<1>5. ASSUME NEW p \in Procs, Step(p),
             \A f \in OutSteps : ~TruncateOut(p, f) /\ ~FillOut(p, f)
      PROVE  ClaimsHonestly
  BY <1>5 DEF Step, OpenCheckpoint, Discover, LoopInterrupted, ReuseUnit, BeginParse, Parse,
     Record, WriteTemp, Rename, Merge, LoopDone, BeginDeep, DeepDone, SkipDeep, Render, Fail
<1> QED BY <1>1, <1>3, <1>4, <1>5 DEF Next

\* A run returns 0 only with all it planned, and the interrupted status only
\* when a Ctrl-C cut its plan short; and its summary claims a deep phase only
\* if there was one, or if it was cut short (run_investigate).
THEOREM StatusTellsTheTruth == Spec => StatusIsHonest
<1>1. ASSUME RunInv, [Next]_vars, NEW p \in Procs PROVE Honest(p)
  <2> SUFFICES ASSUME pc[p] # "idle", pc'[p] = "idle", Next PROVE Honest(p)
    BY <1>1 DEF Honest, vars
  <2>1. ASSUME NEW q \in Procs, Render(q) PROVE Honest(p)
    BY <1>1, <2>1, StepPlaces, RunLengths
       DEF Render, Leave, RunInv, RunShapes, RunSound, Progress, EndKnown, MoreProfiles,
           Honest
  <2>2. ASSUME NEW q \in Procs, Fail(q) \/ InterruptAgain(q) \/ Crash(q)
        PROVE  Honest(p)
    BY <1>1, <2>2, LeftHonestly DEF Fail, InterruptAgain, Crash, Honest
  <2>3. CASE PowerLoss
    BY <1>1, <2>3, LeftHonestly DEF PowerLoss, Running, Honest
  <2>4. CASE WriteBack \/ (\E r \in Roots : EditRoot(r)) \/ (\E q \in Profiles : EditNested(q))
    BY <2>4 DEF WriteBack, EditRoot, EditNested
  <2>5. ASSUME NEW q \in Procs, Launch(q) \/ Interrupt(q) PROVE Honest(p)
    BY <1>1, <2>5 DEF Launch, Interrupt, Goto, RunInv, RunShapes
  <2>6. ASSUME NEW q \in Procs, Step(q), ~Render(q), ~Fail(q) PROVE Honest(p)
    BY <1>1, <2>6, StepPlaces DEF Step, OpenCheckpoint, Discover, LoopInterrupted, ReuseUnit,
       BeginParse, Parse, Record, WriteTemp, Rename, Merge, LoopDone, BeginDeep,
       DeepDone, SkipDeep, TruncateOut, FillOut, Goto, RunInv, RunShapes, Early
  <2> QED BY <2>1, <2>2, <2>3, <2>4, <2>5, <2>6 DEF Next, Surroundings
<1>2. RunInv /\ [Next]_vars => [\A p \in Procs : Honest(p)]_vars
  BY <1>1
<1>3. RunInv /\ TypeOK /\ [Next]_vars => [ClaimsHonestly]_vars
  BY ClaimsAreHonest
<1> QED BY <1>2, <1>3, RunInvariant, TypeCorrect, PTL DEF Spec, StatusIsHonest, Honest, ClaimsHonestly

-----------------------------------------------------------------------------
(* The output files of one process per DIR.                                *)


\* The files that the run of a process has yet to begin.
NotBegun(p) ==
    CASE pc[p] \in {"fill manifest", "summary"} -> {"summary", "findings"}
      [] pc[p] \in {"fill summary", "findings"} -> {"findings"}
      [] pc[p] \in {"fill findings", "render"} -> {}
      [] OTHER -> OutFiles

\* A file the run is done with.
DoneWith(f) == out[f].run = clock /\ out[f].whole

\* Where a run is in writing its files: those it is done with are whole and bear its
\* number, those it has not begun bear an earlier one, and no file bears a later one.
FilesOfRun(p) ==
    pc[p] # "idle" =>
        /\ run[p].id = clock
        /\ \A f \in NotBegun(p) : out[f].run < clock
        /\ pc[p] \in {"summary", "fill summary", "findings", "fill findings"} =>
              DoneWith(ManifestOf(p))
        /\ pc[p] \in {"findings", "fill findings"} => DoneWith("summary")

OutShapes ==
    /\ clock \in Nat
    /\ out = [f \in OutFiles |-> out[f]]
    /\ \A f \in OutFiles : /\ out[f].run \in Nat /\ out[f].run <= clock
                           /\ out[f].manifest \in Manifests
    /\ pc = [p \in Procs |-> pc[p]] /\ run = [p \in Procs |-> run[p]]

OutInv == OutShapes /\ OutputsInOrder /\ \A p \in Procs : FilesOfRun(p)

\* A file of a later run, and a whole one of the same run, stand before a file.
LEMMA LaterStands ==
    ASSUME NEW before, NEW file, before.run \in Nat, file.run \in Nat, file.run < before.run
    PROVE  StandsBefore(before, file)
  BY DEF StandsBefore

LEMMA WholeStands ==
    ASSUME NEW before, NEW file, file.run \in Nat, before.run = file.run, before.whole
    PROVE  StandsBefore(before, file)
  BY DEF StandsBefore

LEMMA OutFileSteps ==
    /\ Filling["manifest"] = "fill manifest"
    /\ Filling["summary"] = "fill summary"
    /\ Filling["findings"] = "fill findings"
    /\ \A p : /\ AfterOut(p)["manifest"] \in {"summary", "render"}
              /\ AfterOut(p)["summary"] = "findings"
              /\ AfterOut(p)["findings"] = "render"
    /\ \A p : /\ FileOf(p, "manifest") = ManifestOf(p)
              /\ FileOf(p, "summary") = "summary"
              /\ FileOf(p, "findings") = "findings"
  BY DEF Filling, AfterOut, FileOf

LEMMA NothingWritten ==
    /\ NoOutputs = [f \in OutFiles |-> NoOutputs[f]]
    /\ \A f \in OutFiles : NoOutputs[f].run = 0 /\ NoOutputs[f].manifest = "manifest"
  BY DEF NoOutputs

LEMMA InitOut == Init => OutInv
<1> SUFFICES ASSUME Init PROVE OutInv
  OBVIOUS
<1>0. out = NoOutputs
  BY DEF Init
<1>1. OutShapes
  BY <1>0, NothingWritten DEF Init, OutShapes, Manifests
<1>2. OutputsInOrder
  BY <1>0, OutFileNames, NothingWritten DEF OutputsInOrder, StandsBefore
<1>3. \A p \in Procs : FilesOfRun(p)
  BY DEF Init, FilesOfRun
<1> QED BY <1>1, <1>2, <1>3 DEF OutInv

\* A step between those that write the files.
LEMMA OutFrame ==
    ASSUME OutInv, NEW p \in Procs, NEW step, OneProcess,
           step \notin {"fill manifest", "summary", "fill summary", "findings",
                        "fill findings"},
           pc[p] \notin {"idle", "fill manifest", "summary", "fill summary", "findings",
                        "fill findings", "render"},
           Goto(p, step), UNCHANGED <<out, clock, run>>
    PROVE  OutInv'
<1>1. \A f \in OutFiles : out[f].run < clock
  BY DEF OutInv, FilesOfRun, NotBegun
<1>2. pc' = [pc EXCEPT ![p] = step]
  BY DEF Goto
<1>3. OutShapes'
  BY <1>2 DEF OutInv, OutShapes
<1>4. OutputsInOrder'
  BY DEF OutInv, OutputsInOrder, StandsBefore
<1>5. ASSUME NEW q \in Procs PROVE FilesOfRun(q)'
  <2>1. q = p
    BY DEF OneProcess
  <2>2. pc'[p] = step
    BY <1>2 DEF OutInv, OutShapes
  <2>3. NotBegun(p)' \subseteq OutFiles
    BY <2>2 DEF NotBegun
  <2>4. run'[p].id = clock'
    BY DEF OutInv, FilesOfRun
  <2> QED BY <1>1, <2>1, <2>2, <2>3, <2>4 DEF FilesOfRun
<1> QED BY <1>3, <1>4, <1>5 DEF OutInv

LEMMA OutLeave ==
    ASSUME OutInv, NEW S \in SUBSET Procs, NEW status, Leave(S, status), clock' = clock,
           \/ out' = out
           \/ out' = NoOutputs /\ \A p \in Procs \ S : pc[p] = "idle"
    PROVE  OutInv'
<1>1. OutShapes'
  <2>1. clock' \in Nat /\ out' = [f \in OutFiles |-> out'[f]]
    BY NothingWritten DEF OutInv, OutShapes
  <2>2. \A f \in OutFiles : /\ out'[f].run \in Nat /\ out'[f].run <= clock'
                             /\ out'[f].manifest \in Manifests
    BY OutFileNames, NothingWritten DEF OutInv, OutShapes, Manifests
  <2>3. pc' = [p \in Procs |-> pc'[p]] /\ run' = [p \in Procs |-> run'[p]]
    BY DEF Leave
  <2> QED BY <2>1, <2>2, <2>3 DEF OutShapes
<1>2. OutputsInOrder'
  BY OutFileNames, NothingWritten DEF OutInv, OutputsInOrder, StandsBefore
<1>3. ASSUME NEW q \in Procs PROVE FilesOfRun(q)'
  <2>1. CASE q \in S
    BY <2>1 DEF Leave, FilesOfRun
  <2>2. CASE q \notin S /\ out' = out
    <3>1. pc'[q] = pc[q] /\ run'[q] = run[q]
      BY <2>2 DEF Leave
    <3>2. NotBegun(q)' = NotBegun(q) /\ ManifestOf(q)' = ManifestOf(q)
      BY <3>1 DEF NotBegun, ManifestOf
    <3> QED BY <2>2, <3>1, <3>2 DEF OutInv, FilesOfRun, DoneWith
  <2>3. CASE q \notin S /\ out' # out
    BY <2>3 DEF Leave, FilesOfRun
  <2> QED BY <2>1, <2>2, <2>3
<1> QED BY <1>1, <1>2, <1>3 DEF OutInv

LEMMA OutStay ==
    ASSUME OutInv, UNCHANGED <<out, clock, run, pc>>
    PROVE  OutInv'
  BY DEF OutInv, OutShapes, OutputsInOrder, StandsBefore, FilesOfRun, NotBegun, DoneWith,
         ManifestOf

LEMMA OutStep ==
    ASSUME OneProcess, OutInv, NEW p \in Procs, Step(p)
    PROVE  OutInv'
<1>1. CASE Render(p) \/ Fail(p)
  BY <1>1, OutLeave DEF Render, Fail
<1>2. CASE ReuseUnit(p)
  BY <1>2, OutStay DEF ReuseUnit
<1>3. ASSUME NEW f \in OutSteps, TruncateOut(p, f) \/ FillOut(p, f)
      PROVE  OutInv'
  <2>1. \A q \in Procs : q = p
    BY OneProcess DEF OneProcess
  <2>2. /\ clock' = clock /\ run' = run /\ ManifestOf(p)' = ManifestOf(p)
        /\ ManifestOf(p) \in Manifests
    BY <1>3, OutFileNames DEF TruncateOut, FillOut, ManifestOf
  <2> DEFINE w == FileOf(p, f)
  <2>3. PICK mark : /\ mark.run = run[p].id /\ mark.manifest = ManifestOf(p)
                    /\ out' = [out EXCEPT ![w] = mark]
                    /\ \/ /\ pc[p] = f /\ pc' = [pc EXCEPT ![p] = Filling[f]]
                       \/ /\ mark.whole /\ pc[p] = Filling[f]
                          /\ pc' = [pc EXCEPT ![p] = AfterOut(p)[f]]
    <3>1. CASE TruncateOut(p, f)
      <4> DEFINE begun == [run |-> run[p].id, whole |-> FALSE, says |-> {},
                           manifest |-> ManifestOf(p)]
      <4>1. begun.run = run[p].id /\ begun.manifest = ManifestOf(p)
        OBVIOUS
      <4>2. /\ out' = [out EXCEPT ![w] = begun]
            /\ pc[p] = f /\ pc' = [pc EXCEPT ![p] = Filling[f]]
        BY <3>1 DEF TruncateOut, Goto
      <4> HIDE DEF begun
      <4> QED BY <4>1, <4>2
    <3>2. CASE FillOut(p, f)
      <4> DEFINE filled == [run |-> run[p].id, whole |-> TRUE, says |-> OutClaims(p, f),
                            manifest |-> ManifestOf(p)]
      <4>1. filled.run = run[p].id /\ filled.manifest = ManifestOf(p) /\ filled.whole
        OBVIOUS
      <4>2. /\ out' = [out EXCEPT ![w] = filled]
            /\ pc[p] = Filling[f] /\ pc' = [pc EXCEPT ![p] = AfterOut(p)[f]]
        BY <3>2 DEF FillOut, Goto
      <4> HIDE DEF filled
      <4> QED BY <4>1, <4>2
    <3> QED BY <1>3, <3>1, <3>2
  <2> HIDE DEF w
  <2>4. w \in OutFiles
    BY OutFileNames, OutFileSteps DEF w
  <2>5. \/ pc[p] = f /\ pc'[p] = Filling[f]
        \/ mark.whole /\ pc[p] = Filling[f] /\ pc'[p] = AfterOut(p)[f]
    BY <2>3 DEF OutInv, OutShapes
  <2>6. pc[p] # "idle" /\ mark.run = clock
    BY <2>3, <2>5, OutFileNames, OutFileSteps DEF OutInv, FilesOfRun
  <2>7. out'[w] = mark /\ \A g \in OutFiles : g # w => out'[g] = out[g]
    BY <2>3, <2>4 DEF OutInv, OutShapes
  <2>8. OutShapes'
    <3>1. /\ out' = [g \in OutFiles |-> out'[g]]
          /\ pc' = [q \in Procs |-> pc'[q]]
      BY <2>3 DEF OutInv, OutShapes
    <3>2. \A g \in OutFiles : /\ out'[g].run \in Nat /\ out'[g].run <= clock
                              /\ out'[g].manifest \in Manifests
      BY <2>2, <2>3, <2>6, <2>7 DEF OutInv, OutShapes
    <3> QED BY <2>2, <3>1, <3>2 DEF OutInv, OutShapes
  <2>9. OutputsInOrder' /\ FilesOfRun(p)'
    <3> DEFINE m == ManifestOf(p)
    <3>0. /\ out'[w] = mark /\ mark.run = clock /\ mark.manifest = m
          /\ \A g \in OutFiles : g # w => out'[g] = out[g]
          /\ m \in Manifests /\ clock' = clock /\ run'[p].id = clock
          /\ ManifestOf(p)' = m
          /\ \A g \in OutFiles : out[g].run \in Nat /\ out[g].manifest \in Manifests
      BY <2>2, <2>3, <2>6, <2>7 DEF OutInv, OutShapes, FilesOfRun
    <3> HIDE DEF m
    <3>1. /\ \A g \in NotBegun(p) : out[g].run < clock
          /\ pc[p] \in {"summary", "fill summary", "findings", "fill findings"} =>
                DoneWith(m)
          /\ pc[p] \in {"findings", "fill findings"} => DoneWith("summary")
          /\ OutputsInOrder
      BY <2>6 DEF OutInv, FilesOfRun, m
    <3>2. CASE f = "manifest"
      <4>1. w = m
        BY <3>2, OutFileSteps DEF w, m
      <4>2. \/ pc[p] = "manifest" /\ pc'[p] = "fill manifest"
            \/ mark.whole /\ pc[p] = "fill manifest" /\ pc'[p] \in {"summary", "render"}
        BY <2>5, <3>2, OutFileSteps
      <4>3. out["summary"].run < clock /\ out["findings"].run < clock
        BY <3>1, <4>2, OutFileNames DEF NotBegun
      <4>4. OutputsInOrder'
        <5>1. /\ out'["summary"] = out["summary"] /\ out'["findings"] = out["findings"]
              /\ StandsBefore(out["summary"], out["findings"])
          BY <3>0, <3>1, <4>1, OutFileNames DEF OutputsInOrder
        <5>2. ASSUME NEW g \in {"summary", "findings"}
              PROVE  StandsBefore(out'[out'[g].manifest], out'[g])
          <6>1. /\ g \in OutFiles /\ out'[g] = out[g] /\ out[g].run < clock
                /\ out[g].manifest \in OutFiles
            BY <3>0, <4>3, <5>1, OutFileNames
          <6>2. CASE out[g].manifest = w
            <7>1. out'[out'[g].manifest] = mark
              BY <3>0, <6>1, <6>2
            <7>2. out'[g].run \in Nat /\ mark.run \in Nat /\ out'[g].run < mark.run
              BY <3>0, <6>1 DEF OutInv, OutShapes
            <7> QED BY <7>1, <7>2, LaterStands
          <6>3. CASE out[g].manifest # w
            <7>1. out'[out'[g].manifest] = out[out[g].manifest]
              BY <3>0, <6>1, <6>3
            <7>2. StandsBefore(out[out[g].manifest], out[g])
              BY <3>1 DEF OutputsInOrder
            <7> QED BY <6>1, <7>1, <7>2
          <6> QED BY <6>2, <6>3
        <5> QED BY <5>1, <5>2 DEF OutputsInOrder
      <4>5. FilesOfRun(p)'
        BY <3>0, <4>1, <4>2, <4>3, OutFileNames DEF FilesOfRun, NotBegun, DoneWith
      <4> QED BY <4>4, <4>5
    <3>3. CASE f = "summary"
      <4>1. w = "summary"
        BY <3>3, OutFileSteps DEF w
      <4>2. \/ pc[p] = "summary" /\ pc'[p] = "fill summary"
            \/ mark.whole /\ pc[p] = "fill summary" /\ pc'[p] = "findings"
        BY <2>5, <3>3, OutFileSteps
      <4>3. out["findings"].run < clock /\ DoneWith(m)
        BY <3>1, <4>2, OutFileNames DEF NotBegun
      <4>4. OutputsInOrder'
        <5>1. out'["findings"] = out["findings"] /\ out'["summary"] = mark
          BY <3>0, <4>1, OutFileNames
        <5>2. StandsBefore(out'["summary"], out'["findings"])
          <6>1. /\ out'["summary"].run \in Nat /\ out'["findings"].run \in Nat
                /\ out'["findings"].run < out'["summary"].run
            BY <3>0, <4>3, <5>1, OutFileNames DEF OutInv, OutShapes
          <6> QED BY <6>1, LaterStands
        <5>3. StandsBefore(out'[out'["summary"].manifest], out'["summary"])
          <6>1. out'["summary"].manifest = m /\ out'["summary"].run = clock
            BY <3>0, <5>1
          <6>2. out'[m] = out[m]
            BY <3>0, <4>1, OutFileNames
          <6>3. out'[m].run = clock /\ out'[m].whole
            BY <4>3, <6>2 DEF DoneWith
          <6>4. out'["summary"].run \in Nat
            BY <6>1 DEF OutInv, OutShapes
          <6> QED BY <6>1, <6>3, <6>4, WholeStands
        <5>4. StandsBefore(out'[out'["findings"].manifest], out'["findings"])
          <6>1. /\ out["findings"].manifest # "summary"
                /\ out["findings"].manifest \in OutFiles
            BY <3>0, OutFileNames
          <6> QED BY <3>0, <3>1, <4>1, <5>1, <6>1 DEF OutputsInOrder
        <5> QED BY <5>2, <5>3, <5>4 DEF OutputsInOrder
      <4>5. FilesOfRun(p)'
        BY <3>0, <4>1, <4>2, <4>3, OutFileNames DEF FilesOfRun, NotBegun, DoneWith
      <4> QED BY <4>4, <4>5
    <3>4. CASE f = "findings"
      <4>1. w = "findings"
        BY <3>4, OutFileSteps DEF w
      <4>2. \/ pc[p] = "findings" /\ pc'[p] = "fill findings"
            \/ mark.whole /\ pc[p] = "fill findings" /\ pc'[p] = "render"
        BY <2>5, <3>4, OutFileSteps
      <4>3. DoneWith(m) /\ DoneWith("summary")
        BY <3>1, <4>2
      <4>4. OutputsInOrder'
        BY <3>0, <3>1, <4>1, <4>3, OutFileNames DEF OutputsInOrder, StandsBefore, DoneWith
      <4>5. FilesOfRun(p)'
        BY <3>0, <4>1, <4>2, <4>3, OutFileNames DEF FilesOfRun, NotBegun, DoneWith
      <4> QED BY <4>4, <4>5
    <3> QED BY <3>2, <3>3, <3>4, OutFileNames
  <2> QED BY <2>1, <2>8, <2>9 DEF OutInv
<1>4. CASE OpenCheckpoint(p) \/ Discover(p)
  BY <1>4, OutFrame DEF OpenCheckpoint, Discover
<1>5. CASE LoopInterrupted(p) \/ BeginParse(p) \/ Parse(p) \/ LoopDone(p)
  BY <1>5, OutFrame DEF LoopInterrupted, BeginParse, Parse, LoopDone
<1>6. CASE Record(p) \/ WriteTemp(p) \/ Rename(p) \/ Merge(p)
  BY <1>6, OutFrame DEF Record, WriteTemp, Rename, Merge
<1>7. CASE BeginDeep(p) \/ DeepDone(p) \/ SkipDeep(p)
  BY <1>7, OutFrame DEF BeginDeep, DeepDone, SkipDeep
<1> QED BY <1>1, <1>2, <1>3, <1>4, <1>5, <1>6, <1>7 DEF Step

LEMMA OutSurroundings ==
    ASSUME OneProcess, OutInv, Surroundings
    PROVE  OutInv'
<1>1. ASSUME NEW p \in Procs, Launch(p) PROVE OutInv'
  <2>1. PICK args : /\ clock' = clock + 1 /\ out' = out
                    /\ pc' = [pc EXCEPT ![p] = "open"]
                    /\ args.id = clock + 1 /\ run' = [run EXCEPT ![p] = args]
    BY <1>1 DEF Launch, Goto
  <2>2. \A q \in Procs : q = p
    BY OneProcess DEF OneProcess
  <2>3. OutShapes'
    <3>1. /\ clock' \in Nat
          /\ \A f \in OutFiles : /\ out'[f].run \in Nat /\ out'[f].run <= clock'
                                 /\ out'[f].manifest \in Manifests
      BY <2>1 DEF OutInv, OutShapes
    <3>2. out' = [f \in OutFiles |-> out'[f]]
      BY <2>1 DEF OutInv, OutShapes
    <3>3. pc' = [q \in Procs |-> pc'[q]] /\ run' = [q \in Procs |-> run'[q]]
      BY <2>1 DEF OutInv, OutShapes
    <3> QED BY <3>1, <3>2, <3>3 DEF OutShapes
  <2>4. OutputsInOrder'
    BY <2>1 DEF OutInv, OutputsInOrder, StandsBefore
  <2>5. FilesOfRun(p)'
    <3>1. pc'[p] = "open" /\ run'[p].id = clock'
      BY <2>1 DEF OutInv, OutShapes
    <3>2. NotBegun(p)' = OutFiles
      BY <3>1 DEF NotBegun
    <3>3. \A f \in OutFiles : out'[f].run < clock'
      BY <2>1 DEF OutInv, OutShapes
    <3> QED BY <3>1, <3>2, <3>3 DEF FilesOfRun
  <2> QED BY <2>2, <2>3, <2>4, <2>5 DEF OutInv
<1>2. ASSUME NEW p \in Procs, InterruptAgain(p) \/ Crash(p) PROVE OutInv'
  BY <1>2, OutLeave DEF InterruptAgain, Crash
<1>3. CASE PowerLoss
  BY <1>3, OutLeave DEF PowerLoss, Running
<1>4. ASSUME NEW p \in Procs, Interrupt(p) PROVE OutInv'
  BY <1>4, OutStay DEF Interrupt
<1>5. CASE WriteBack
  BY <1>5, OutStay DEF WriteBack
<1>6. ASSUME NEW r \in Roots, EditRoot(r) PROVE OutInv'
  BY <1>6, OutStay DEF EditRoot
<1>7. ASSUME NEW q \in Profiles, EditNested(q) PROVE OutInv'
  BY <1>7, OutStay DEF EditNested
<1> QED BY <1>1, <1>2, <1>3, <1>4, <1>5, <1>6, <1>7 DEF Surroundings

\* The output files of one process at a time are rewritten in one order, so
\* that findings never stand beside an older or unfinished summary, nor either of them
\* with an older or unfinished manifest, in DIR or where --manifest sent it
\* (write_detection_manifest, then write_investigation_outputs).
THEOREM OutputsKeepOrder ==
    ASSUME OneProcess
    PROVE  Spec => []OutputsInOrder
<1>1. OutInv /\ [Next]_vars => OutInv'
  <2> SUFFICES ASSUME OutInv, [Next]_vars PROVE OutInv'
    OBVIOUS
  <2>1. CASE UNCHANGED vars
    BY <2>1, OutStay DEF vars
  <2> QED BY <2>1, OneProcess, OutStep, OutSurroundings DEF Next
<1>2. OutInv => OutputsInOrder
  BY DEF OutInv
<1> QED BY <1>1, <1>2, InitOut, PTL DEF Spec

=============================================================================
