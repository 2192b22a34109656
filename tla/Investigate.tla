----------------------------- MODULE Investigate -----------------------------
(***************************************************************************)
(* Runs of `br4n6 investigate` (browser-forensic-cli/src/cli.rs,           *)
(* run_investigate and what it calls), over evidence that may change while *)
(* they run and over one shared output directory DIR (`-o DIR`).           *)
(*                                                                         *)
(* A process is an operating-system process that starts one run after the  *)
(* other.  One action is one call that touches shared state: a file write, *)
(* a rename, a look at the cancel flag, a parse.  Around the runs stand    *)
(* the operator (launch, Ctrl-C), the operating system (kill, loss of      *)
(* power, write-back) and whatever changes the evidence.                   *)
(***************************************************************************)
EXTENDS ResumeState, FiniteSets

CONSTANTS
    Procs,        \* processes that run investigate
    MaxRuns,      \* bound: runs started in all
    MaxEdits,     \* bound: edits of each root and each profile
    NestedEdits,  \* TRUE: files inside a profile may change, which leaves
                  \*       the root's own mtime alone
    PowerFails,   \* TRUE: the machine may lose power
    Launches      \* the command lines a run may be started with

ASSUME ProfilesAssumption == IsFiniteSet(Profiles)

ASSUME BoundsAssumption ==
    /\ MaxRuns \in Nat
    /\ MaxEdits \in Nat
    /\ NestedEdits \in BOOLEAN
    /\ PowerFails \in BOOLEAN
    /\ Launches \subseteq [tier: Tiers, restart: BOOLEAN, output: BOOLEAN,
                     manifest: BOOLEAN]

VARIABLES
    mtime,        \* evidence: the mtime of each root directory
    content,      \* evidence: the version of each profile's files
    resume,       \* DIR/.br4n6-resume.json as a reader sees it
    synced,       \* what of it has reached the disk
    tmp,          \* DIR/.br4n6-resume.json.tmp.<pid>, per process
    out,          \* DIR/manifest.json, summary.txt, findings.jsonl, and the
                  \* file that `--manifest PATH` names, outside DIR
    clock,        \* runs started so far; the time stamp of the next
    pc,           \* where each process is in run_investigate
    run,          \* arguments of its current or last run
    plan,         \* the profiles the run goes over, in order
    cancel,       \* the flag the Ctrl-C handler sets
    sess,         \* the checkpoint session
    unit,         \* the fragment in hand
    report,       \* the merged report: one unit per finished profile
    interrupted,  \* Some(Interrupted) of the loop
    deepScope,    \* Some(scope): the recovery engines ran
    late,         \* history: units parsed after the first Ctrl-C
    opened,       \* history: the evidence as it was when the run opened it
    exit          \* how the run ended

evidenceVars == <<mtime, content>>
diskVars     == <<resume, synced, tmp>>
resultVars   == <<interrupted, deepScope>>
historyVars  == <<late, opened>>
memoryVars   == <<plan, cancel, sess, unit, report, resultVars, historyVars>>
vars == <<evidenceVars, diskVars, out, clock, pc, run, memoryVars, exit>>

\* The output files in the order they are written, and where the manifest may go.
OutSteps == {"manifest", "summary", "findings"}
Manifests == {"manifest", "elsewhere"}
OutFiles == OutSteps \cup Manifests
Claims   == {"deep recovery ran"}
OutStates == [run: Nat, whole: BOOLEAN, says: SUBSET Claims, manifest: Manifests]

NoOutputs ==
    [f \in OutFiles |-> [run |-> 0, whole |-> FALSE, says |-> {}, manifest |-> "manifest"]]

\* The step that fills each output file.
Filling == [manifest |-> "fill manifest", summary |-> "fill summary",
            findings |-> "fill findings"]

Fillings == {Filling[f] : f \in OutSteps}

PCs == {"idle", "open", "discover", "loop", "parse", "record", "temp",
        "rename", "merge", "looped", "deep", "render"}
       \cup OutSteps \cup Fillings

Exits == {"none", "running", "ok", "interrupted", "error", "aborted", "killed"}

Runs == [id: Nat, root: Roots, tier: Tiers, restart: BOOLEAN, output: BOOLEAN,
         manifest: BOOLEAN]

NoRun  == [id |-> 0]
NoUnit == [key |-> "none"]

TypeOK ==
    /\ mtime \in [Roots -> Nat]
    /\ content \in [Profiles -> Nat]
    /\ resume \in FileStates
    /\ synced \in FileStates
    /\ tmp \in [Procs -> FileStates]
    /\ out \in [OutFiles -> OutStates]
    /\ clock \in Nat
    /\ pc \in [Procs -> PCs]
    /\ run \in [Procs -> Runs \cup {NoRun}]
    /\ plan \in [Procs -> Seq(Profiles)]
    /\ cancel \in [Procs -> BOOLEAN]
    /\ sess \in [Procs -> Sessions \cup {NoSession}]
    /\ unit \in [Procs -> Units \cup {NoUnit}]
    /\ report \in [Procs -> Seq(Units)]
    /\ interrupted \in [Procs -> BOOLEAN]
    /\ deepScope \in [Procs -> BOOLEAN]
    /\ late \in [Procs -> Nat]
    /\ opened \in [Procs -> [Profiles -> Nat]]
    /\ exit \in [Procs -> Exits]
    /\ \A p \in Procs :
          /\ pc[p] # "idle" => run[p] \in Runs
          /\ pc[p] \in {"record", "temp", "rename"} => sess[p] \in Sessions
          /\ pc[p] \in {"record", "temp", "rename", "merge"} => unit[p] \in Units

-----------------------------------------------------------------------------
ProfilesUnder(root) == {q \in Profiles : RootOf[q] = root}

\* The orders in which the directory walk may yield the profiles of S.
Orders(S) ==
    {s \in [1..Cardinality(S) -> S] : \A i, j \in DOMAIN s : s[i] = s[j] => i = j}

Stateful(p) == run[p].output

NextKey(p) == plan[p][Len(report[p]) + 1]

MoreProfiles(p) == Len(report[p]) < Len(plan[p])

Goto(p, step) == pc' = [pc EXCEPT ![p] = step]

\* The memory of a process that has not started or is gone.
NoOpened == [q \in Profiles |-> 0]

\* The processes of S are gone, with this status, and their memory with them.
\* A temp file may stay behind, under a pid no later process looks for.
Leave(S, status) ==
    /\ pc' = [p \in Procs |-> IF p \in S THEN "idle" ELSE pc[p]]
    /\ exit' = [p \in Procs |-> IF p \in S THEN status ELSE exit[p]]
    /\ run' = [p \in Procs |-> IF p \in S THEN NoRun ELSE run[p]]
    /\ plan' = [p \in Procs |-> IF p \in S THEN << >> ELSE plan[p]]
    /\ cancel' = [p \in Procs |-> IF p \in S THEN FALSE ELSE cancel[p]]
    /\ sess' = [p \in Procs |-> IF p \in S THEN NoSession ELSE sess[p]]
    /\ unit' = [p \in Procs |-> IF p \in S THEN NoUnit ELSE unit[p]]
    /\ report' = [p \in Procs |-> IF p \in S THEN << >> ELSE report[p]]
    /\ interrupted' = [p \in Procs |-> IF p \in S THEN FALSE ELSE interrupted[p]]
    /\ deepScope' = [p \in Procs |-> IF p \in S THEN FALSE ELSE deepScope[p]]
    /\ late' = [p \in Procs |-> IF p \in S THEN 0 ELSE late[p]]
    /\ opened' = [p \in Procs |-> IF p \in S THEN NoOpened ELSE opened[p]]
    /\ tmp' = [p \in Procs |-> IF p \in S THEN Missing ELSE tmp[p]]

Running == {p \in Procs : pc[p] # "idle"}

\* skipped_footer / deep_footer: at the deep tier the footer states that deep
\* recovery ran, with or without a scope.  The interrupted footer is printed
\* on the terminal only.
FooterClaims(p) ==
    IF run[p].tier = "deep" THEN {"deep recovery ran"} ELSE {}

OutClaims(p, f) == IF f = "summary" THEN FooterClaims(p) ELSE {}

Init ==
    /\ mtime = [r \in Roots |-> 0]
    /\ content = [q \in Profiles |-> 0]
    /\ resume \in {Missing, Corrupt}
    /\ synced = resume
    /\ tmp = [p \in Procs |-> Missing]
    /\ out = NoOutputs
    /\ clock = 0
    /\ pc = [p \in Procs |-> "idle"]
    /\ run = [p \in Procs |-> NoRun]
    /\ plan = [p \in Procs |-> << >>]
    /\ cancel = [p \in Procs |-> FALSE]
    /\ sess = [p \in Procs |-> NoSession]
    /\ unit = [p \in Procs |-> NoUnit]
    /\ report = [p \in Procs |-> << >>]
    /\ interrupted = [p \in Procs |-> FALSE]
    /\ deepScope = [p \in Procs |-> FALSE]
    /\ late = [p \in Procs |-> 0]
    /\ opened = [p \in Procs |-> NoOpened]
    /\ exit = [p \in Procs |-> "none"]

-----------------------------------------------------------------------------
(* The start of a run.                                                     *)

\* The path exists, DIR is created, the Ctrl-C handler is installed.
Launch(p) ==
    /\ pc[p] = "idle" /\ clock < MaxRuns
    /\ clock' = clock + 1
    /\ \E root \in Roots, line \in Launches :
          run' = [run EXCEPT ![p] =
                     [id |-> clock + 1, root |-> root, tier |-> line.tier,
                      restart |-> line.restart, output |-> line.output,
                      manifest |-> line.manifest]]
    /\ exit' = [exit EXCEPT ![p] = "running"]
    /\ Goto(p, "open")
    /\ UNCHANGED <<evidenceVars, diskVars, out, memoryVars>>

\* Fingerprint the evidence root, then open the session over DIR.
OpenCheckpoint(p) ==
    /\ pc[p] = "open"
    /\ sess' = [sess EXCEPT ![p] =
          IF Stateful(p)
          THEN ResumeOrNew(resume, Fingerprint(run[p].root, mtime),
                           run[p].tier, run[p].restart, run[p].id)
          ELSE NoSession]
    /\ opened' = [opened EXCEPT ![p] = content]
    /\ Goto(p, "discover")
    /\ UNCHANGED <<evidenceVars, diskVars, out, clock, run, plan, cancel, unit,
                   report, resultVars, late, exit>>

\* Discovery, then the selectors: any part of the profiles, in any order.
Discover(p) ==
    /\ pc[p] = "discover"
    /\ \E S \in SUBSET ProfilesUnder(run[p].root) :
          \E order \in Orders(S) : plan' = [plan EXCEPT ![p] = order]
    /\ Goto(p, "loop")
    /\ UNCHANGED <<evidenceVars, diskVars, out, clock, run, cancel, sess, unit,
                   report, resultVars, historyVars, exit>>

-----------------------------------------------------------------------------
(* run_profile_loop.                                                       *)

\* Mistake: the loop is left without a word.
LoopBreaksSilently(p) ==
    /\ pc[p] = "loop" /\ MoreProfiles(p) /\ cancel[p]
    /\ Goto(p, "looped")
    /\ UNCHANGED <<evidenceVars, diskVars, out, clock, run, plan, cancel, sess,
                   unit, report, resultVars, historyVars, exit>>

\* The flag is looked at once per profile, before the profile.
LoopInterrupted(p) ==
    /\ pc[p] = "loop" /\ MoreProfiles(p) /\ cancel[p]
    /\ interrupted' = [interrupted EXCEPT ![p] = TRUE]
    /\ Goto(p, "looped")
    /\ UNCHANGED <<evidenceVars, diskVars, out, clock, run, plan, cancel, sess,
                   unit, report, deepScope, historyVars, exit>>

\* Mistake: a completed unit is skipped and never merged.
ReuseWithoutMerging(p) ==
    /\ pc[p] = "loop" /\ MoreProfiles(p) /\ ~cancel[p]
    /\ Stateful(p) /\ HasCompleted(sess[p], NextKey(p))
    /\ UNCHANGED vars

ReuseUnit(p) ==
    /\ pc[p] = "loop" /\ MoreProfiles(p) /\ ~cancel[p]
    /\ Stateful(p) /\ HasCompleted(sess[p], NextKey(p))
    /\ report' = [report EXCEPT ![p] =
                     Append(@, CompletedUnit(sess[p], NextKey(p)))]
    /\ UNCHANGED <<evidenceVars, diskVars, out, clock, run, pc, plan, cancel,
                   sess, unit, resultVars, historyVars, exit>>

\* Mistake: the flag is not looked at before a parse.
BeginParseUnasked(p) ==
    /\ pc[p] = "loop" /\ MoreProfiles(p)
    /\ ~(Stateful(p) /\ HasCompleted(sess[p], NextKey(p)))
    /\ Goto(p, "parse")
    /\ UNCHANGED <<evidenceVars, diskVars, out, clock, run, plan, cancel, sess,
                   unit, report, resultVars, historyVars, exit>>

BeginParse(p) ==
    /\ pc[p] = "loop" /\ MoreProfiles(p) /\ ~cancel[p]
    /\ ~(Stateful(p) /\ HasCompleted(sess[p], NextKey(p)))
    /\ Goto(p, "parse")
    /\ UNCHANGED <<evidenceVars, diskVars, out, clock, run, plan, cancel, sess,
                   unit, report, resultVars, historyVars, exit>>

\* collect_one_profile.
Parse(p) ==
    /\ pc[p] = "parse"
    /\ unit' = [unit EXCEPT ![p] =
                   [key |-> NextKey(p), ver |-> content[NextKey(p)],
                    tier |-> run[p].tier]]
    /\ late' = IF cancel[p] THEN [late EXCEPT ![p] = @ + 1] ELSE late
    /\ Goto(p, IF Stateful(p) THEN "record" ELSE "merge")
    /\ UNCHANGED <<evidenceVars, diskVars, out, clock, run, plan, cancel, sess,
                   report, resultVars, opened, exit>>

\* record(): a key already present is left alone.
Record(p) ==
    /\ pc[p] = "record"
    /\ IF HasCompleted(sess[p], unit[p].key)
       THEN Goto(p, "merge") /\ UNCHANGED sess
       ELSE /\ sess' = [sess EXCEPT ![p] = RecordInMemory(@, unit[p])]
            /\ Goto(p, "temp")
    /\ UNCHANGED <<evidenceVars, diskVars, out, clock, run, plan, cancel, unit,
                   report, resultVars, historyVars, exit>>

\* Mistake: the resume file is emptied before the new one is complete.
WriteTempInPlace(p) ==
    /\ pc[p] = "temp"
    /\ tmp' = [tmp EXCEPT ![p] = Saved(sess[p].cp)]
    /\ resume' = Corrupt
    /\ Goto(p, "rename")
    /\ UNCHANGED <<evidenceVars, synced, out, clock, run, plan, cancel,
                   sess, unit, report, resultVars, historyVars, exit>>

\* Mistake: the fingerprint is taken anew at every write.
WriteTempRestamped(p) ==
    /\ pc[p] = "temp"
    /\ tmp' = [tmp EXCEPT ![p] =
                  Saved([sess[p].cp EXCEPT !.fp = Fingerprint(run[p].root, mtime)])]
    /\ Goto(p, "rename")
    /\ UNCHANGED <<evidenceVars, resume, synced, out, clock, run, plan, cancel,
                   sess, unit, report, resultVars, historyVars, exit>>

\* write_atomic, first half.
WriteTemp(p) ==
    /\ pc[p] = "temp"
    /\ tmp' = [tmp EXCEPT ![p] = Saved(sess[p].cp)]
    /\ Goto(p, "rename")
    /\ UNCHANGED <<evidenceVars, resume, synced, out, clock, run, plan, cancel,
                   sess, unit, report, resultVars, historyVars, exit>>

\* write_atomic, second half.
Rename(p) ==
    /\ pc[p] = "rename"
    /\ resume' = tmp[p]
    /\ tmp' = [tmp EXCEPT ![p] = Missing]
    /\ Goto(p, "merge")
    /\ UNCHANGED <<evidenceVars, synced, out, clock, run, plan, cancel, sess,
                   unit, report, resultVars, historyVars, exit>>

Merge(p) ==
    /\ pc[p] = "merge"
    /\ report' = [report EXCEPT ![p] = Append(@, unit[p])]
    /\ Goto(p, "loop")
    /\ UNCHANGED <<evidenceVars, diskVars, out, clock, run, plan, cancel, sess,
                   unit, resultVars, historyVars, exit>>

LoopDone(p) ==
    /\ pc[p] = "loop" /\ ~MoreProfiles(p)
    /\ Goto(p, "looped")
    /\ UNCHANGED <<evidenceVars, diskVars, out, clock, run, plan, cancel, sess,
                   unit, report, resultVars, historyVars, exit>>

-----------------------------------------------------------------------------
(* What follows the loop: the deep phase, the output files, the render.    *)

\* The manifest goes to DIR, or to the PATH of --manifest, with or without a DIR.
HasManifest(p) == Stateful(p) \/ run[p].manifest
ManifestOf(p) == IF run[p].manifest THEN "elsewhere" ELSE "manifest"
FileOf(p, f) == IF f = "manifest" THEN ManifestOf(p) ELSE f

\* Mistake: the summary written last, after the findings.
AfterOutSummaryLast(p) == [manifest |-> IF Stateful(p) THEN "findings" ELSE "render",
                           summary |-> "render", findings |-> "summary"]

\* The step after each output file.
AfterOut(p) == [manifest |-> IF Stateful(p) THEN "summary" ELSE "render",
                summary |-> "findings", findings |-> "render"]

BeginDeep(p) ==
    /\ pc[p] = "looped" /\ run[p].tier = "deep" /\ ~interrupted[p]
    /\ Goto(p, "deep")
    /\ UNCHANGED <<evidenceVars, diskVars, out, clock, run, plan, cancel, sess,
                   unit, report, resultVars, historyVars, exit>>

DeepDone(p) ==
    /\ pc[p] = "deep"
    /\ deepScope' = [deepScope EXCEPT ![p] = TRUE]
    /\ Goto(p, IF HasManifest(p) THEN "manifest" ELSE "render")
    /\ UNCHANGED <<evidenceVars, diskVars, out, clock, run, plan, cancel, sess,
                   unit, report, interrupted, historyVars, exit>>

SkipDeep(p) ==
    /\ pc[p] = "looped" /\ (run[p].tier # "deep" \/ interrupted[p])
    /\ Goto(p, IF HasManifest(p) THEN "manifest" ELSE "render")
    /\ UNCHANGED <<evidenceVars, diskVars, out, clock, run, plan, cancel, sess,
                   unit, report, resultVars, historyVars, exit>>

\* fs::write creates or empties the file first ...
TruncateOut(p, f) ==
    /\ pc[p] = f
    /\ out' = [out EXCEPT ![FileOf(p, f)] =
                  [run |-> run[p].id, whole |-> FALSE, says |-> {},
                   manifest |-> ManifestOf(p)]]
    /\ Goto(p, Filling[f])
    /\ UNCHANGED <<evidenceVars, diskVars, clock, run, plan, cancel, sess, unit,
                   report, resultVars, historyVars, exit>>

\* ... and then holds what was written to it.
FillOut(p, f) ==
    /\ pc[p] = Filling[f]
    /\ out' = [out EXCEPT ![FileOf(p, f)] =
                  [run |-> run[p].id, whole |-> TRUE, says |-> OutClaims(p, f),
                   manifest |-> ManifestOf(p)]]
    /\ Goto(p, AfterOut(p)[f])
    /\ UNCHANGED <<evidenceVars, diskVars, clock, run, plan, cancel, sess, unit,
                   report, resultVars, historyVars, exit>>

\* The terminal gets the summary, an interrupted run the interrupted footer
\* and a non-zero status.
Render(p) ==
    /\ pc[p] = "render"
    /\ Leave({p}, IF interrupted[p] THEN "interrupted" ELSE "ok")
    /\ UNCHANGED <<evidenceVars, resume, synced, out, clock>>

\* Every `?` on the way: a selector that matches nothing, a temp file that
\* cannot be written or renamed, a recovery engine that cannot start, an
\* output file that cannot be written.
Fallible == {"discover", "temp", "rename", "deep"} \cup OutSteps \cup Fillings

Fail(p) ==
    /\ pc[p] \in Fallible
    /\ Leave({p}, "error")
    /\ UNCHANGED <<evidenceVars, resume, synced, out, clock>>

Step(p) ==
    \/ OpenCheckpoint(p) \/ Discover(p)
    \/ LoopInterrupted(p) \/ ReuseUnit(p) \/ BeginParse(p) \/ Parse(p)
    \/ Record(p) \/ WriteTemp(p) \/ Rename(p) \/ Merge(p) \/ LoopDone(p)
    \/ BeginDeep(p) \/ DeepDone(p) \/ SkipDeep(p)
    \/ \E f \in OutSteps : TruncateOut(p, f) \/ FillOut(p, f)
    \/ Render(p) \/ Fail(p)

-----------------------------------------------------------------------------
(* The surroundings of a run.                                              *)

\* The first Ctrl-C sets the flag ...
Interrupt(p) ==
    /\ pc[p] # "idle" /\ ~cancel[p]
    /\ cancel' = [cancel EXCEPT ![p] = TRUE]
    /\ UNCHANGED <<evidenceVars, diskVars, out, clock, pc, run, plan, sess,
                   unit, report, resultVars, historyVars, exit>>

\* ... and the second leaves with status 130.
InterruptAgain(p) ==
    /\ pc[p] # "idle" /\ cancel[p]
    /\ Leave({p}, "aborted")
    /\ UNCHANGED <<evidenceVars, resume, synced, out, clock>>

\* Killed or crashed between two steps.
Crash(p) ==
    /\ pc[p] # "idle"
    /\ Leave({p}, "killed")
    /\ UNCHANGED <<evidenceVars, resume, synced, out, clock>>

\* The system writes the resume file back in its own time (no fsync).
WriteBack ==
    /\ PowerFails /\ synced # resume
    /\ synced' = resume
    /\ UNCHANGED <<evidenceVars, resume, tmp, out, clock, run, pc, plan, cancel,
                   sess, unit, report, resultVars, historyVars, exit>>

\* The machine stops.  The resume file is afterwards the current image, the
\* last one written back, or neither; the output files are there or lost.
PowerLoss ==
    /\ PowerFails
    /\ resume' \in {resume, synced, Corrupt}
    /\ synced' = resume'
    /\ out' \in {out, NoOutputs}
    /\ Leave(Running, "killed")
    /\ UNCHANGED <<evidenceVars, clock>>

\* An edit that touches the root directory itself, and with it any of the
\* profiles below.
EditRoot(r) ==
    /\ mtime[r] < MaxEdits
    /\ mtime' = [mtime EXCEPT ![r] = @ + 1]
    /\ \E S \in SUBSET ProfilesUnder(r) :
          content' = [q \in Profiles |->
                         IF q \in S THEN content[q] + 1 ELSE content[q]]
    /\ UNCHANGED <<diskVars, out, clock, run, pc, plan, cancel, sess, unit,
                   report, resultVars, historyVars, exit>>

\* An edit below the root: a directory's mtime does not move when a file
\* inside one of its subdirectories does.
EditNested(q) ==
    /\ NestedEdits /\ content[q] < MaxEdits
    /\ content' = [content EXCEPT ![q] = @ + 1]
    /\ UNCHANGED <<mtime, diskVars, out, clock, run, pc, plan, cancel, sess, unit,
                   report, resultVars, historyVars, exit>>

Surroundings ==
    \/ \E p \in Procs : Launch(p) \/ Interrupt(p) \/ InterruptAgain(p) \/ Crash(p)
    \/ WriteBack \/ PowerLoss
    \/ \E r \in Roots : EditRoot(r)
    \/ \E q \in Profiles : EditNested(q)

Next == (\E p \in Procs : Step(p)) \/ Surroundings

Spec == Init /\ [][Next]_vars

\* A run is a sequential program with no waits in it: it is scheduled until
\* it ends.  Nothing is assumed of the operator, the system or the evidence.
FairSpec == Spec /\ \A p \in Procs : WF_vars(Step(p))
-----------------------------------------------------------------------------
(* Properties.                                                             *)

\* Everything a run has merged so far is what it would have merged had it
\* never been interrupted, resumed or sharing DIR: one unit per profile, in
\* plan order, parsed at this run's tier, and, where the profile has not
\* changed since the run opened the evidence, parsed from what is there now.
\* (cli.rs 1039: "so the merged result equals an uninterrupted run".)
ResumeEquivalence ==
    \A p \in Procs : \A i \in DOMAIN report[p] :
        LET q == plan[p][i] IN
        /\ i <= Len(plan[p])
        /\ report[p][i].key = q
        /\ report[p][i].tier = run[p].tier
        /\ content[q] = opened[p][q] => report[p][i].ver = content[q]

\* A checkpoint that a run could still resume from (its fingerprint is the
\* evidence's present one) holds only current parses of profiles of that
\* root, at the tier it names, each profile once, whatever edits, crashes
\* and other runs came in between.
CurrentCheckpoint(cp) ==
    /\ \A i, j \in DOMAIN cp.completed :
          cp.completed[i].key = cp.completed[j].key => i = j
    /\ cp.fp = Fingerprint(cp.fp.root, mtime) =>
          \A i \in DOMAIN cp.completed :
              LET u == cp.completed[i] IN
              /\ RootOf[u.key] = cp.fp.root
              /\ u.tier = cp.tier
              /\ u.ver = content[u.key]

ResumableIsCurrent == IsSaved(resume) => CurrentCheckpoint(resume.cp)

\* Resuming saves work: a run without --restart never parses a profile that
\* the resume file, for the same evidence and tier, holds as completed.
\* (One process per DIR: two overwrite each other's units.)
ParsesOnlyUnsaved ==
    \A p \in Procs :
        /\ pc[p] = "parse" /\ Stateful(p) /\ ~run[p].restart
        /\ IsSaved(resume) /\ Matches(resume.cp, sess[p].cp.fp, run[p].tier)
        => NextKey(p) \notin Keys(resume.cp.completed)

\* The write-temp-then-rename discipline of write_atomic: however a process
\* dies, the resume file is never left half written.  Only a loss of power,
\* against which nothing is synced, can make it unreadable.
TornOnlyByPowerLoss ==
    [][resume' = Corrupt => resume = Corrupt \/ PowerLoss]_vars

\* The status tells a finished run from a partial one: 0 is returned only
\* when every planned profile was merged and, at the deep tier, the recovery
\* engines ran; the interrupted status only after a Ctrl-C that really cut
\* the plan short.  And a summary claims that deep recovery ran only if it did, or if the
\* run was cut short: then the footer falls back to the scope of a profile, though
\* investigate.rs 352 says "state what deep recovery ACTUALLY ran".
StatusIsHonest ==
    /\ [][\A p \in Procs :
            pc[p] # "idle" /\ pc'[p] = "idle" =>
            /\ exit'[p] = "ok" =>
                  /\ Len(report[p]) = Len(plan[p])
                  /\ run[p].tier = "deep" => deepScope[p]
            /\ exit'[p] = "interrupted" =>
                  cancel[p] /\ Len(report[p]) < Len(plan[p]) /\ ~deepScope[p]]_vars
    /\ [][\A claim \in out'["summary"].says \ out["summary"].says :
            \E p \in Procs : /\ out'["summary"].run = run[p].id
                             /\ deepScope[p] \/ interrupted[p]]_vars

\* The files of a run are rewritten in one order: a reader who finds the summary of a
\* run also finds its whole manifest or a later run's, wherever that run's command line
\* sent it, and one who finds the findings also finds the whole summary, even after
\* crashes.  (One process per DIR.  With --manifest, DIR/manifest.json is not that
\* run's: DIR alone does not tell.)
StandsBefore(before, file) ==
    /\ before.run >= file.run
    /\ before.run = file.run /\ file.run # 0 => before.whole

OutputsInOrder ==
    /\ StandsBefore(out["summary"], out["findings"])
    /\ \A f \in {"summary", "findings"} : StandsBefore(out[out[f].manifest], out[f])

\* After a Ctrl-C at most the parse under way is finished; no other profile
\* is parsed.
AtMostOneLateParse == \A p \in Procs : late[p] <= 1

\* Every run ends: the loop makes progress whatever it reuses or parses and
\* whenever Ctrl-C comes.
RunsEnd == \A p \in Procs : pc[p] # "idle" ~> pc[p] = "idle"

-----------------------------------------------------------------------------
(* What the documentation says of a Ctrl-C and the code does not do.       *)

\* cli.rs 1192: "Deep is skipped on an interrupt so a Ctrl-C during the
\* standard loop is honored (no new heavy work scheduled after the operator
\* asked to stop)".
NoDeepAfterCtrlC ==
    [][\A p \in Procs : cancel[p] /\ pc[p] # "deep" => pc'[p] # "deep"]_vars

=============================================================================
