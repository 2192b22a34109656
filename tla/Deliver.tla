------------------------------ MODULE Deliver ------------------------------
(***************************************************************************)
(* What a run leaves in its output directory: the bundle of report         *)
(* --bundle (bundle.rs; cli.rs, run_report_bundle), the single files of    *)
(* export and report, and the manifest of each (browser-forensic-manifest). *)
(*                                                                         *)
(* A run collects, then hashes the evidence, then writes file after file;  *)
(* it fails or is killed between any two steps, and is run again over      *)
(* what it left.  The browser may be at work meanwhile.                    *)
(***************************************************************************)
EXTENDS Naturals, FiniteSets, Sequences

CONSTANTS Cases,        \* profiles under the path
          MaxRuns,      \* bound: runs over one directory
          MaxChanges    \* bound: changes of the evidence

ASSUME DeliverAssumption == MaxRuns \in Nat /\ MaxChanges \in Nat

VARIABLES
    profiles,    \* of each profile, how often it has changed, and whether a value in it
                 \* is longer than a cell of a sheet may be
    bundleRun,   \* the run: its number, stage, and what it has gathered
    outDir       \* of each file, its content, or Absent

deliverVars == <<profiles, bundleRun, outDir>>

\* In the order in which they are written; the last is the hashes of the others.
HashedFiles == <<"report.html", "timeline.xlsx", "timeline.jsonl", "manifest.json">>
Sums == "SHA256SUMS.txt"
SingleFiles == {"export", "report", "manifest"}
FileNames == {HashedFiles[k] : k \in DOMAIN HashedFiles} \cup {Sums} \cup SingleFiles

Absent == [type |-> "absent"]
Torn   == [type |-> "torn"]
NoEvidence == [c \in {} |-> 0]

Idle == [stage |-> "idle", number |-> 0, events |-> NoEvidence, digests |-> NoEvidence, next |-> 0]

\* The evidence of some profiles, as it is.
Of(S) == [c \in S |-> profiles[c]]
Long(events) == \E c \in DOMAIN events : events[c].long

Put(name, content) == outDir' = [outDir EXCEPT ![name] = content]

-----------------------------------------------------------------------------

BrowserChanges ==
    /\ \E c \in Cases, long \in BOOLEAN :
          /\ profiles[c].version < MaxChanges
          /\ profiles' = [profiles EXCEPT ![c] = [version |-> @.version + 1, long |-> long]]
    /\ UNCHANGED <<bundleRun, outDir>>

\* The profiles that the selectors leave, one at least, are triaged.  (A directory
\* is either for bundles or for single files.)
CollectInvestigation ==
    /\ bundleRun.stage \in {"idle", "failed", "done"} /\ bundleRun.number < MaxRuns
    /\ \A n \in SingleFiles : outDir[n] = Absent
    /\ \E S \in (SUBSET Cases) \ {{}} :
          bundleRun' = [Idle EXCEPT !.stage = "collected", !.number = bundleRun.number + 1,
                                    !.events = Of(S)]
    /\ UNCHANGED <<profiles, outDir>>

\* Everything under the path is hashed, as it is by now.
BuildBundleManifest ==
    /\ bundleRun.stage = "collected"
    /\ bundleRun' = [bundleRun EXCEPT !.stage = "writing", !.digests = Of(Cases), !.next = 1]
    /\ UNCHANGED <<profiles, outDir>>

\* All but the plain timeline, which is byte for byte what the events make it, carry
\* the time of their run.
Content(name) ==
    CASE name = "manifest.json" ->
            [type |-> name, run |-> bundleRun.number, digests |-> bundleRun.digests]
      [] name = "timeline.jsonl" -> [type |-> name, events |-> bundleRun.events]
      [] OTHER -> [type |-> name, run |-> bundleRun.number, events |-> bundleRun.events]

\* A sheet with a cell that is too long is not saved.
Unwritable(name) == name = "timeline.xlsx" /\ Long(bundleRun.events)

WriteFile ==
    /\ bundleRun.stage = "writing" /\ bundleRun.next \in DOMAIN HashedFiles
    /\ LET name == HashedFiles[bundleRun.next]
       IN  \/ /\ ~Unwritable(name)
              /\ Put(name, Content(name))
              /\ bundleRun' = [bundleRun EXCEPT !.next = @ + 1]
           \/ /\ Unwritable(name)
              /\ bundleRun' = [bundleRun EXCEPT !.stage = "failed"]
              /\ UNCHANGED outDir
    /\ UNCHANGED profiles

\* Mistake: the report is not among the files that are hashed.
SumsWithoutReport == [k \in DOMAIN HashedFiles \ {1} |-> outDir[HashedFiles[k]]]

\* The files are read again; one that is not there is an error.
Sha256Sums == [k \in DOMAIN HashedFiles |-> outDir[HashedFiles[k]]]

WriteSums ==
    /\ bundleRun.stage = "writing" /\ bundleRun.next = Len(HashedFiles) + 1
    /\ Put(Sums, [type |-> Sums, of |-> Sha256Sums])
    /\ bundleRun' = [bundleRun EXCEPT !.stage = "done"]
    /\ UNCHANGED profiles

\* Killed, or the disk is full: the file that is being written may be cut off.
StopRun ==
    /\ bundleRun.stage \in {"collected", "writing"}
    /\ bundleRun' = [bundleRun EXCEPT !.stage = "failed"]
    /\ \/ UNCHANGED outDir
       \/ /\ bundleRun.stage = "writing"
          /\ Put(IF bundleRun.next \in DOMAIN HashedFiles THEN HashedFiles[bundleRun.next] ELSE Sums, Torn)
    /\ UNCHANGED profiles

\* One file, and then a manifest of everything under the path, if one is asked for.
\* An export replaces what is there; a sheet may fail.
RunExport(sheet) ==
    /\ bundleRun.stage = "idle" /\ outDir["export"] = Absent
    /\ ~(sheet /\ Long(profiles))
    /\ Put("export", [type |-> "export", events |-> Of(Cases)])
    /\ UNCHANGED <<profiles, bundleRun>>

\* The events are those of the selected profiles; the flags of an HTML report are
\* those of all.
RunReport ==
    /\ bundleRun.stage = "idle" /\ outDir["report"] = Absent
    /\ \E S \in (SUBSET Cases) \ {{}} :
          Put("report", [type |-> "report", events |-> Of(S), flags |-> Of(Cases)])
    /\ UNCHANGED <<profiles, bundleRun>>

RunManifest ==
    /\ bundleRun.stage = "idle" /\ outDir["manifest"] = Absent
    /\ Put("manifest", [type |-> "manifest", digests |-> Of(Cases)])
    /\ UNCHANGED <<profiles, bundleRun>>

DeliverInit ==
    /\ profiles = [c \in Cases |-> [version |-> 0, long |-> FALSE]]
    /\ bundleRun = Idle
    /\ outDir = [n \in FileNames |-> Absent]

DeliverNext ==
    \/ BrowserChanges
    \/ CollectInvestigation \/ BuildBundleManifest \/ WriteFile \/ WriteSums \/ StopRun
    \/ (\E sheet \in BOOLEAN : RunExport(sheet)) \/ RunReport \/ RunManifest

DeliverSpec == DeliverInit /\ [][DeliverNext]_deliverVars

-----------------------------------------------------------------------------

\* sha256sum -c over the directory.
Verifies ==
    /\ outDir[Sums].type = Sums
    /\ \A k \in DOMAIN outDir[Sums].of : outDir[HashedFiles[k]] = outDir[Sums].of[k]

\* A directory whose hashes are right is the bundle of one run: its report, both
\* timelines and its manifest are whole and of the same events, whatever runs failed
\* or were killed over it before and after, and what the manifest hashed is no older
\* than the events.  A run that ends well leaves such a directory (bundle.rs 1-20,
\* 60-96).
VerifiedBundleIsOneRun ==
    /\ Verifies =>
          LET html == outDir["report.html"]
              manifest == outDir["manifest.json"]
          IN  /\ {n \in FileNames \ SingleFiles : outDir[n] \in {Absent, Torn}} = {}
              /\ {html.run, outDir["timeline.xlsx"].run} = {manifest.run}
              /\ outDir["timeline.xlsx"].events = html.events
              /\ outDir["timeline.jsonl"].events = html.events
              /\ ~Long(html.events)
              /\ \A c \in DOMAIN html.events : html.events[c].version <= manifest.digests[c].version
    /\ bundleRun.stage = "done" => Verifies

=============================================================================
