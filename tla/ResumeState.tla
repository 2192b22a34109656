---------------------------- MODULE ResumeState ----------------------------
(***************************************************************************)
(* The resume state of `br4n6 investigate -o DIR`                          *)
(* (browser-forensic-cli/src/checkpoint.rs) as data: fingerprints,         *)
(* completed units, checkpoints, the file they are kept in and the session *)
(* a run opens over it.  Every definition here is a pure operator; the     *)
(* state machines that use them are in Investigate.                        *)
(*                                                                         *)
(* A parsed fragment is abstracted to the profile it came from, the        *)
(* version of that profile's content it was parsed from and the tier it    *)
(* was parsed at: parsing is deterministic in these three, and nothing in  *)
(* the resume machinery looks inside a fragment.                           *)
(***************************************************************************)
EXTENDS Naturals, Sequences

CONSTANTS
    Profiles,   \* browser profiles, each a distinct (browser, path) pair
    Roots,      \* evidence roots a run may be pointed at
    RootOf      \* the evidence root each profile lies under

ASSUME RootOfAssumption == RootOf \in [Profiles -> Roots]

Tiers == {"quick", "standard", "deep"}

\* checkpoint.rs CompletedUnit; `key` is cli.rs unit_key (browser and path).
Units == [key: Profiles, ver: Nat, tier: Tiers]

\* checkpoint.rs EvidenceFingerprint: canonical root and its own mtime.  The
\* length is None for a directory, the only shape that holds profiles.
Fingerprints == [root: Roots, mtime: Nat]

Fingerprint(root, mtime) == [root |-> root, mtime |-> mtime[root]]

Checkpoints ==
    [fp: Fingerprints, tier: Tiers, created: Nat, completed: Seq(Units)]

NewCheckpoint(fp, tier, now) ==
    [fp |-> fp, tier |-> tier, created |-> now, completed |-> << >>]

\* Mistake: the root's path alone stands for the evidence.
MatchesByPath(cp, fp, tier) == cp.fp.root = fp.root /\ cp.tier = tier

\* Mistake: a checkpoint of one tier resumed at another.
MatchesAnyTier(cp, fp, tier) == cp.fp = fp

Matches(cp, fp, tier) == cp.fp = fp /\ cp.tier = tier

-----------------------------------------------------------------------------
(* What load() can find at the resume path.  Corrupt stands for everything *)
(* load rejects: unreadable, malformed, or written under another version.  *)

Missing == [kind |-> "missing"]
Corrupt == [kind |-> "corrupt"]
Saved(cp) == [kind |-> "ok", cp |-> cp]

FileStates == {Missing, Corrupt} \cup [kind: {"ok"}, cp: Checkpoints]

IsSaved(file) == file.kind = "ok"

Keys(completed) == {completed[i].key : i \in DOMAIN completed}

\* The HashMap from key to position, 0 where there is no entry.  collect()
\* into it: for a repeated key the last position stays.
Indexes == [Profiles -> Nat]

NoIndex == [k \in Profiles |-> 0]

\* Mistake: positions counted from 0, where 0 says "no entry".
IndexOfFromZero(completed) ==
    [k \in Profiles |->
        IF k \in Keys(completed)
        THEN (CHOOSE i \in DOMAIN completed : completed[i].key = k) - 1
        ELSE 0]

IndexOf(completed) ==
    [k \in Profiles |->
        IF k \in Keys(completed)
        THEN CHOOSE i \in DOMAIN completed :
                /\ completed[i].key = k
                /\ \A j \in DOMAIN completed : completed[j].key = k => j <= i
        ELSE 0]

Sessions == [cp: Checkpoints, index: Indexes]

\* The stateless run, without -o.
NoSession == [cp |-> "none"]

FreshSession(fp, tier, now) ==
    [cp |-> NewCheckpoint(fp, tier, now), index |-> NoIndex]

\* Missing, corrupt, mismatching or --restart: start clean.  Only a matching
\* checkpoint is resumed.
ResumeOrNew(file, fp, tier, restart, now) ==
    IF ~restart /\ IsSaved(file) /\ Matches(file.cp, fp, tier)
    THEN [cp |-> file.cp, index |-> IndexOf(file.cp.completed)]
    ELSE FreshSession(fp, tier, now)

HasCompleted(sess, key) == sess.index[key] # 0

CompletedUnit(sess, key) == sess.cp.completed[sess.index[key]]

\* Mistake: the new unit takes the place of the list.
RecordReplacing(sess, unit) ==
    [cp |-> [sess.cp EXCEPT !.completed = <<unit>>],
     index |-> [sess.index EXCEPT ![unit.key] = 1]]

\* The in-memory half of record(): index first, then the list.
RecordInMemory(sess, unit) ==
    [cp |-> [sess.cp EXCEPT !.completed = Append(@, unit)],
     index |-> [sess.index EXCEPT ![unit.key] = Len(sess.cp.completed) + 1]]
=============================================================================
