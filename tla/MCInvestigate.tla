---------------------------- MODULE MCInvestigate ----------------------------
(***************************************************************************)
(* Small instances of Investigate for TLC.                                 *)
(***************************************************************************)
EXTENDS InvestigateInv, TLC

CONSTANTS q1, q2, r1, r2, p1, p2

OneRoot  == [q \in Profiles |-> r1]
TwoRoots == [q \in Profiles |-> IF q = q2 THEN r2 ELSE r1]

\* Command lines: with -o at one tier or two, with --restart or not, deep ones with and
\* without -o, and with --manifest.
OneTier   == [tier: {"standard"}, restart: {FALSE}, output: {TRUE}, manifest: {FALSE}]
TwoTiers  == [tier: {"quick", "standard"}, restart: {FALSE}, output: {TRUE}, manifest: {FALSE}]
Restarts  == [tier: {"standard"}, restart: BOOLEAN, output: {TRUE}, manifest: {FALSE}]
DeepTier  == [tier: {"deep"}, restart: {FALSE}, output: BOOLEAN, manifest: {FALSE}]
Elsewhere == [tier: {"deep"}, restart: {FALSE}, output: BOOLEAN, manifest: {TRUE}]
AllLines  == Restarts \cup DeepTier \cup Elsewhere

\* Processes are interchangeable, and so are profiles under one root.
Interchangeable == Permutations({p1, p2}) \cup Permutations({q1, q2})
=============================================================================
