SPECIFICATION Spec
CONSTANTS
    q1 = q1  q2 = q2  r1 = r1  r2 = r2  p1 = p1  p2 = p2
    Profiles = {q1, q2}
    Roots = {r1}
    RootOf <- OneRoot
    Procs = {p1}
    MaxRuns = 2
    MaxEdits = 1
    NestedEdits = TRUE
    PowerFails = FALSE
    Launches <- OneTier
CHECK_DEADLOCK FALSE
INVARIANTS
    ResumeEquivalence
