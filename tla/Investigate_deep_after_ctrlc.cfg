SPECIFICATION Spec
CONSTANTS
    q1 = q1  q2 = q2  r1 = r1  r2 = r2  p1 = p1  p2 = p2
    Profiles = {q1}
    Roots = {r1}
    RootOf <- OneRoot
    Procs = {p1}
    MaxRuns = 1
    MaxEdits = 0
    NestedEdits = FALSE
    PowerFails = FALSE
    Launches <- DeepTier
CHECK_DEADLOCK FALSE
PROPERTIES
    NoDeepAfterCtrlC
