SPECIFICATION Spec
CONSTANTS
    Pages = {a, b}
    MaxCommits = 2
INVARIANTS
    InPlaceIsSafe
