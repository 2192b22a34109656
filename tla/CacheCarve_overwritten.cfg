SPECIFICATION CacheSpec
CONSTANTS
    Hashes = {h1}
    Urls = {k1, k2}
    Blocks = {b1, b2, b3}
    MaxMeanwhile = 0
CHECK_DEADLOCK FALSE
INVARIANTS FullIsItsOwn
