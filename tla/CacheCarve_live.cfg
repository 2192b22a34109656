SPECIFICATION CacheSpec
CONSTANTS
    Hashes = {h1, h2}
    Urls = {k1, k2}
    Blocks = {b1, b2, b3}
    MaxMeanwhile = 2
CHECK_DEADLOCK FALSE
INVARIANTS CarvedIsWhatWasEvicted
