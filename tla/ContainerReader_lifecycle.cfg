SPECIFICATION FairSpec
CONSTANTS
    Readers = {a, b}
    Size = 2
    Requests <- AllRequests
    MaxReads = 2
INVARIANTS
    OneExchange
    NoThreadLeft
    IInv
PROPERTIES
    ImplementsPositionedRead
    CallsReturn
