CONSTANTS
    r1 = r1  r2 = r2  r3 = r3
    c1 = c1  c2 = c2
    k1 = k1  k2 = k2
    Requests <- MCPair
    Commands <- OneCommand
    Keys <- MCKeys
    CommandOf <- PairCommandOf
    KeyOf <- SharedKeyOf
    Expirable <- MCPair
    MaxInFlight = 1
    MaxCopies = 1
    Lossy = TRUE
SPECIFICATION FairSpec
PROPERTY OutboxRetries
CHECK_DEADLOCK FALSE
