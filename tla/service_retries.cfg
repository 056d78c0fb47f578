CONSTANTS
    r1 = r1  r2 = r2  r3 = r3
    c1 = c1  c2 = c2
    k1 = k1  k2 = k2
    Requests <- MCRequests
    Commands <- OneCommand
    Keys <- MCKeys
    CommandOf <- RetriesCommandOf
    KeyOf <- RetriesKeyOf
    Expirable <- OnlyFirst
    MaxInFlight = 1
    MaxCopies = 1
    Lossy = TRUE
SPECIFICATION Spec
CHECK_DEADLOCK FALSE
INVARIANT TypeOK DispatchedOnce PublishedIsDurable PublishedIsRecorded ReplayAnswersItsKey
PROPERTY NoRegression
