CONSTANTS
    c1 = c1  c2 = c2  u1 = u1  u2 = u2  i1 = i1  h1 = h1  h2 = h2  r1 = r1
    k1 = k1  t1 = t1  d1 = d1  d2 = d2  d3 = d3  a1 = a1  w1 = w1  w2 = w2
    p1 = p1  p2 = p2  n1 = n1  n2 = n2
    Callers <- MCCallers
    Users <- MCUsers
    Invites <- MCInvites
    InviterOf <- MCInviterOf
    InviteeOf <- MCInviteeOf
    InviteRole <- MCInviteRole
    MaxTokens = 3
    MaxPasswords = 1
    MaxSessions = 2
    Homes <- MCHomes
    Rooms <- MCRooms
    RoomHome <- MCRoomHome
    Dispatchers <- MCDispatchers
    Events <- MCEvents
    Critical <- MCCritical
    PushTokens <- MCPushTokens
    MaxAttempts = 2
    MaxNotes = 1
    MaxDeliveries = 2
    MaxCuts = 1
    Tickers <- MCTickers
    DayLength = 2
    Late = 1
    KeyLimit = 2
    AutoTime = 1
    MaxTime = 2
    MaxChanges = 3
    Admins <- MCAdmins
    Devices <- MCDevices
    BatchSize = 2
    MaxConcurrency = 2
    ThresholdCount = 1
    ThresholdPercent = 50
    MaxReports = 2
    MaxOps = 3
    MaxEnergy = 1
    MaxReadings = 3
    MaxFaults = 1
    Restarts = TRUE
    Channels <- MCChannels
    MaxOutbox = 2
    MaxRotations = 2
    Phones <- MCPhones
    Scanned <- MCScanned
    Networks <- MCNetworks
    Unfit <- MCUnfit
    Parts = 2
    QueueSize = 3
    MaxHellos = 2
SPECIFICATION BackendSpec
INVARIANTS
    BackendTypeOK
    OwnerKept
    SessionsHold
    SessionKept
    
    TrustKept
    PushedOnce
    RecordIsTrue
    FiredOnce
    ScheduleKept
    HeldForAReason
    NotFiredTwice
    RolloutInStep
    OneUpdate
    EnergyCounted
    StaleWasSilent
    CloudIsCurrent
    
PROPERTIES
    ClosedIsClosed
    
VIEW MCView
CHECK_DEADLOCK FALSE
