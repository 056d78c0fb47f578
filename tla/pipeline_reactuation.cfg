CONSTANTS
    r1 = r1  r2 = r2  r3 = r3
    c1 = c1  c2 = c2
    k1 = k1  k2 = k2
    Requests <- One
    Commands <- MCCommands
    Keys <- MCKeys
    CommandOf <- MCCommandOf
    KeyOf <- MCKeyOf
    ActionOf <- OnThenStop
    ChannelOf <- ChannelOne
    RoutineIds <- NoRoutines
    RoutineOf <- NoRoutineOf
    RoutineChannel <- NoRoutineChannel
    RoutineSlots = 0
    NumChannels = 2
    RingSize = 2
    Expirable <- One
    MaxInFlight = 1
    MaxCopies = 1
    Lossy = TRUE
    Clocks = {"unset", "right", "off"}
    Reboots = TRUE
    MaxActs = 2
SPECIFICATION PipelineSpec
INVARIANT DispatchedOncePerKey
CHECK_DEADLOCK FALSE
