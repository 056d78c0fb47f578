CONSTANTS
    i1 = i1  i2 = i2
    k1 = k1  k2 = k2  k3 = k3
    Requests <- MCRequests
    Commands <- MCCommands
    Keys <- MCKeys
    CommandOf <- MCCommandOf
    KeyOf <- MCKeyOf
    Expirable <- MCExpirable
    ActionOf <- MCActionOf
    ChannelOf <- MCChannelOf
    RoutineIds <- MCRoutineIds
    RoutineOf <- MCRoutineOf
    RoutineChannel <- MCRoutineChannel
    RoutineSlots = 1
    NumChannels = 2
    RingSize = 2
    MaxInFlight = 1
    MaxCopies = 1
    Lossy = TRUE
    Clocks = {"unset", "right", "off"}
    Reboots = TRUE
    MaxActs = 0
SPECIFICATION AloneSpec
INVARIANT DeviceTypeOK TablesHold
VIEW MCView
CHECK_DEADLOCK FALSE
