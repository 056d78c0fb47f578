CONSTANTS
    NumChannels = 1
    NumRoutines = 1
    Configs <- PulseAndFlip
    Minutes <- TwoMinutes
    Width = 2
    MaxBusy = 1
SPECIFICATION Spec
INVARIANT EdgeTypeOK StoresAgree RunningCounts
PROPERTY FiresOncePerMinute PulseEnds
