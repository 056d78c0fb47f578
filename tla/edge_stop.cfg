CONSTANTS
    NumChannels = 1
    NumRoutines = 1
    Configs <- PulseOnly
    Minutes <- TwoMinutes
    Width = 2
    MaxBusy = 1
SPECIFICATION Spec
INVARIANT StopDisarms
