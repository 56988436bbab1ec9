\* One core: no sleep runs before the AHCI controller takes its vector.
SPECIFICATION Spec
CONSTANTS
    CoreCount = 1
    Pins = 24
    PitGsi = 2
    Ports = 1
    MaxPolls = 1
    MaxIrqs = 2
    TickWord = 8
    SleepTicks = 2
    MaxTimerTicks = 1
INVARIANT VectorOwned
