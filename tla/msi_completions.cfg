\* The MADT's one core and one IO-APIC, one port: the completions of IDENTIFY and of later disk commands
SPECIFICATION Spec
CONSTANTS
    CoreCount <- MadtCoreCount
    Pins <- MadtPins
    PitGsi <- MadtPitGsi
    Ports = 1
    MaxPolls = 1
    MaxIrqs = 2
    TickWord = 8
    SleepTicks = 2
    MaxTimerTicks = 1
PROPERTY CompletionsHandled
