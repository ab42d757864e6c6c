SPECIFICATION ClockSpec
CONSTANTS
    DayTicks = 6
    BIOS_TICK_MS = 3
    Width = 64
    Delays = {}
    UsPerMs = 4
    MicroDelays = {}
    Interval = 4
PROPERTY TimersKeepFiring
