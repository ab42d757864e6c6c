SPECIFICATION ClockSpec
CONSTANTS
    DayTicks = 6
    BIOS_TICK_MS = 3
    Width = 64
    Delays = {1, 3, 4, 9, 15, 63}
    UsPerMs = 4
    MicroDelays = {1, 9}
    Interval = 4
INVARIANT DelayExact
PROPERTY DelayEnds
