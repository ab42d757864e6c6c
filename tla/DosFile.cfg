SPECIFICATION Spec
CONSTANTS
    Objs = {o1, o2}
    Names = {f, r, l}
    LongNames = {l}
    ReadOnly = {r}
    Garbage = garbage
    Handles = {5, 6}
    PathCells = 2
    DataCells = 2
    Rooms = {1, 5}
    Absent = absent
    Old = old
    Junk = junk
    NoObj = noobj
    Sizes = {1, 3}
    Seeks = {1}
    FrameCells = {1, 3}
    MaxOps = 3
    MaxFaults = 1
    MaxFrames = 1
SYMMETRY Symmetry
CHECK_DEADLOCK FALSE
INVARIANTS TransferIsExact HandlesExact OpenTellsTruth
