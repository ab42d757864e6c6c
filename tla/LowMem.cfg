SPECIFICATION Spec
CONSTANTS
    BounceSeg = 4
    PktSeg = 5
    I21Seg = 6
    StackSeg = 7
    MemTop = 10
    Bases = {0, 3, 9}
    Maps = {0, 1}
    Frees = {127, 128, 129, 134, 166, 400}
    MaxClobbers = 1
    RxBuf = 12
    RealLimit = 8
    MaxFrame = 2
    Lens = {1, 2, 3}
    MaxFrames = 3
CHECK_DEADLOCK FALSE
INVARIANTS DispatchIsSafe DosReadsTheName SlotExact
