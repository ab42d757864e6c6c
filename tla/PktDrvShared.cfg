SPECIFICATION Spec
CONSTANTS
    f0 = f0
    f1 = f1
    f2 = f2
    f3 = f3
    t1 = t1
    t2 = t2
    Blank = Blank
    MaxFrame = 2
    BounceCells = 3
    TxLen <- MCTxLen
    Frames = {f1, f2}
    FrameLen <- MCSameLen
    TxFrames = {t1}
    MaxLen = 2
    NicIrq = 9
    InitialMask = {}
INVARIANT SharedBufferIsFine
