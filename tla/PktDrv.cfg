SPECIFICATION FairSpec
CONSTANTS
    f0 = f0
    f1 = f1
    f2 = f2
    f3 = f3
    t1 = t1
    t2 = t2
    Blank = Blank
    MaxFrame = 2
    BounceCells = 3
    TxLen <- MCTxLen
    Frames = {f0, f1, f2, f3}
    FrameLen <- MCFrameLen
    TxFrames = {t1, t2}
    MaxLen = 2
    NicIrq = 9
    InitialMask = {12}
INVARIANTS TypeOK NoIrqDuringSend MaskRestored CleanDrainIsExact CleanSendIsExact AtMostOnce
PROPERTY PendingDrained
