SPECIFICATION FairSpec
CONSTANTS
    f1 = f1
    f2 = f2
    f3 = f3
    f4 = f4
    f5 = f5
    Frames = {f1, f2, f3, f4, f5}
    Bad = {f5}
    Pages <- MCPages
    Room = 3
    Start = 2
    Stop = 7
INVARIANT TypeOK
PROPERTIES ImplementsQueue StoredIsDelivered
