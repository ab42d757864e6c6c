CONSTANTS
    Sock = Sock
    Session = Session
    NoObj = NoObj
    Nul = Nul
    a = a
    b = b
    s1 = s1
    h1 = h1
    Sftps <- MCSftps
    Handles <- MCHandles
    Cells <- MCCells
    Output <- MCOutput
    RemoteFile <- MCRemoteFile
    Payloads <- MCPayloads
    Limits <- MCLimits
    ExecBuf = 2
    SftpBuf = 1
    MaxWritten = 2
SPECIFICATION FairSpec
INVARIANTS
    LifetimesSafe
    ChannelsFreed
    TransfersExact
 
\* A script may end, and a call may wait for a server that says no more.
CHECK_DEADLOCK FALSE
