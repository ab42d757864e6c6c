SPECIFICATION EthSpec
CONSTANTS
    ResetSpin = 2
    Word = 4
    ForceCrynwr = FALSE
    HasNe2k = {TRUE, FALSE}
    RstPolls = {0, 1}
    Vectors = {0, 96, 97}
    Prealloc = {TRUE, FALSE}
    MaxCalls = 2
    HasSim = {TRUE, FALSE}
    MaxPumped = 2
INVARIANTS ActiveIffSucceeded InterfaceSound
CHECK_DEADLOCK FALSE
