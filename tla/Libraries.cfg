SPECIFICATION LSpec
CONSTANTS
    FirstYear = 1980
    LastYear = 2099
    Chars <- MCChars
    MaxLen <- MCMaxLen
    Cwd <- MCCwd
    Files = {f1, f2, f3}
    Source <- MCSource
    CopyBuf = 2
    MaxHandles = 4
    TempNames = 5
    Attempts = 3
    MaxCounter = 8
    NumberBytes = {0, 1, 127, 128, 255}
    NumberLen = 3
    BlockLen = 2
    CounterLen = 3
    CounterBase = 2
    StreamLen = 10
    Keys = 2
INVARIANTS
    DaysExact
    PathsConsistent
    UrlsRoundTrip
    EncodingRoundTrip
    CopyKeepsData
    SecretExact
    NothingLeaks
    CipherStreamExact
PROPERTIES
    EpochOrdered
    TempNamesFresh
\* The date stops at the last year, a word at its greatest length,
\* a stream at its bound.
CHECK_DEADLOCK FALSE
