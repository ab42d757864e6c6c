SPECIFICATION TxSpec
CONSTANTS
    j1 = j1
    j2 = j2
    j3 = j3
    j4 = j4
    NoJob = NoJob
    Jobs = {j1, j2, j3, j4}
    TooLong = {j4}
    MaxSpin = 2
    MaxAir = 5
INVARIANT SendsExact
PROPERTY PageStable
