SPECIFICATION FairSpec
CONSTANTS
    Calls <- MCCalls
    Attempts = 3
    Parts = 3
    MinRcvbuf = 4
    MaxRcvbuf = 16
    SeqModulus = 32
    NoDump = NoDump
INVARIANTS
    TypeOK
    CleanDumpComplete
    NoInterruptedFrame
    RecvAnswered
    RcvbufBounded
PROPERTIES
    Terminates
