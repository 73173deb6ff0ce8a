SPECIFICATION Spec
CONSTANTS
    Calls <- MCCalls
    Attempts = 3
    Parts = 3
    MinRcvbuf = 4
    MaxRcvbuf = 16
    SeqModulus = 32
    NoDump = NoDump
INVARIANTS
    RepliesMatchSeq
