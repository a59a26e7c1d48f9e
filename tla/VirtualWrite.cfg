SPECIFICATION FairSpec
CONSTANTS
    Object <- MCObject
    BufSize = 2
INVARIANTS TypeOK BufferReturned
PROPERTIES TransferStable InOrder SendReturns
