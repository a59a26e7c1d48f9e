SPECIFICATION FairSpec
CONSTANTS
    Object <- MCObject
    BufSize = 3
    MinSizes <- AnySize
INVARIANTS TypeOK OneOwner BlockedIsExpected NoLostEvent
PROPERTIES HeldIsStable InOrder ReadReturns ObjectTaken
