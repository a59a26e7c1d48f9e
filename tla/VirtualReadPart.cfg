SPECIFICATION Spec
CONSTANTS
    Object <- MCObject
    BufSize = 3
    MinSizes <- AnySize
INVARIANT BlocksOnlyForData
