SPECIFICATION Spec
CONSTANTS
    Object <- MCObject
    BufSize = 2
INVARIANT NewBufferEmpty
