SPECIFICATION Spec
CONSTANTS
    BlockSize = 64
    LengthField = 8
    StoredLength = 4
    LengthLimit = 1040
    MaxLength = 130
    MaxUpdates = 2
    MaxMessages = 2
INVARIANT TypeOK
PROPERTY ImplementsDigest
CHECK_DEADLOCK FALSE
