SPECIFICATION Spec
CONSTANTS
    MaxRows = 2
    BlockSize = 2
    MaxSequence = 6
    MaxClaims = 2
    MaxCallers = 2
INVARIANTS
    TypeOK
    NeverRepeat
    OpenNeverRefuses
    TokensNameClaims
PROPERTY
    RowsCommitInOrder
