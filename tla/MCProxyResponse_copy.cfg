SPECIFICATION FairSpec
CONSTANTS
    MinSize = 2
    MaxBody = 4
    Codes <- MCCodes
INVARIANTS
    TypeOK
    WriterUsedByOne
    BytesConserved
    EndsWhole
    PlainClientUnmodified
    FlushLeavesOnlyBuffer
PROPERTIES
    CopyEnds
