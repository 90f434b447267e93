SPECIFICATION Spec
CONSTANTS
    MinSize = 2
    MaxBody = 3
    Codes <- MCCodes
INVARIANT StatusKept
