SPECIFICATION Spec
CONSTANTS
    Clients = {c1, c2}
    MaxVersion = 3
    MaxPolls = 2
SYMMETRY ClientSymmetry
INVARIANT QuietCacheIsCurrent
