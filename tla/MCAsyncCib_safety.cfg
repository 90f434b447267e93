SPECIFICATION Spec
CONSTANTS
    Clients = {c1, c2}
    MaxVersion = 3
    MaxPolls = 2
SYMMETRY ClientSymmetry
INVARIANTS
    TypeOK
    NotifyExclusion
    FetchedCoversAnswer
    TakenIsServed
PROPERTIES
    CacheNeverGoesBack
    RegisterSafety
