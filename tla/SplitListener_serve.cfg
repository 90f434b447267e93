SPECIFICATION FairSpec
CONSTANT Clients = {c1, c2, c3}
INVARIANTS
    TypeOK
    SplitRight
PROPERTY
    TalkersServed
