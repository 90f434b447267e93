SPECIFICATION FairSpec
CONSTANTS
    Clients = {c1, c2}
    MaxVersion = 3
    MaxPolls = 1
PROPERTIES
    EveryPollAnswered
    UpdateReachesCache
    LostLeadsToQuery
