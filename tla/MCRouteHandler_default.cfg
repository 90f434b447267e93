SPECIFICATION Spec
CONSTANTS
    NoCib = NoCib
    Clients = {c1}
    MaxRequests = 1
    Configs <- DefaultConfigs
    Requests <- MCRequests
    Cibs <- MCCibs
    AlnumIds <- MCAlnumIds
    Begins <- MCBegins
    Json <- MCJson
    Sessions <- MCSessions
    Passwords <- MCPasswords
    BadTargets = {"unparsable"}
PROPERTY
    ApiFindsAsked
