SPECIFICATION Spec
CONSTANTS
    NoCib = NoCib
    Clients = {c1, c2}
    MaxRequests = 2
    Configs <- MCConfigs
    Requests <- MCRequests
    Cibs <- MCCibs
    AlnumIds <- MCAlnumIds
    Begins <- MCBegins
    Json <- MCJson
    Sessions <- MCSessions
    Passwords <- MCPasswords
    BadTargets = {"unparsable"}
SYMMETRY ClientSymmetry
INVARIANTS
    TypeOK
    UnauthorizedStopsAtApi
    RightProxy
    AnsweredOnceUnlessMissing
PROPERTY
    ApiAnswersAsked
