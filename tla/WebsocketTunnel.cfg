CONSTANTS
    HeadSize = 2
    MaxBackend = 4
    MaxClient = 2
SPECIFICATION Spec
INVARIANTS TypeOK DialVerdict ClientStream BackendStream
PROPERTIES DialEnds ReportersEnd TunnelCloses
