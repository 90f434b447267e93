CONSTANTS
    Settings = {"listen", "port", "loglevel"}
    Values = {"default", "one", "two"}
    Default = "default"
    LogLevels = {"default", "one"}
    Entries <- MCEntries
    MaxRoutes = 2
    MaxText = 5
    Unset = Unset
SPECIFICATION Spec
INVARIANTS  ReportShowsError
