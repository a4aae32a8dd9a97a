\* Two concurrent successful queries: are both recorded in History?
CONSTANTS
    Requests = {r1, r2}
    Conns = {c1}
    LoginRole = LoginRole
    NoConn = NoConn
    NoRun = NoRun
    ValidRoles <- MCValidRoles
    Headers <- MCHeadersNone
    Queries <- MCQueries
    Kinds <- MCKindsSelect
    ReadOnlyModes <- MCReadOnlyOff
SPECIFICATION Spec
INVARIANT HistoryRecordsSuccessfulQueries
CHECK_DEADLOCK FALSE
