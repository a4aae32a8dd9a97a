\* Two concurrent requests both asking for "alice", over a pool of two
\* connections: does the statement run on a session that SET ROLE reached?
CONSTANTS
    Requests = {r1, r2}
    Conns = {c1, c2}
    LoginRole = LoginRole
    NoConn = NoConn
    NoRun = NoRun
    ValidRoles <- MCValidRoles
    Headers <- MCHeadersAlice
    Queries <- MCQueries
    Kinds <- MCKindsSelect
    ReadOnlyModes <- MCReadOnlyOff
SPECIFICATION Spec
INVARIANT StatementRunsAsRequestRole
CHECK_DEADLOCK FALSE
