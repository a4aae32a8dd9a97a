\* Two concurrent requests, each sending no X-Database-Role header or one of
\* two roles, over one connection: does each statement run under the role its
\* own request asked for?
CONSTANTS
    Requests = {r1, r2}
    Conns = {c1}
    LoginRole = LoginRole
    NoConn = NoConn
    NoRun = NoRun
    ValidRoles <- MCValidRoles
    Headers <- MCHeadersTwoRoles
    Queries <- MCQueries
    Kinds <- MCKindsSelect
    ReadOnlyModes <- MCReadOnlyOff
SPECIFICATION Spec
INVARIANT StatementRunsAsRequestRole
CHECK_DEADLOCK FALSE
