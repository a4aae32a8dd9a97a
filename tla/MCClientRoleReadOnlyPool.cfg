\* Two concurrent requests on a read-only client over a pool of two
\* connections: does every statement run on a read-only session?
CONSTANTS
    Requests = {r1, r2}
    Conns = {c1, c2}
    LoginRole = LoginRole
    NoConn = NoConn
    NoRun = NoRun
    ValidRoles <- MCValidRoles
    Headers <- MCHeadersNone
    Queries <- MCQueries
    Kinds <- MCKindsSelect
    ReadOnlyModes <- MCReadOnlyOn
SPECIFICATION Spec
INVARIANT ReadOnlyStatementsRunReadOnly
CHECK_DEADLOCK FALSE
