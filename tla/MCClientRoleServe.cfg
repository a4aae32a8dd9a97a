\* Two requests with any header, statement kind and read-only mode over a pool
\* bounded to one connection, so that each request's database calls wait for
\* the other's: roles never come from an invalid header, and every request is
\* answered.
CONSTANTS
    Requests = {r1, r2}
    Conns = {c1}
    LoginRole = LoginRole
    NoConn = NoConn
    NoRun = NoRun
    ValidRoles <- MCValidRoles
    Headers <- MCHeadersAll
    Queries <- MCQueries
    Kinds <- MCKindsAll
    ReadOnlyModes <- MCReadOnlyBoth
SPECIFICATION Spec
INVARIANT RoleInjectionSafe
 
PROPERTY AllRequestsAnswered
\* Once every request is answered the server idles waiting for new ones; that
\* final state has no step and is not an error.
CHECK_DEADLOCK FALSE
