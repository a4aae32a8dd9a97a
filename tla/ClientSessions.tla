---------------------------- MODULE ClientSessions ----------------------------
(***************************************************************************)
(* What the database client promises about the sessions of its connection *)
(* pool, whatever its requests do: sessions are only ever opened, a       *)
(* session starts under the login role and read-write, its role changes   *)
(* only to a role that was granted (a role name some request sent and     *)
(* roleInjectionMiddleware accepted), and once read-only it stays         *)
(* read-only.  ClientRole.tla is shown to implement this module           *)
(* (ClientRole!Sessions).                                                  *)
(***************************************************************************)
CONSTANTS
    Conns,       \* the connections the pool may open
    ValidRoles,  \* the role names isValidRoleName accepts
    LoginRole    \* the role of a fresh session

VARIABLES
    sessions,  \* the sessions opened
    role,      \* role[c]: the role session c runs under
    ro,        \* ro[c]: whether session c is read-only
    granted    \* the roles sessions may be given; fixed for a run

sessVars == <<sessions, role, ro, granted>>

Init ==
    /\ sessions = {}
    /\ role = [c \in Conns |-> LoginRole]
    /\ ro = [c \in Conns |-> FALSE]
    /\ granted \in SUBSET ValidRoles

Open(c) ==
    /\ c \notin sessions
    /\ sessions' = sessions \cup {c}
    /\ UNCHANGED <<role, ro, granted>>

SetRole(c, x) ==
    /\ c \in sessions
    /\ x \in granted
    /\ role' = [role EXCEPT ![c] = x]
    /\ UNCHANGED <<sessions, ro, granted>>

SetReadOnly(c) ==
    /\ c \in sessions
    /\ ro' = [ro EXCEPT ![c] = TRUE]
    /\ UNCHANGED <<sessions, role, granted>>

Next ==
    \/ \E c \in Conns : Open(c)
    \/ \E c \in Conns, x \in ValidRoles : SetRole(c, x)
    \/ \E c \in Conns : SetReadOnly(c)

Spec == Init /\ [][Next]_sessVars

=============================================================================
