------------------------------ MODULE ClientRole ------------------------------
(***************************************************************************)
(* Concurrent HTTP requests that share one pgweb Client (part_001) and go   *)
(* through roleInjectionMiddleware (part_002) before calling Client.Query.  *)
(*                                                                         *)
(* Shared state: the Client's defaultRole and History, and the sessions of *)
(* the connections of the database/sql pool behind client.db: the role a  *)
(* SET ROLE left on a session and whether default_transaction_read_only    *)
(* is on.  Every database call (ExecContext, Get, QueryxContext) takes a   *)
(* connection from the pool (Acquire) and gives it back when it returns    *)
(* (the call's own action).  A free connection is reused when there is one *)
(* and a new one is opened otherwise; which free one is handed out is left *)
(* open, since that is database/sql's choice.  Gin serves each request on *)
(* its own goroutine, and nothing in Client is locked, so the steps of     *)
(* different requests interleave arbitrarily.                              *)
(*                                                                         *)
(* Data is abstract: a header is a member of Headers, a query text one of  *)
(* Queries, a database answer a nondeterministic success or error.         *)
(***************************************************************************)
EXTENDS Naturals, Sequences

CONSTANTS
    Requests,     \* the concurrent HTTP requests
    Conns,        \* the connections the pool may open (bound of the model)
    ValidRoles,   \* header values that match ^[a-zA-Z][a-zA-Z0-9_]*$, <= 64 chars
    Headers,      \* the X-Database-Role values requests may carry ("" = none)
    Queries,      \* the query texts requests may send
    Kinds,        \* the statements' leading keyword: "select" or "update"
    ReadOnlyModes,\* Opts.ReadOnly || client.readonly, as the client was set up
    LoginRole,    \* the role of a session on which no SET ROLE ran yet
    NoConn,       \* a request holding no connection
    NoRun         \* a request whose statement has not run

ASSUME ClientRoleAssumption ==
    /\ "" \notin ValidRoles
    /\ Kinds \subseteq {"select", "update"}
    /\ ReadOnlyModes \subseteq BOOLEAN

VARIABLES
    header,      \* header[r]: the X-Database-Role header of request r
    query,       \* query[r]: the query text request r sends
    kind,        \* kind[r]: whether r's statement goes the exec path
    readOnly,    \* command.Opts.ReadOnly || client.readonly
    defaultRole, \* client.defaultRole
    history,     \* client.History, as the sequence of the queries recorded
    opened,      \* the connections the pool has opened
    connRole,    \* connRole[c]: the role of the session of connection c
    connRO,      \* connRO[c]: default_transaction_read_only of c's session
    pc,          \* pc[r]: where request r is
    conn,        \* conn[r]: the connection r's current database call holds
    arg,         \* arg[r]: the role formatted into r's SET ROLE statement
    snap,        \* snap[r]: the History slice r's append read
    ran          \* ran[r]: role and read-only mode r's statement ran with

vars == <<header, query, kind, readOnly, defaultRole, history, opened, connRole,
          connRO, pc, conn, arg, snap, ran>>

Finished == {"done", "failed"}

\* isValidRoleName (the regular expression and the length limit).
isValidRoleName(role) == role \in ValidRoles

Busy == {conn[r] : r \in Requests} \ {NoConn}

Init ==
    /\ header \in [Requests -> Headers]
    /\ query \in [Requests -> Queries]
    /\ kind \in [Requests -> Kinds]
    /\ readOnly \in ReadOnlyModes
    /\ defaultRole = ""
    /\ history = <<>>
    /\ opened = {}
    /\ connRole = [c \in Conns |-> LoginRole]
    /\ connRO = [c \in Conns |-> FALSE]
    /\ pc = [r \in Requests |-> "mw"]
    /\ conn = [r \in Requests |-> NoConn]
    /\ arg = [r \in Requests |-> ""]
    /\ snap = [r \in Requests |-> <<>>]
    /\ ran = [r \in Requests |-> NoRun]

-----------------------------------------------------------------------------
\* SetRole without the isValidRoleName check.
SetRoleUnchecked(r) ==
    /\ pc[r] = "mw"
    /\ defaultRole' = IF header[r] # "" THEN header[r] ELSE defaultRole
    /\ pc' = [pc EXCEPT ![r] = "query"]
    /\ UNCHANGED <<header, query, kind, readOnly, history, opened, connRole, connRO,
                   conn, arg, snap, ran>>

(* roleInjectionMiddleware with SetRole: a non-empty header that passes     *)
(* isValidRoleName becomes the Client's defaultRole; nothing else does.     *)
SetRole(r) ==
    /\ pc[r] = "mw"
    /\ defaultRole' = IF header[r] # "" /\ isValidRoleName(header[r])
                      THEN header[r] ELSE defaultRole
    /\ pc' = [pc EXCEPT ![r] = "query"]
    /\ UNCHANGED <<header, query, kind, readOnly, history, opened, connRole, connRO,
                   conn, arg, snap, ran>>

\* Where query goes once the role is set: SetReadOnlyMode, or the statement.
AfterRole(r) == IF readOnly THEN "show" ELSE "dispatch"

(* Client.query reads defaultRole and, when it is set, formats SET ROLE.   *)
Query(r) ==
    /\ pc[r] = "query"
    /\ IF defaultRole # ""
       THEN /\ arg' = [arg EXCEPT ![r] = defaultRole]
            /\ pc' = [pc EXCEPT ![r] = "setRole"]
       ELSE /\ pc' = [pc EXCEPT ![r] = AfterRole(r)]
            /\ UNCHANGED arg
    /\ UNCHANGED <<header, query, kind, readOnly, defaultRole, history, opened,
                   connRole, connRO, conn, snap, ran>>

\* The pc values at which a request makes a database call.
DbCalls == {"setRole", "show", "setRO", "execSetRole", "stmt"}

(* database/sql hands a call a free connection, or opens a new one when   *)
(* none is free.                                                           *)
Acquire(r) ==
    /\ pc[r] \in DbCalls
    /\ conn[r] = NoConn
    /\ \/ \E c \in opened \ Busy :
             /\ conn' = [conn EXCEPT ![r] = c]
             /\ UNCHANGED opened
       \/ /\ opened \ Busy = {}
          /\ \E c \in Conns \ opened :
                /\ conn' = [conn EXCEPT ![r] = c]
                /\ opened' = opened \cup {c}
    /\ UNCHANGED <<header, query, kind, readOnly, defaultRole, history, connRole,
                   connRO, pc, arg, snap, ran>>

\* The call returns its connection to the pool.
Release(r) == conn' = [conn EXCEPT ![r] = NoConn]

(* SET ROLE on the held connection (query and exec): the session takes the *)
(* role, or the server refuses it and the request fails.                   *)
SetRoleExec(r) ==
    /\ pc[r] \in {"setRole", "execSetRole"}
    /\ conn[r] # NoConn
    /\ Release(r)
    /\ \/ /\ connRole' = [connRole EXCEPT ![conn[r]] = arg[r]]
          /\ pc' = [pc EXCEPT ![r] = IF pc[r] = "setRole" THEN AfterRole(r) ELSE "stmt"]
       \/ /\ pc' = [pc EXCEPT ![r] = "failed"]
          /\ UNCHANGED connRole
    /\ UNCHANGED <<header, query, kind, readOnly, defaultRole, history, opened, connRO,
                   arg, snap, ran>>

(* SetReadOnlyMode, first call: SHOW default_transaction_read_only.  On   *)
(* "off" it issues the SET, otherwise it is done.                          *)
ReadOnlyShow(r) ==
    /\ pc[r] = "show"
    /\ conn[r] # NoConn
    /\ Release(r)
    /\ \/ pc' = [pc EXCEPT ![r] = IF connRO[conn[r]] THEN "keywords" ELSE "setRO"]
       \/ pc' = [pc EXCEPT ![r] = "failed"]
    /\ UNCHANGED <<header, query, kind, readOnly, defaultRole, history, opened,
                   connRole, connRO, arg, snap, ran>>

(* SetReadOnlyMode, second call: SET default_transaction_read_only=on.     *)
ReadOnlySet(r) ==
    /\ pc[r] = "setRO"
    /\ conn[r] # NoConn
    /\ Release(r)
    /\ \/ /\ connRO' = [connRO EXCEPT ![conn[r]] = TRUE]
          /\ pc' = [pc EXCEPT ![r] = "keywords"]
       \/ /\ pc' = [pc EXCEPT ![r] = "failed"]
          /\ UNCHANGED connRO
    /\ UNCHANGED <<header, query, kind, readOnly, defaultRole, history, opened,
                   connRole, arg, snap, ran>>

(* After SetReadOnlyMode, containsRestrictedKeywords refuses the statement *)
(* or lets it through (its word list is not part of the model).            *)
Keywords(r) ==
    /\ pc[r] = "keywords"
    /\ \/ pc' = [pc EXCEPT ![r] = "dispatch"]
       \/ pc' = [pc EXCEPT ![r] = "failed"]
    /\ UNCHANGED <<header, query, kind, readOnly, defaultRole, history, opened,
                   connRole, connRO, conn, arg, snap, ran>>

(* query picks QueryxContext, or exec for an update or delete without     *)
(* RETURNING; exec reads defaultRole again for its own SET ROLE.           *)
Dispatch(r) ==
    /\ pc[r] = "dispatch"
    /\ IF kind[r] = "update" /\ defaultRole # ""
       THEN /\ arg' = [arg EXCEPT ![r] = defaultRole]
            /\ pc' = [pc EXCEPT ![r] = "execSetRole"]
       ELSE /\ pc' = [pc EXCEPT ![r] = "stmt"]
            /\ UNCHANGED arg
    /\ UNCHANGED <<header, query, kind, readOnly, defaultRole, history, opened,
                   connRole, connRO, conn, snap, ran>>

\* The statement without rows.Close: its connection never goes back.
StatementKeepsConn(r) ==
    /\ pc[r] = "stmt"
    /\ conn[r] # NoConn
    /\ UNCHANGED conn
    /\ ran' = [ran EXCEPT ![r] = [role |-> connRole[conn[r]], ro |-> connRO[conn[r]]]]
    /\ \/ pc' = [pc EXCEPT ![r] = "history"]
       \/ pc' = [pc EXCEPT ![r] = "failed"]
    /\ UNCHANGED <<header, query, kind, readOnly, defaultRole, history, opened,
                   connRole, connRO, arg, snap>>

(* The statement itself (QueryxContext or ExecContext) runs with the role *)
(* and read-only mode of the session it was handed; it succeeds, and      *)
(* Query goes on to History, or returns an error.                          *)
Statement(r) ==
    /\ pc[r] = "stmt"
    /\ conn[r] # NoConn
    /\ Release(r)
    /\ ran' = [ran EXCEPT ![r] = [role |-> connRole[conn[r]], ro |-> connRO[conn[r]]]]
    /\ \/ pc' = [pc EXCEPT ![r] = "history"]
       \/ pc' = [pc EXCEPT ![r] = "failed"]
    /\ UNCHANGED <<header, query, kind, readOnly, defaultRole, history, opened,
                   connRole, connRO, arg, snap>>

(* Query, after success: hasHistoryRecord scans History for the query.     *)
HistoryCheck(r) ==
    /\ pc[r] = "history"
    /\ pc' = [pc EXCEPT ![r] = IF \E i \in 1..Len(history) : history[i] = query[r]
                               THEN "done" ELSE "append"]
    /\ UNCHANGED <<header, query, kind, readOnly, defaultRole, history, opened,
                   connRole, connRO, conn, arg, snap, ran>>

(* client.History = append(client.History, ...): the read of the slice ... *)
AppendRead(r) ==
    /\ pc[r] = "append"
    /\ snap' = [snap EXCEPT ![r] = history]
    /\ pc' = [pc EXCEPT ![r] = "write"]
    /\ UNCHANGED <<header, query, kind, readOnly, defaultRole, history, opened,
                   connRole, connRO, conn, arg, ran>>

(* ... and the write of the extended slice, unsynchronised with the other *)
(* requests.                                                               *)
AppendWrite(r) ==
    /\ pc[r] = "write"
    /\ history' = Append(snap[r], query[r])
    /\ pc' = [pc EXCEPT ![r] = "done"]
    /\ UNCHANGED <<header, query, kind, readOnly, defaultRole, opened, connRole,
                   connRO, conn, arg, snap, ran>>

Step(r) ==
    \/ SetRole(r)
    \/ Query(r)
    \/ Acquire(r)
    \/ SetRoleExec(r)
    \/ ReadOnlyShow(r)
    \/ ReadOnlySet(r)
    \/ Keywords(r)
    \/ Dispatch(r)
    \/ Statement(r)
    \/ HistoryCheck(r)
    \/ AppendRead(r)
    \/ AppendWrite(r)

\* Once every request has been answered the server idles: no step is enabled.
Next == \E r \in Requests : Step(r)

(* Each request's goroutine keeps being scheduled, and the database        *)
(* answers every call.                                                     *)
Spec == Init /\ [][Next]_vars /\ \A r \in Requests : WF_vars(Step(r))

-----------------------------------------------------------------------------
(* The role a request asks for: its header when that is a valid role name, *)
(* otherwise the login role (it asked for none).                           *)
ExpectedRole(r) ==
    IF header[r] \in ValidRoles THEN header[r] ELSE LoginRole

(* Every statement a request runs, runs under the role that request asked  *)
(* for (roleInjectionMiddleware: "Set the role on the client for this      *)
(* request"; query: SET ROLE before the statement).                        *)
StatementRunsAsRequestRole ==
    \A r \in Requests : ran[r] # NoRun => ran[r].role = ExpectedRole(r)

(* In read-only mode every statement runs on a session whose               *)
(* default_transaction_read_only is on (query: "force-set transaction mode *)
(* on every query").                                                       *)
ReadOnlyStatementsRunReadOnly ==
    readOnly => \A r \in Requests : ran[r] # NoRun => ran[r].ro

(* Every query that Query ran successfully is in the Client's History.     *)
HistoryRecordsSuccessfulQueries ==
    \A r \in Requests : pc[r] = "done" => \E i \in 1..Len(history) : history[i] = query[r]

\* The role names some request sent in a header that passed isValidRoleName.
SentRoles == {header[q] : q \in Requests} \cap ValidRoles

(* Every pool session carries the login role or a role that some request  *)
(* sent and that passed isValidRoleName: SET ROLE "%s" only ever quotes a  *)
(* checked name taken from a header, never one that was rejected or made   *)
(* up, however SetRole, query and exec interleave.                         *)
RoleInjectionSafe ==
    \A c \in opened : connRole[c] \in SentRoles \cup {LoginRole}

\* The pool's sessions as ClientSessions sees them.
Sessions == INSTANCE ClientSessions
              WITH sessions <- opened, role <- connRole, ro <- connRO,
                   granted <- SentRoles

(* The client keeps the session contract of ClientSessions: sessions are  *)
(* only opened, every SET ROLE that lands on a session gives it a role     *)
(* some request sent and isValidRoleName accepted, and the SET of          *)
(* SetReadOnlyMode only ever turns read-only mode on, however the         *)
(* requests' pool calls interleave.                                       *)
ImplementsSessions == Sessions!Spec

(* Every request is eventually answered: no request waits forever for a   *)
(* pool connection or loops between the Client's steps.                    *)
AllRequestsAnswered ==
    <>(\A r \in Requests : pc[r] \in Finished)

=============================================================================
