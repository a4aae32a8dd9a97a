--------------------------- MODULE ClientRoleProofs ---------------------------
(***************************************************************************)
(* Proof that no pool session ever takes a role that did not come, checked *)
(* by isValidRoleName, from some request's X-Database-Role header, for any *)
(* number of requests and connections and any set of headers.              *)
(*                                                                         *)
(* RoleInjectionSafe alone is not inductive: it speaks of the sessions     *)
(* only, while the role a SET ROLE writes comes from defaultRole through   *)
(* the request's formatted statement (arg).  RoleInv follows the role      *)
(* along that path: SetRole -> defaultRole -> query/exec -> arg -> session. *)
(***************************************************************************)
EXTENDS ClientRole, TLAPS

\* The roles a session may carry: the login role or a checked header.
SessionRoles == SentRoles \cup {LoginRole}

\* The places a request can be at.
PCs == {"mw", "query", "setRole", "show", "setRO", "keywords", "dispatch",
        "execSetRole", "stmt", "history", "append", "write", "done", "failed"}

RoleInv ==
    /\ pc \in [Requests -> PCs]
    /\ arg \in [Requests -> SentRoles \cup {""}]
    /\ defaultRole \in SentRoles \cup {""}
    /\ \A r \in Requests : pc[r] \in {"setRole", "execSetRole"} => arg[r] \in SentRoles
    /\ connRole \in [Conns -> SessionRoles]
    /\ opened \subseteq Conns

\* Every action of one request keeps the headers.
LEMMA StepKeepsHeaders ==
    ASSUME NEW r \in Requests, Step(r)
    PROVE  header' = header
BY DEF Step, SetRole, Query, Acquire, SetRoleExec, ReadOnlyShow, ReadOnlySet,
       Keywords, Dispatch, Statement, HistoryCheck, AppendRead, AppendWrite

LEMMA InitRoleInv == Init => RoleInv
<1> SUFFICES ASSUME Init PROVE RoleInv
  OBVIOUS
<1>1. defaultRole \in SentRoles \cup {""}
  BY DEF Init
<1>2. \A r \in Requests : pc[r] \in {"setRole", "execSetRole"} => arg[r] \in SentRoles
  BY DEF Init
<1>3. connRole \in [Conns -> SessionRoles]
  BY DEF Init, SessionRoles
<1>4. opened \subseteq Conns
  BY DEF Init
<1>5. pc \in [Requests -> PCs] /\ arg \in [Requests -> SentRoles \cup {""}]
  BY DEF Init, PCs
<1>6. QED
  BY <1>1, <1>2, <1>3, <1>4, <1>5 DEF RoleInv

(* A step of request r keeps RoleInv: one step per action that writes a   *)
(* role (SetRole, Query, Dispatch, SetRoleExec) or opens a connection     *)
(* (Acquire); the others change no conjunct's variables but pc, and move  *)
(* r out of the SET ROLE states.                                          *)
LEMMA StepRoleInv ==
    ASSUME RoleInv, NEW r \in Requests, Step(r)
    PROVE  RoleInv'
<1>0. header' = header /\ SentRoles' = SentRoles
  BY StepKeepsHeaders DEF SentRoles
<1>1. CASE SetRole(r)
  <2>1. defaultRole' \in SentRoles \cup {""}
    BY <1>1, <1>0 DEF SetRole, isValidRoleName, RoleInv, SentRoles
  <2>2. \A q \in Requests : pc'[q] \in {"setRole", "execSetRole"} => arg'[q] \in SentRoles
    BY <1>1 DEF SetRole, RoleInv, PCs
  <2>3. QED
    BY <1>1, <1>0, <2>1, <2>2 DEF SetRole, RoleInv, PCs, SessionRoles
<1>2. CASE Query(r)
  <2>1. \A q \in Requests : pc'[q] \in {"setRole", "execSetRole"} => arg'[q] \in SentRoles
    BY <1>2 DEF Query, RoleInv, PCs, AfterRole
  <2>2. arg' \in [Requests -> SentRoles \cup {""}] /\ pc' \in [Requests -> PCs]
    BY <1>2 DEF Query, RoleInv, PCs, AfterRole
  <2>3. QED
    BY <1>2, <1>0, <2>1, <2>2 DEF Query, RoleInv, SessionRoles
<1>3. CASE Acquire(r)
  BY <1>3, <1>0 DEF Acquire, RoleInv, PCs, SessionRoles
<1>4. CASE SetRoleExec(r)
  <2>1. connRole' \in [Conns -> SessionRoles]
    BY <1>4 DEF SetRoleExec, RoleInv, PCs, SessionRoles
  <2>2. \A q \in Requests : pc'[q] \in {"setRole", "execSetRole"} => arg'[q] \in SentRoles
    BY <1>4 DEF SetRoleExec, RoleInv, PCs, AfterRole
  <2>3. QED
    BY <1>4, <1>0, <2>1, <2>2 DEF SetRoleExec, RoleInv, PCs, SessionRoles, AfterRole
<1>5. CASE ReadOnlyShow(r)
  BY <1>5, <1>0 DEF ReadOnlyShow, RoleInv, PCs, SessionRoles
<1>6. CASE ReadOnlySet(r)
  BY <1>6, <1>0 DEF ReadOnlySet, RoleInv, PCs, SessionRoles
<1>7. CASE Keywords(r)
  BY <1>7, <1>0 DEF Keywords, RoleInv, PCs, SessionRoles
<1>8. CASE Dispatch(r)
  <2>1. \A q \in Requests : pc'[q] \in {"setRole", "execSetRole"} => arg'[q] \in SentRoles
    BY <1>8 DEF Dispatch, RoleInv, PCs
  <2>2. QED
    BY <1>8, <1>0, <2>1 DEF Dispatch, RoleInv, PCs, SessionRoles
<1>9. CASE Statement(r)
  BY <1>9, <1>0 DEF Statement, RoleInv, PCs, SessionRoles
<1>10. CASE HistoryCheck(r)
  BY <1>10, <1>0 DEF HistoryCheck, RoleInv, PCs, SessionRoles
<1>11. CASE AppendRead(r)
  BY <1>11, <1>0 DEF AppendRead, RoleInv, PCs, SessionRoles
<1>12. CASE AppendWrite(r)
  BY <1>12, <1>0 DEF AppendWrite, RoleInv, PCs, SessionRoles
<1>13. QED
  BY <1>1, <1>2, <1>3, <1>4, <1>5, <1>6, <1>7, <1>8, <1>9, <1>10, <1>11, <1>12
     DEF Step

LEMMA NextRoleInv == RoleInv /\ [Next]_vars => RoleInv'
<1> SUFFICES ASSUME RoleInv, [Next]_vars PROVE RoleInv'
  OBVIOUS
<1>1. CASE Next
  BY <1>1, StepRoleInv DEF Next
<1>2. CASE UNCHANGED vars
  BY <1>2 DEF vars, RoleInv, SessionRoles, SentRoles
<1>3. QED
  BY <1>1, <1>2

(* Role injection is impossible: in every reachable state every opened     *)
(* pool session carries the login role or a valid role some request sent.  *)
THEOREM RoleInjectionSafeHolds == Spec => []RoleInjectionSafe
<1>1. RoleInv => RoleInjectionSafe
  BY DEF RoleInv, RoleInjectionSafe, SessionRoles
<1>2. QED
  BY <1>1, InitRoleInv, NextRoleInv, PTL DEF Spec

-----------------------------------------------------------------------------
(***************************************************************************)
(* Refinement: ClientRole implements ClientSessions under the mapping of   *)
(* ClientRole!Sessions.  A SET ROLE or SET default_transaction_read_only   *)
(* lands on the connection its request holds, so besides RoleInv the      *)
(* argument needs that a held connection is an opened one (HoldInv).      *)
(***************************************************************************)
HoldInv ==
    /\ conn \in [Requests -> Conns \cup {NoConn}]
    /\ \A r \in Requests : conn[r] # NoConn => conn[r] \in opened

LEMMA InitHoldInv == Init => HoldInv
BY DEF Init, HoldInv

LEMMA StepHoldInv ==
    ASSUME HoldInv, RoleInv, NEW r \in Requests, Step(r)
    PROVE  HoldInv'
<1>1. CASE Acquire(r)
  <2>1. CASE \E c \in opened \ Busy : conn' = [conn EXCEPT ![r] = c] /\ UNCHANGED opened
    <3>1. PICK c \in opened : conn' = [conn EXCEPT ![r] = c] /\ opened' = opened
      BY <2>1
    <3>2. QED
      BY <3>1 DEF HoldInv, RoleInv
  <2>2. CASE \E c \in Conns \ opened : conn' = [conn EXCEPT ![r] = c] /\ opened' = opened \cup {c}
    <3>1. PICK c \in Conns : conn' = [conn EXCEPT ![r] = c] /\ opened' = opened \cup {c}
      BY <2>2
    <3>2. QED
      BY <3>1 DEF HoldInv
  <2>3. QED
    BY <1>1, <2>1, <2>2 DEF Acquire
<1>2. CASE SetRoleExec(r) \/ ReadOnlyShow(r) \/ ReadOnlySet(r) \/ Statement(r)
  BY <1>2 DEF SetRoleExec, ReadOnlyShow, ReadOnlySet, Statement, Release, HoldInv
<1>3. CASE SetRole(r) \/ Query(r) \/ Keywords(r) \/ Dispatch(r) \/ HistoryCheck(r)
           \/ AppendRead(r) \/ AppendWrite(r)
  BY <1>3 DEF SetRole, Query, Keywords, Dispatch, HistoryCheck, AppendRead,
              AppendWrite, HoldInv
<1>4. QED
  BY <1>1, <1>2, <1>3 DEF Step

LEMMA InitRefines == Init => Sessions!Init
BY DEF Init, Sessions!Init, SentRoles

(* A step of request r is a step of ClientSessions or leaves the sessions  *)
(* as they were: a fresh connection is Open, a SET ROLE that succeeds is   *)
(* SetRole with the role r formatted, a SET that succeeds is SetReadOnly.  *)
LEMMA StepRefinesSessions ==
    ASSUME RoleInv, HoldInv, NEW r \in Requests, Step(r)
    PROVE  [Sessions!Next]_Sessions!sessVars
<1>0. SentRoles' = SentRoles
  BY StepKeepsHeaders DEF SentRoles
<1>1. CASE Acquire(r)
  <2>1. CASE UNCHANGED opened
    BY <1>0, <1>1, <2>1 DEF Acquire, Sessions!sessVars
  <2>2. CASE ~UNCHANGED opened
    <3>1. PICK c \in Conns \ opened : opened' = opened \cup {c}
      BY <1>1, <2>2 DEF Acquire
    <3>2. Sessions!Open(c)
      BY <1>0, <1>1, <3>1 DEF Acquire, Sessions!Open
    <3>3. QED
      BY <3>2 DEF Sessions!Next
  <2>3. QED
    BY <2>1, <2>2
<1>2. CASE SetRoleExec(r)
  <2>1. CASE connRole' = [connRole EXCEPT ![conn[r]] = arg[r]]
    <3>1. conn[r] \in opened /\ conn[r] \in Conns /\ arg[r] \in SentRoles
      BY <1>2 DEF SetRoleExec, HoldInv, RoleInv
    <3>2. Sessions!SetRole(conn[r], arg[r])
      BY <1>0, <1>2, <2>1, <3>1 DEF SetRoleExec, Sessions!SetRole
    <3>3. arg[r] \in ValidRoles
      BY <3>1 DEF SentRoles
    <3>4. QED
      BY <3>1, <3>2, <3>3 DEF Sessions!Next
  <2>2. CASE UNCHANGED connRole
    BY <1>0, <1>2, <2>2 DEF SetRoleExec, Sessions!sessVars
  <2>3. QED
    BY <1>2, <2>1, <2>2 DEF SetRoleExec
<1>3. CASE ReadOnlySet(r)
  <2>1. CASE connRO' = [connRO EXCEPT ![conn[r]] = TRUE]
    <3>1. conn[r] \in opened /\ conn[r] \in Conns
      BY <1>3 DEF ReadOnlySet, HoldInv, RoleInv
    <3>2. Sessions!SetReadOnly(conn[r])
      BY <1>0, <1>3, <2>1, <3>1 DEF ReadOnlySet, Sessions!SetReadOnly
    <3>3. QED
      BY <3>1, <3>2 DEF Sessions!Next
  <2>2. CASE UNCHANGED connRO
    BY <1>0, <1>3, <2>2 DEF ReadOnlySet, Sessions!sessVars
  <2>3. QED
    BY <1>3, <2>1, <2>2 DEF ReadOnlySet
<1>4. CASE SetRole(r) \/ Query(r) \/ ReadOnlyShow(r) \/ Keywords(r) \/ Dispatch(r)
           \/ Statement(r) \/ HistoryCheck(r) \/ AppendRead(r) \/ AppendWrite(r)
  BY <1>0, <1>4 DEF SetRole, Query, ReadOnlyShow, Keywords, Dispatch, Statement,
                    HistoryCheck, AppendRead, AppendWrite, Sessions!sessVars
<1>5. QED
  BY <1>1, <1>2, <1>3, <1>4 DEF Step

(* The client keeps the session contract: every behaviour of ClientRole,  *)
(* seen through the sessions of its pool, is a behaviour of               *)
(* ClientSessions, for any requests, connections and headers.              *)
THEOREM SessionsRefinement == Spec => ImplementsSessions
<1> DEFINE Inv == RoleInv /\ HoldInv
<1>1. Init => Inv
  BY InitRoleInv, InitHoldInv
<1>2. Inv /\ [Next]_vars => Inv'
  <2> SUFFICES ASSUME Inv, [Next]_vars PROVE Inv'
    OBVIOUS
  <2>1. CASE Next
    BY <2>1, StepRoleInv, StepHoldInv DEF Next
  <2>2. CASE UNCHANGED vars
    BY <2>2, NextRoleInv DEF vars, HoldInv
  <2>3. QED
    BY <2>1, <2>2
<1>3. Inv /\ [Next]_vars => [Sessions!Next]_Sessions!sessVars
  <2> SUFFICES ASSUME Inv, [Next]_vars PROVE [Sessions!Next]_Sessions!sessVars
    OBVIOUS
  <2>1. CASE Next
    BY <2>1, StepRefinesSessions DEF Next
  <2>2. CASE UNCHANGED vars
    BY <2>2 DEF vars, Sessions!sessVars, SentRoles
  <2>3. QED
    BY <2>1, <2>2
<1>4. QED
  BY <1>1, <1>2, <1>3, InitRefines, PTL DEF Spec, ImplementsSessions, Sessions!Spec

=============================================================================
