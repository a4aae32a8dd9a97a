---------------------------- MODULE MCClientRole ----------------------------
(* Instances of ClientRole for TLC: role names and headers as strings, a   *)
(* header that fails isValidRoleName standing for an injection attempt.    *)
EXTENDS ClientRole

MCValidRoles == {"alice", "bob"}
MCHeadersAll == {"", "alice", "x\"; DROP TABLE t; --"}
MCHeadersTwoRoles == {"", "alice", "bob"}
MCHeadersAlice == {"alice"}
MCHeadersNone == {""}
MCKindsAll == {"select", "update"}
MCKindsSelect == {"select"}
MCReadOnlyBoth == BOOLEAN
MCReadOnlyOn == {TRUE}
MCReadOnlyOff == {FALSE}
MCQueries == {"select 1", "select 2"}
=============================================================================
