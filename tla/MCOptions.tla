----------------------------- MODULE MCOptions -----------------------------
(***************************************************************************)
(* Inputs of ParseOptions for TLC.  A command line is the set of flags     *)
(* given with their values; an environment is the set of variables set.    *)
(* Each is built from a record of choices per flag or variable, Absent     *)
(* meaning "not given".  The input space crosses the connection modes     *)
(* (sessions, lock-session, connect backend, bookmarks-only, URL, host,   *)
(* user) with the cache TTL flag and PGWEB_QUERY_CACHE_TTL (a numeral, a  *)
(* numeral past the ParseUint bound).                                    *)
(* The ParseUint bound is 2^16 - 1 instead of 2^32 - 1: TLC's integers    *)
(* stop at 2^31 - 1, and a 6-digit numeral still exercises the rejection.  *)
(***************************************************************************)
EXTENDS Options

CONSTANTS Absent

Given(r) == [f \in {g \in DOMAIN r : r[g] # Absent} |-> r[f]]

MCMaxUint == 65535

\* --- connection modes --------------------------------------------------
ModeFlags ==
    [Sessions: {Absent, TRUE}, LockSession: {Absent, TRUE},
     ConnectBackend: {Absent, "http://auth"}, ConnectToken: {Absent, "tok"},
     BookmarksOnly: {Absent, TRUE}, URL: {Absent, "postgres://flag"},
     Host: {Absent, "127.0.0.1", "db"}, User: {Absent, "bob"},
     QueryCacheTTL: {Absent, 60}]

ModeArgs == {Given(r) : r \in ModeFlags} \cup {BadArgs, [LogLevel |-> "verbose"]}

ModeEnvs ==
    {Given(r) : r \in [PGWEB_DATABASE_URL: {Absent, "postgres://env"},
                       PGWEB_SESSIONS: {Absent, "1"},
                       LOCK_SESSION: {Absent, "1"},
                       PGWEB_BOOKMARKS_ONLY: {Absent, "1"},
                       PGWEB_CONNECT_TOKEN: {Absent},
                       PGWEB_QUERY_CACHE_TTL: {Absent, "300", "065536"}]}

ModeSys == [user: {NoUser, "alice"}, home: {""}, files: {[f \in {} |-> ""]}]

=============================================================================
