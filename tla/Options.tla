------------------------------ MODULE Options ------------------------------
(***************************************************************************)
(* Start-up configuration of pgweb: ParseOptions and SetDefaultOptions of  *)
(* pkg/command/options.go.  ParseOptions is a pure function of the command *)
(* line, the process environment and a few facts of the host (the user     *)
(* database, the files that exist, the home directory); it runs once at    *)
(* start-up.  Its blocks are modelled one operator each, in the order the  *)
(* code applies them, and ParseOptions composes them with its early        *)
(* returns.  Strings stay strings: the code concatenates, compares and     *)
(* parses them, so those conversions are modelled by what they do.         *)
(***************************************************************************)
EXTENDS Integers, Sequences

CONSTANTS
    ArgSpace,   \* command lines: [given flag |-> parsed value], or BadArgs
    EnvSpace,   \* environments: [set variable |-> value]
    SysSpace,   \* host facts: [user, home, files]
    BadArgs,    \* a command line go-flags rejects
    NoUser,     \* user.Current() failed
    MaxUint     \* 2^32 - 1, the bound of strconv.ParseUint(_, 10, 32)

ASSUME OptionsAssumption == MaxUint \in Nat

\* The fields of Options that ParseOptions reads or writes, with the
\* default: tags go-flags applies to a flag that is not given.
Defaults ==
    [LogLevel |-> "info", URL |-> "", Host |-> "localhost", User |-> "",
     Pass |-> "", Passfile |-> "", DbName |-> "", SSLMode |-> "",
     Sessions |-> FALSE, Prefix |-> "", LockSession |-> FALSE,
     Bookmark |-> "", BookmarksDir |-> "", BookmarksOnly |-> FALSE,
     QueriesDir |-> "", ConnectBackend |-> "", ConnectToken |-> "",
     ConnectHeaders |-> "", AuthUser |-> "", AuthPass |-> "",
     HideSchemas |-> "", HideObjects |-> "", FontFamily |-> "",
     FontSize |-> "14px", GoogleFonts |-> "", DisableQueryCache |-> FALSE,
     DisableMetadataCache |-> FALSE, QueryCacheTTL |-> 120,
     MetadataCacheTTL |-> 600]

\* flags.ParseArgs: a flag given on the command line keeps its parsed value,
\* every other field takes its default: tag.
WithDefaults(a) ==
    [f \in DOMAIN a \cup DOMAIN Defaults |-> IF f \in DOMAIN a THEN a[f] ELSE Defaults[f]]

\* The zero value of Options (the package variable Opts before it is set).
ZeroOptions ==
    [Defaults EXCEPT !.LogLevel = "", !.Host = "", !.FontSize = "",
                     !.QueryCacheTTL = 0, !.MetadataCacheTTL = 0]

NoError == "ok"
NoResult == [err |-> "none"]

\* logrus.ParseLevel accepts these names.
LogLevels == {"panic", "fatal", "error", "warn", "warning", "info", "debug", "trace"}

\* os.Getenv: an unset variable reads as "".
Getenv(env, name) == IF name \in DOMAIN env THEN env[name] ELSE ""

getPrefixedEnvVar(env, name) ==
    IF Getenv(env, "PGWEB_" \o name) # ""
    THEN Getenv(env, "PGWEB_" \o name)
    ELSE Getenv(env, name)

\* Mutant: u.Username used without the u != nil check.
getCurrentUserNoNilCheck(env, sys) == sys.user

getCurrentUser(env, sys) ==
    IF sys.user # NoUser THEN sys.user ELSE Getenv(env, "USER")

\* filepath.Join of a clean directory and a relative name.
Join(dir, name) == IF dir = "" THEN name ELSE dir \o "/" \o name

HasSuffix(s, x) == Len(s) >= Len(x) /\ SubSeq(s, Len(s) - Len(x) + 1, Len(s)) = x

\* strconv.ParseUint(s, 10, bitSize): decimal digits only, value <= MaxUint.
Digits == <<"0", "1", "2", "3", "4", "5", "6", "7", "8", "9">>
DigitValue(c) == CHOOSE d \in 0..9 : Digits[d + 1] = c
IsDecimal(s) ==
    Len(s) > 0 /\ \A i \in 1..Len(s) : SubSeq(s, i, i) \in {Digits[d] : d \in 1..10}
DecimalValue(s) ==
    \* saturates above MaxUint, so the value never grows past 10 * MaxUint + 9
    LET acc[i \in 0..Len(s)] ==
          IF i = 0 THEN 0
          ELSE IF acc[i - 1] > MaxUint THEN acc[i - 1]
          ELSE 10 * acc[i - 1] + DigitValue(SubSeq(s, i, i))
    IN acc[Len(s)]
ParsesAsUint(s) == IsDecimal(s) /\ DecimalValue(s) <= MaxUint

\* if opts.<field> == "" { opts.<field> = getPrefixedEnvVar(<name>) }
Fallback(o, env, field, name) ==
    IF o[field] = "" THEN [o EXCEPT ![field] = getPrefixedEnvVar(env, name)] ELSE o

FindPassfile(o, env, sys) ==
    LET p == IF Getenv(env, "PGPASSFILE") # "" THEN Getenv(env, "PGPASSFILE")
             ELSE Join(Getenv(env, "HOME"), ".pgpass")
    IN  IF o.Passfile = "" /\ p \in DOMAIN sys.files /\ sys.files[p] = "readable"
        THEN [o EXCEPT !.Passfile = p] ELSE o

LocalhostUser(o, env, sys) ==
    IF o.Host \in {"localhost", "127.0.0.1"} /\ o.User = ""
    THEN IF getCurrentUser(env, sys) # ""
         THEN [o EXCEPT !.User = getCurrentUser(env, sys)]
         ELSE [o EXCEPT !.Host = ""]
    ELSE o

EnvModes(o, env) ==
    LET o1 == IF getPrefixedEnvVar(env, "BOOKMARKS_ONLY") # ""
              THEN [o EXCEPT !.BookmarksOnly = TRUE] ELSE o
        o2 == IF getPrefixedEnvVar(env, "SESSIONS") # ""
              THEN [o1 EXCEPT !.Sessions = TRUE] ELSE o1
    IN  IF getPrefixedEnvVar(env, "LOCK_SESSION") # ""
        THEN [o2 EXCEPT !.LockSession = TRUE, !.Sessions = FALSE] ELSE o2

ConnectionFields == {"Bookmark", "URL", "Host", "User", "Pass", "DbName", "SSLMode"}

\* Mutant: the URL is left out of the fields sessions mode blanks.
ClearForSessionsKeepsURL(o) ==
    IF o.Sessions \/ o.ConnectBackend # ""
    THEN [f \in DOMAIN o |-> IF f \in ConnectionFields \ {"URL"} THEN "" ELSE o[f]]
    ELSE o

ClearForSessions(o) ==
    IF o.Sessions \/ o.ConnectBackend # ""
    THEN [f \in DOMAIN o |-> IF f \in ConnectionFields THEN "" ELSE o[f]]
    ELSE o

PrefixSlash(o) ==
    IF o.Prefix # "" /\ ~HasSuffix(o.Prefix, "/") THEN [o EXCEPT !.Prefix = @ \o "/"] ELSE o

DisplayFromEnv(o, env) ==
    LET o1 == Fallback(Fallback(o, env, "AuthUser", "AUTH_USER"), env, "AuthPass", "AUTH_PASS")
        o2 == Fallback(Fallback(o1, env, "HideSchemas", "HIDE_SCHEMAS"), env, "HideObjects", "HIDE_OBJECTS")
        o3 == Fallback(o2, env, "FontFamily", "FONT_FAMILY")
        o4 == IF o3.FontSize \in {"", "14px"} /\ getPrefixedEnvVar(env, "FONT_SIZE") # ""
              THEN [o3 EXCEPT !.FontSize = getPrefixedEnvVar(env, "FONT_SIZE")] ELSE o3
    IN  Fallback(o4, env, "GoogleFonts", "GOOGLE_FONTS")

\* The cache settings: an environment value replaces the field when it is
\* "true"/"1" (switches) or parses as a 32-bit unsigned decimal (TTLs).
CacheFromEnv(o, env) ==
    LET on(name) == getPrefixedEnvVar(env, name) \in {"true", "1"}
        ttl(name) == getPrefixedEnvVar(env, name)
        o1 == IF on("DISABLE_QUERY_CACHE") THEN [o EXCEPT !.DisableQueryCache = TRUE] ELSE o
        o2 == IF on("DISABLE_METADATA_CACHE") THEN [o1 EXCEPT !.DisableMetadataCache = TRUE] ELSE o1
        o3 == IF ParsesAsUint(ttl("QUERY_CACHE_TTL"))
              THEN [o2 EXCEPT !.QueryCacheTTL = DecimalValue(ttl("QUERY_CACHE_TTL"))] ELSE o2
    IN  IF ParsesAsUint(ttl("METADATA_CACHE_TTL"))
        THEN [o3 EXCEPT !.MetadataCacheTTL = DecimalValue(ttl("METADATA_CACHE_TTL"))] ELSE o3

\* The rules checked before ParseOptions returns.  The code returns the
\* first rule broken; CASE names one of them, and only whether one is broken
\* matters to the properties (the messages' wording is left out).
ModeError(o) ==
    CASE o.ConnectBackend # "" /\ ~o.Sessions             -> "needSessions"
      [] o.ConnectBackend # "" /\ o.ConnectToken = ""      -> "needToken"
      [] o.ConnectBackend = "" /\ (o.ConnectToken # "" \/ o.ConnectHeaders # "")
                                                           -> "needBackend"
      [] o.BookmarksOnly /\ o.URL # ""                     -> "bookmarksURL"
      [] o.BookmarksOnly /\ o.Host \notin {"", "localhost"} -> "bookmarksHost"
      [] o.BookmarksOnly /\ o.ConnectBackend # ""          -> "bookmarksBackend"
      [] OTHER                                             -> NoError

\* homedir.Dir() returns $HOME when it is set and the user database's home
\* otherwise ("" when that lookup fails, and then $HOME is "" too).
HomeDirs(o, env, sys) ==
    LET home == IF Getenv(env, "HOME") # "" THEN Getenv(env, "HOME") ELSE sys.home
    IN  IF home = "" THEN o
        ELSE [o EXCEPT !.BookmarksDir = IF @ = "" THEN Join(home, ".pgweb/bookmarks") ELSE @,
                       !.QueriesDir = IF @ = "" THEN Join(home, ".pgweb/queries") ELSE @]

ParseOptions(args, env, sys) ==
    IF args = BadArgs THEN [opts |-> ZeroOptions, err |-> "args"]
    ELSE LET o0 == WithDefaults(args)
         IN IF o0.LogLevel \notin LogLevels THEN [opts |-> o0, err |-> "logLevel"]
         ELSE LET o1 == Fallback(Fallback(o0, env, "URL", "DATABASE_URL"), env, "Prefix", "URL_PREFIX")
                  o2 == ClearForSessions(EnvModes(LocalhostUser(FindPassfile(o1, env, sys), env, sys), env))
                  o3 == CacheFromEnv(DisplayFromEnv(PrefixSlash(o2), env), env)
              IN IF ModeError(o3) # NoError THEN [opts |-> o3, err |-> ModeError(o3)]
                 ELSE [opts |-> HomeDirs(o3, env, sys), err |-> NoError]

VARIABLES
    args,     \* os.Args as go-flags parses them
    env,      \* the process environment
    sys,      \* the host: user database, files, home directory
    result,   \* what the start-up call of ParseOptions returned
    Opts,     \* the package variable Opts
    setErr    \* what SetDefaultOptions returned last

vars == <<args, env, sys, result, Opts, setErr>>

Init ==
    /\ args \in ArgSpace
    /\ env \in EnvSpace
    /\ sys \in SysSpace
    /\ result = NoResult
    /\ Opts = ZeroOptions
    /\ setErr = NoError

\* The start-up call ParseOptions(os.Args).
Parse ==
    /\ result = NoResult
    /\ result' = ParseOptions(args, env, sys)
    /\ UNCHANGED <<args, env, sys, Opts, setErr>>

SetDefaultOptions ==
    LET r == ParseOptions([f \in {} |-> ""], env, sys)
    IN  /\ \/ r.err = NoError /\ Opts' = r.opts
           \/ r.err # NoError /\ UNCHANGED Opts
        /\ setErr' = r.err
        /\ UNCHANGED <<args, env, sys, result>>

Next == Parse \/ SetDefaultOptions

Spec == Init /\ [][Next]_vars

Accepted == result # NoResult /\ result.err = NoError

ErrorNames == {"args", "logLevel", "needSessions", "needToken", "needBackend",
               "bookmarksURL", "bookmarksHost", "bookmarksBackend"}

\* The Go type of every field of Options that ParseOptions handles.
OptionsType ==
    [LogLevel: STRING, URL: STRING, Host: STRING, User: STRING, Pass: STRING,
     Passfile: STRING, DbName: STRING, SSLMode: STRING, Sessions: BOOLEAN,
     Prefix: STRING, LockSession: BOOLEAN, Bookmark: STRING,
     BookmarksDir: STRING, BookmarksOnly: BOOLEAN, QueriesDir: STRING,
     ConnectBackend: STRING, ConnectToken: STRING, ConnectHeaders: STRING,
     AuthUser: STRING, AuthPass: STRING, HideSchemas: STRING,
     HideObjects: STRING, FontFamily: STRING, FontSize: STRING,
     GoogleFonts: STRING, DisableQueryCache: BOOLEAN,
     DisableMetadataCache: BOOLEAN, QueryCacheTTL: Nat, MetadataCacheTTL: Nat]

\* Type invariant: what ParseOptions returns and what Opts holds are Options
\* values, every field of its Go type, and the errors are the ones it returns.
OptionsTypeOK ==
    /\ result = NoResult \/ (result.err \in ErrorNames \cup {NoError}
                             /\ result.opts \in OptionsType)
    /\ Opts \in OptionsType
    /\ setErr \in ErrorNames \cup {NoError}

\* Options o in sessions mode, or with a connect backend, carry no direct
\* connection.
NoDirectConnectionInSessions(o) ==
    (o.Sessions \/ o.ConnectBackend # "") => \A f \in ConnectionFields : o[f] = ""

\* In sessions mode, or with a connect backend, an accepted configuration
\* carries no direct connection: ParseOptions blanks the URL, host, user,
\* password, database, SSL mode and bookmark after it has taken the URL from
\* PGWEB_DATABASE_URL, filled the user for localhost and applied
\* PGWEB_SESSIONS / PGWEB_LOCK_SESSION, so none of those can bring one back.
\* The same holds of Opts, the configuration SetDefaultOptions installs.
SessionModeHasNoDirectConnection ==
    /\ Accepted => NoDirectConnectionInSessions(result.opts)
    /\ NoDirectConnectionInSessions(Opts)

=============================================================================
