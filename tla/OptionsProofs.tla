----------------------------- MODULE OptionsProofs -----------------------------
(***************************************************************************)
(* Proof that an accepted configuration in sessions mode, or with a        *)
(* connect backend, carries no direct connection, for every command line,  *)
(* environment and host.                                                   *)
(*                                                                         *)
(* The argument follows ParseOptions block by block.  ClearForSessions     *)
(* blanks the connection fields exactly when the result is in sessions     *)
(* mode or has a backend (it leaves Sessions and ConnectBackend alone).    *)
(* Every later block (PrefixSlash, DisplayFromEnv, CacheFromEnv, HomeDirs) *)
(* only writes other fields, so it Agrees with its input on the connection *)
(* fields, Sessions and ConnectBackend.  The earlier blocks only need to   *)
(* keep the domain, so that the connection fields exist when they are      *)
(* cleared.                                                                *)
(***************************************************************************)
EXTENDS Options, TLAPS

\* The fields the property reads.
Keep == ConnectionFields \cup {"Sessions", "ConnectBackend"}

\* p has o's fields and o's values on those of Keep that o has.
Agrees(p, o) == DOMAIN p = DOMAIN o /\ \A f \in Keep \cap DOMAIN o : p[f] = o[f]

\* The intermediate options of ParseOptions, named as in its LET.
O1(a, e) == Fallback(Fallback(WithDefaults(a), e, "URL", "DATABASE_URL"), e, "Prefix", "URL_PREFIX")
O2(a, e, s) == ClearForSessions(EnvModes(LocalhostUser(FindPassfile(O1(a, e), e, s), e, s), e))
O3(a, e, s) == CacheFromEnv(DisplayFromEnv(PrefixSlash(O2(a, e, s)), e), e)

LEMMA AgreesTrans ==
    ASSUME NEW p, NEW q, NEW o, Agrees(p, q), Agrees(q, o)
    PROVE  Agrees(p, o)
BY DEF Agrees

\* A fallback into a field outside Keep.
LEMMA FallbackAgrees ==
    ASSUME NEW o, NEW e, NEW field, NEW name, field \notin Keep
    PROVE  Agrees(Fallback(o, e, field, name), o)
BY DEF Fallback, Agrees

LEMMA PrefixSlashAgrees ==
    ASSUME NEW o
    PROVE  Agrees(PrefixSlash(o), o)
BY DEF PrefixSlash, Agrees, Keep, ConnectionFields

LEMMA DisplayFromEnvAgrees ==
    ASSUME NEW o, NEW e
    PROVE  Agrees(DisplayFromEnv(o, e), o)
<1> DEFINE o1 == Fallback(Fallback(o, e, "AuthUser", "AUTH_USER"), e, "AuthPass", "AUTH_PASS")
           o2 == Fallback(Fallback(o1, e, "HideSchemas", "HIDE_SCHEMAS"), e, "HideObjects", "HIDE_OBJECTS")
           o3 == Fallback(o2, e, "FontFamily", "FONT_FAMILY")
           o4 == IF o3.FontSize \in {"", "14px"} /\ getPrefixedEnvVar(e, "FONT_SIZE") # ""
                 THEN [o3 EXCEPT !.FontSize = getPrefixedEnvVar(e, "FONT_SIZE")] ELSE o3
<1>1. {"AuthUser", "AuthPass", "HideSchemas", "HideObjects", "FontFamily", "GoogleFonts"} \cap Keep = {}
  BY DEF Keep, ConnectionFields
<1>2. Agrees(o1, o)
  BY <1>1, FallbackAgrees, AgreesTrans
<1>3. Agrees(o3, o1)
  BY <1>1, FallbackAgrees, AgreesTrans
<1>4. Agrees(o4, o3)
  BY DEF Agrees, Keep, ConnectionFields
<1>5. Agrees(Fallback(o4, e, "GoogleFonts", "GOOGLE_FONTS"), o4)
  BY <1>1, FallbackAgrees
<1>6. QED
  BY <1>2, <1>3, <1>4, <1>5, AgreesTrans DEF DisplayFromEnv

LEMMA CacheFromEnvAgrees ==
    ASSUME NEW o, NEW e
    PROVE  Agrees(CacheFromEnv(o, e), o)
BY DEF CacheFromEnv, Agrees, Keep, ConnectionFields

LEMMA HomeDirsAgrees ==
    ASSUME NEW o, NEW e, NEW s
    PROVE  Agrees(HomeDirs(o, e, s), o)
BY DEF HomeDirs, Agrees, Keep, ConnectionFields

\* The blocks before ClearForSessions keep the domain of the options.
LEMMA EarlyBlocksKeepDomain ==
    ASSUME NEW a, NEW e, NEW s
    PROVE  DOMAIN EnvModes(LocalhostUser(FindPassfile(O1(a, e), e, s), e, s), e)
             = DOMAIN WithDefaults(a)
<1>1. DOMAIN O1(a, e) = DOMAIN WithDefaults(a)
  BY DEF O1, Fallback
<1>2. DOMAIN FindPassfile(O1(a, e), e, s) = DOMAIN O1(a, e)
  BY DEF FindPassfile
<1>3. DOMAIN LocalhostUser(FindPassfile(O1(a, e), e, s), e, s) = DOMAIN O1(a, e)
  BY <1>2 DEF LocalhostUser
<1>4. QED
  BY <1>1, <1>3 DEF EnvModes

\* Whatever the input, the output of ClearForSessions is in sessions mode
\* or has a backend only with every connection field blank.
LEMMA ClearForSessionsClears ==
    ASSUME NEW o, Keep \subseteq DOMAIN o
    PROVE  NoDirectConnectionInSessions(ClearForSessions(o))
<1>1. CASE o.Sessions \/ o.ConnectBackend # ""
  BY <1>1 DEF ClearForSessions, Keep, NoDirectConnectionInSessions
<1>2. CASE ~(o.Sessions \/ o.ConnectBackend # "")
  BY <1>2 DEF ClearForSessions, NoDirectConnectionInSessions
<1>3. QED
  BY <1>1, <1>2

(* ParseOptions accepts a configuration in sessions mode, or with a       *)
(* connect backend, only with every connection field blank.               *)
LEMMA ParseOptionsSessionSafe ==
    ASSUME NEW a, NEW e, NEW s,
           ParseOptions(a, e, s).err = NoError
    PROVE  NoDirectConnectionInSessions(ParseOptions(a, e, s).opts)
<1>1. a # BadArgs /\ WithDefaults(a).LogLevel \in LogLevels
  BY DEF ParseOptions, NoError
<1>2. ModeError(O3(a, e, s)) = NoError
      /\ ParseOptions(a, e, s).opts = HomeDirs(O3(a, e, s), e, s)
  BY <1>1 DEF ParseOptions, O1, O2, O3
<1>3. Keep \subseteq DOMAIN EnvModes(LocalhostUser(FindPassfile(O1(a, e), e, s), e, s), e)
  <2>1. Keep \subseteq DOMAIN Defaults
    BY DEF Defaults, Keep, ConnectionFields
  <2>2. DOMAIN WithDefaults(a) = DOMAIN a \cup DOMAIN Defaults
    BY DEF WithDefaults
  <2>3. QED
    BY <2>1, <2>2, EarlyBlocksKeepDomain
<1>4. Agrees(HomeDirs(O3(a, e, s), e, s), O2(a, e, s))
  <2>1. Agrees(PrefixSlash(O2(a, e, s)), O2(a, e, s))
    BY PrefixSlashAgrees
  <2>2. Agrees(DisplayFromEnv(PrefixSlash(O2(a, e, s)), e), PrefixSlash(O2(a, e, s)))
    BY DisplayFromEnvAgrees
  <2>3. Agrees(O3(a, e, s), DisplayFromEnv(PrefixSlash(O2(a, e, s)), e))
    BY CacheFromEnvAgrees DEF O3
  <2>4. Agrees(HomeDirs(O3(a, e, s), e, s), O3(a, e, s))
    BY HomeDirsAgrees
  <2>5. QED
    BY <2>1, <2>2, <2>3, <2>4, AgreesTrans
<1>5. NoDirectConnectionInSessions(O2(a, e, s))
  BY <1>3, ClearForSessionsClears DEF O2
<1>6. Keep \subseteq DOMAIN O2(a, e, s)
  BY <1>3 DEF O2, ClearForSessions
<1>7. QED
  BY <1>2, <1>4, <1>5, <1>6 DEF Agrees, Keep, NoDirectConnectionInSessions

-----------------------------------------------------------------------------
(* The start-up result is the parse of the unchanging inputs, or not there *)
(* yet; Opts is the zero value or what a successful SetDefaultOptions      *)
(* parsed from the empty command line.                                     *)
ParseInv ==
    /\ result = NoResult \/ result = ParseOptions(args, env, sys)
    /\ \/ Opts = ZeroOptions
       \/ /\ ParseOptions([f \in {} |-> ""], env, sys).err = NoError
          /\ Opts = ParseOptions([f \in {} |-> ""], env, sys).opts

LEMMA ParseInvInductive == Init /\ [][Next]_vars => []ParseInv
<1>1. Init => ParseInv
  BY DEF Init, ParseInv
<1>2. ParseInv /\ [Next]_vars => ParseInv'
  <2> SUFFICES ASSUME ParseInv, [Next]_vars PROVE ParseInv'
    OBVIOUS
  <2>1. CASE Parse
    BY <2>1 DEF ParseInv, Parse
  <2>2. CASE SetDefaultOptions
    BY <2>2 DEF ParseInv, SetDefaultOptions
  <2>3. CASE UNCHANGED vars
    BY <2>3 DEF ParseInv, vars
  <2>4. QED
    BY <2>1, <2>2, <2>3 DEF Next
<1>3. QED
  BY <1>1, <1>2, PTL

\* The zero value of Options is not in sessions mode and has no backend.
LEMMA ZeroOptionsSafe == NoDirectConnectionInSessions(ZeroOptions)
BY DEF ZeroOptions, Defaults, NoDirectConnectionInSessions

(* Sessions mode and connect backends never keep a direct connection: in  *)
(* every reachable state, an accepted start-up configuration, and the     *)
(* configuration Opts the handlers read, in sessions mode or with a       *)
(* backend has the URL, host, user, password, database, SSL mode and      *)
(* bookmark blank, whatever the flags and environment.                    *)
THEOREM SessionModeSafe == Spec => []SessionModeHasNoDirectConnection
<1>1. ParseInv => SessionModeHasNoDirectConnection
  BY ParseOptionsSessionSafe, ZeroOptionsSafe
     DEF ParseInv, SessionModeHasNoDirectConnection, Accepted
<1>2. QED
  BY <1>1, ParseInvInductive, PTL DEF Spec

=============================================================================
