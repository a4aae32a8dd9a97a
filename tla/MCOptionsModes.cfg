\* ParseOptions over the connection modes: sessions mode and connect backends drop direct connections.
CONSTANTS
    BadArgs = BadArgs
    NoUser = NoUser
    Absent = Absent
    ArgSpace <- ModeArgs
    EnvSpace <- ModeEnvs
    SysSpace <- ModeSys
    MaxUint <- MCMaxUint
SPECIFICATION Spec
INVARIANT OptionsTypeOK
INVARIANT SessionModeHasNoDirectConnection
