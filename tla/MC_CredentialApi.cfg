\* The holder driven through the C API: two calls in flight at a time,
\* failing acknowledgements, reliable sends.
CONSTANTS
    tI = tI
    tH = tH
    tX = tX
    tF = tF
    c1 = c1
    c2 = c2
    FreshId = tF
    None = None
    Threads <- MCThreads
    IssuerThread = tI
    HolderThread = tH
    MayAckFail = TRUE
    RegistryCapacity = 2
    MaySendTimeOut = FALSE
    IssuerNoise <- MCNoise
    HolderNoise <- MCHolderNoise
    Cmds <- MCCmds
    CalledOps <- MCProtocolOps
SPECIFICATION ApiSpec
INVARIANT ApiTypeOK
INVARIANT Agreement
PROPERTY CallbackDelivered
CHECK_DEADLOCK FALSE
