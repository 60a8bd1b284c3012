\* Reading, storing, restoring and deleting the object through the C API,
\* one call at a time, failing acknowledgements and reliable sends.
CONSTANTS
    tI = tI
    tH = tH
    tX = tX
    tF = tF
    c1 = c1
    c2 = c2
    FreshId = tF
    None = None
    Threads <- MCThreads
    IssuerThread = tI
    HolderThread = tH
    MayAckFail = TRUE
    RegistryCapacity = 2
    MaySendTimeOut = FALSE
    IssuerNoise <- MCNoise
    HolderNoise <- MCHolderNoise
    Cmds <- MCOneCmd
    CalledOps <- MCHousekeepingOps
SPECIFICATION ApiSpec
INVARIANT Agreement
PROPERTY CallbackDelivered
CHECK_DEADLOCK FALSE
