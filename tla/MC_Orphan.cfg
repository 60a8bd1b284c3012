\* Reliable send callbacks: a failing send delivers nothing.
CONSTANTS
    tI = tI
    tH = tH
    tX = tX
    tF = tF
    FreshId = tF
    None = None
    Threads <- MCThreads
    IssuerThread = tI
    HolderThread = tH
    MayAckFail = FALSE
    RegistryCapacity = 2
    MaySendTimeOut = FALSE
    IssuerNoise <- MCNoise
SPECIFICATION Spec
INVARIANT NoOrphanCredential
CHECK_DEADLOCK FALSE
