\* Send callbacks that may report an error after delivering (a timeout).
CONSTANTS
    tI = tI
    tH = tH
    tX = tX
    tF = tF
    FreshId = tF
    None = None
    Threads <- MCThreads
    IssuerThread = tI
    HolderThread = tH
    MayAckFail = FALSE
    RegistryCapacity = 2
    MaySendTimeOut = TRUE
    IssuerNoise <- MCNoise
SPECIFICATION Spec
INVARIANT IndicesSpent

CHECK_DEADLOCK FALSE
