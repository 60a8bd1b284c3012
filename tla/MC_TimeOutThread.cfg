\* An offer sent from Initial that is delivered but reported failed (a timeout): the issuer stays in Initial.
CONSTANTS
    tI = tI
    tH = tH
    tX = tX
    tF = tF
    FreshId = tF
    None = None
    Threads <- MCThreads
    IssuerThread = tI
    HolderThread = tH
    MayAckFail = FALSE
    RegistryCapacity = 2
    MaySendTimeOut = TRUE
    IssuerNoise <- MCNoise
SPECIFICATION Spec
PROPERTY ThreadIdStable

CHECK_DEADLOCK FALSE
