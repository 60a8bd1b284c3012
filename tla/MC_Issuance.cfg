\* Reliable send callbacks (an error means nothing was delivered).
CONSTANTS
    tI = tI
    tH = tH
    tX = tX
    tF = tF
    FreshId = tF
    None = None
    Threads <- MCThreads
    IssuerThread = tI
    HolderThread = tH
    MayAckFail = FALSE
    RegistryCapacity = 2
    MaySendTimeOut = FALSE
    IssuerNoise <- MCNoise
SPECIFICATION Spec
INVARIANT TypeOK
INVARIANT Agreement
INVARIANT HolderOfferCurrent
PROPERTY ThreadIdStable
PROPERTY ImplementsAbstract
CHECK_DEADLOCK FALSE
