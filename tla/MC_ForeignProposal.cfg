\* The issuer connection also carries a threaded proposal of another interaction.
CONSTANTS
    tI = tI
    tH = tH
    tX = tX
    tF = tF
    FreshId = tF
    None = None
    Threads <- MCThreads
    IssuerThread = tI
    HolderThread = tH
    MayAckFail = FALSE
    RegistryCapacity = 2
    MaySendTimeOut = FALSE
    IssuerNoise <- MCNoiseWithThreadedProposal
SPECIFICATION Spec
PROPERTY ThreadIdStable
CHECK_DEADLOCK FALSE
