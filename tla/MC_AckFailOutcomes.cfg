\* Failing acknowledgements (holder.rs:124) with reliable sends: the outcomes still refine the abstract interaction.
CONSTANTS
    tI = tI
    tH = tH
    tX = tX
    tF = tF
    FreshId = tF
    None = None
    Threads <- MCThreads
    IssuerThread = tI
    HolderThread = tH
    MayAckFail = TRUE
    RegistryCapacity = 2
    MaySendTimeOut = FALSE
    IssuerNoise <- MCNoise
SPECIFICATION Spec
CHECK_DEADLOCK FALSE
INVARIANT Agreement
PROPERTY ImplementsAbstract
