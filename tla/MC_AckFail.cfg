\* A failed update_message_status after a successful step (holder.rs:124).
CONSTANTS
    tI = tI
    tH = tH
    tX = tX
    tF = tF
    FreshId = tF
    None = None
    Threads <- MCThreads
    IssuerThread = tI
    HolderThread = tH
    MayAckFail = TRUE
    RegistryCapacity = 2
    MaySendTimeOut = FALSE
    IssuerNoise <- MCNoise
SPECIFICATION Spec
CHECK_DEADLOCK FALSE
INVARIANT HolderOfferCurrent
