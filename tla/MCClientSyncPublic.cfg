CONSTANTS
    t1 = t1
    x1 = x1
    n1 = n1
    n2 = n2
    Tx <- MCTx
    OtherTx <- MCOtherTx
    State <- MCState
    NoState = NoState
    Nonce <- MCNonce
    Genesis = "s0"
    Note <- MCNote
    InitState <- MCInitState
    FinalState <- MCFinalState
    Inputs <- MCInputs
    Outputs <- MCOutputs
    Expiration <- MCExpiration
    Spread = TRUE
    MaxBlock = 4
    NoTx = NoTx
    Private = FALSE
    Public = {n1, n2}
    Relevant = {}
    Imported = {}
    Delta = 1
    OneCall = TRUE
SPECIFICATION FairSpec
INVARIANTS PendingCanBeUndone SettledMatchesChain ConsumedIsNullified
PROPERTIES PendingIsResolved NullifierIsLearned
