CONSTANTS
    t1 = t1
    t2 = t2
    x1 = x1
    n1 = n1
    n2 = n2
    Tx <- MCTx
    OtherTx <- MCOtherTx
    State <- MCState
    NoState = NoState
    Nonce <- MCNonce
    Genesis = "s0"
    Note <- MCNote
    InitState <- MCInitState
    FinalState <- MCFinalState
    Inputs <- MCInputs
    Outputs <- MCOutputs
    Expiration <- MCExpiration
    Spread = TRUE
    MaxBlock = 4
    NoTx = NoTx
    Private = TRUE
    Public = {}
    Relevant = {n2}
    Imported = {n1}
    Delta = 1
    OneCall = FALSE
SPECIFICATION HistorySpec

INVARIANTS TypeOK ConsumedIsNullified CommittedStateIsSpent LocalConsumptionIsCommitted SerialPendingCanBeUndone SerialSettledMatchesChain
PROPERTIES CommittedIsFinal DiscardReachesDependents
