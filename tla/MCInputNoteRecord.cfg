CONSTANTS
    p1 = p1
    p2 = p2
    p3 = p3
    r1 = r1
    r2 = r2
    r3 = r3
    Proof <- MCProof
    Root <- MCRoot
    Verifies <- MCVerifies
    TxId = {t1, t2, t3}
    Height = {1, 2, 3, 4, 5, 6, 7}
    None = None
SPECIFICATION Spec
INVARIANTS TypeOK AuthenticatedIsVerified
PROPERTIES ConsumedIsFinal AuthenticationIsKept
