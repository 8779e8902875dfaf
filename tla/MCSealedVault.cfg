CONSTANTS
    c1 = c1
    c2 = c2
    Client <- MCClient
    AccountId <- MCAccountId
    Credential <- MCCredential
    Threshold <- MCThreshold
    Time <- MCTime
    U32Max = 15
    MaxAge = 2
    Width = 4
    MaxCredentials = 2
SPECIFICATION Spec
INVARIANTS TypeOK ScoreIsCappedSum AttestationsStayProvable
