SPECIFICATION Spec
CONSTANTS
    Call = {n1, n2}
    Nobody = Nobody
    MaxCred = 1
    MaxNonce = 2
INVARIANTS TypeOK AnswersAreTrue ResultIsHonest OnlyDoubtfulWritesComeLate GoodCredentialsSuffice
CHECK_DEADLOCK FALSE
