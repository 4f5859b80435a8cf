SPECIFICATION FairSpec
CONSTANTS
    k1 = k1  k2 = k2
    NWords = 4
    Workers = {k1, k2}
    HasA = {1}
    HasAAAA = {1, 2}
    HasCNAME = {3}
    FileList = TRUE
    QueriesFail = TRUE
    CtxCauses = {"deadline", "canceled"}
INVARIANTS TypeOK FindsWhatResolves
PROPERTIES PlaysItsPart Converges BruteEnds
CHECK_DEADLOCK FALSE
