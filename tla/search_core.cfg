SPECIFICATION Spec
CONSTANTS
    memo = memo
    note = note
    plan = plan
    menu = menu
    m1 = m1
    m2 = m2
    n1 = n1
    p1 = p1
    u1 = u1
    k1 = k1
    k2 = k2
    NoDocument = NoDocument
    Documents = {memo, note, plan, menu}
    Chunks = {m1, m2, n1, p1, u1}
    DocumentOf <- DocumentOfChunk
    CandidatePool = 2
    K = 20
    VectorWeight = 3
    RerankCandidates = 3
    ResultLimit = 2
    Clicks = {k1, k2}
CHECK_DEADLOCK FALSE
SYMMETRY ClickSymmetry
INVARIANTS FusionRespectsLegs DegradesToVectorOrder RerankNeverGates ExplainAccounts LogMatchesResponse
