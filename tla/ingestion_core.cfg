SPECIFICATION Spec
CONSTANTS
    u1 = u1
    u2 = u2
    u3 = u3
    u4 = u4
    s1 = s1
    s2 = s2
    acme = acme
    report = report
    photo = photo
    broken = broken
    program = program
    video = video
    NoUpload = NoUpload
    NoLimit = NoLimit
    Uploads = {u1, u2, u3, u4}
    Orgs = {acme}
    Contents = {report, photo, broken, program, video}
    Slots = {s1, s2}
    OrgOf <- AllToAcme
    ContentOf <- ReportsBrokenVideo
    Strategy <- StrategyOf
    ChunkCount <- ChunksOf
    Unstorable = {broken}
    Oversized = {video}
    DailyLimit <- TwoADay
    TargetReads = 2
    BatchSize = 2
    MaxFaults = 1
    Suspects = {u1, u3}
    CommitWithinRetries = FALSE
CHECK_DEADLOCK FALSE
SYMMETRY SlotSymmetry
INVARIANTS TypeOK OneTaskPerDocument SearchableIsComplete EmbedReadsAllChunks JobAgrees FilesMatchRows IInv
PROPERTY ImplementsPublication
