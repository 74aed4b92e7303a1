SPECIFICATION Spec
SYMMETRY NodeSymmetry
CONSTANTS
    c1 = c1
    c2 = c2
    c3 = c3
    c4 = c4
    c5 = c5
    c6 = c6
    p1 = p1
    p2 = p2
    p3 = p3
    p4 = p4
    p5 = p5
    p6 = p6
    p7 = p7
    v1 = v1
    v2 = v2
    d2 = d2
    VGs = {v1, v2}
    Disks = {d1, d2}
    Claims = {c1, c2, c3, c4, c5, c6}
    Nodes = {n1, n2}
    Pods = {p1, p2, p3, p4, p5, p6, p7}
    Batches <- MCBatches
    Kind <- MCKind
    Size <- MCSize
    VGParam <- MCVGParam
    Media <- MCMedia
    DiskKind <- MCDiskKind
    DiskSize <- MCDiskSize
    DiskMedia <- MCDiskMedia
    Spread = TRUE
    None = None
    PodClaims <- MCPodClaims
    InlineVG <- MCInlineVG
    InlineSize <- MCInlineSize
    SpdkNodes = {}
    SpdkPods = {}
    FirstDisks = {d1}
    FirstCap <- MCFirstCap
    MaxCap <- MCMaxCap
    MaxSize = 2
    MaxDisturbances = 1
    Faults = {}
INVARIANTS
    LedgerExact
    PromisesFit
    DiskExclusive
    AnswerIsReserved
    FilterIsSound
    NothingLeaks
CHECK_DEADLOCK FALSE
