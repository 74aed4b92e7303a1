SPECIFICATION Spec
CONSTANTS
    v1 = v1
    c1 = c1
    c2 = c2
    p1 = p1
    p2 = p2
    w1 = w1
    p3 = p3
    w2 = w2
    w3 = w3
    Nodes = {n1}
    VGs = {v1}
    PVCs = {c2}
    PVs = {x1}
    Pods = {p1, p2, p3}
    Volumes = {w1, w2, w3, w4}
    MaxSize = 2
    Capacities = {1, 2}
    Strategy = "binpack"
    PodPVCs <- MCPodPVCs
    PVCRequest <- MCPVCRequest
    PVCVG <- MCPVCVG
    VolPod <- MCVolPod
    VolVG <- MCVolVG
    VolSize <- MCVolSize
    NoVG = NoVG
    NoPVC = NoPVC
    NoPod = NoPod
    NoRecord = NoRecord
CONSTRAINT RequestBound
INVARIANTS
    TypeOK
    InlineReservationsOwned
