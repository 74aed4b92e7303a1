SPECIFICATION CleanSpec
CONSTANTS
    c1 = c1
    c2 = c2
    p1 = p1
    d3 = d3
    Nodes = {n1}
    Devices = {d1, d2, d3}
    PVCs = {c1, c2}
    PVs = {x1}
    Pods = {p1, p2}
    Capacities = {1, 2}
    DeviceMedia <- MCDeviceMedia
    PodPVCs <- MCPodPVCs
    PVCRequest <- MCPVCRequest
    PVCMedia <- MCPVCMedia
    NoDevice = NoDevice
    NoPVC = NoPVC
    NoPod = NoPod
    NoRecord = NoRecord
INVARIANTS
    DevicesExclusive
    DeviceAccounting
    GreedyIsComplete
    DeviceReservationsOwned
