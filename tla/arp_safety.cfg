SPECIFICATION Spec
CONSTANTS
    p1 = p1  p2 = p2  p3 = p3
    x = x  y = y
    IPs = {x, y}
    Routed = {x, y}
    MACs = {m1}
    Packets = {p1, p2, p3}
    Dst <- ThreeDst
    Ttl <- ThreeTtl
    ReqIds = {r1, r2, r3}
    CacheSize = 1
    Timeout = 0
    AgeCap = 1
    MaxSends = 1
    WildReads = {"crash", "null", "some"}
    MaxReplies = 2
    NoReq = NoReq  NoPkt = NoPkt  NoMac = NoMac
SYMMETRY Symmetric
INVARIANTS
    TypeOK QueueSound NoLeak HeldOnce QueuedUnresolved
    NoMisdelivery OvertakeOnlyInBatch
PROPERTIES
    ImplementsService
