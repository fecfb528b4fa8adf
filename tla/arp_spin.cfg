SPECIFICATION FairSpec
CONSTANTS
    p1 = p1  p2 = p2  p3 = p3
    x = x  y = y
    IPs = {x}
    Routed = {x}
    MACs = {m1}
    Packets = {p1, p2}
    Dst <- SameDst
    Ttl <- TwoTtl
    ReqIds = {r1, r2}
    CacheSize = 1
    Timeout = 0
    AgeCap = 1
    MaxSends = 1
    WildReads = {"some"}
    MaxReplies = 1
    NoReq = NoReq  NoPkt = NoPkt  NoMac = NoMac
PROPERTIES
    SweepRecurs
